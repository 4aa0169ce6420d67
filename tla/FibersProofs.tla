---------------------------- MODULE FibersProofs ----------------------------
(***************************************************************************)
(* Proofs about Fibers, for every set of register contents, with and       *)
(* without direct switches and with TCB[0] clobbered or not.               *)
(***************************************************************************)
EXTENDS Fibers, TLAPS

USE ValuesAssumption

\* What a switch out of the current fiber does, given the waits w and the
\* banks b an OpenThread may have prepared.
Prepared(w, b) ==
  /\ w \in [Fibers -> Waits] /\ b \in [Fibers -> Contents]
  /\ w[cur] = "running" /\ \A f \in Fibers : w[f] = "running" => f = cur
  /\ \A f \in Fibers : w[f] \in {"yield", "call"} => b[f] = mine[f]
  /\ w["main"] \in {"running", "call"}

\* A ChangeThread that opens nothing starts from the waits and banks as they are.
LEMMA PreparedPlain == Inv => Prepared(wait, bank)
<1>. QED  BY DEF Inv, TypeOK, BanksHold, Prepared

\* An OpenThread that does not replace the running fiber returns a fiber and
\* leaves waits and banks a ChangeThread may start from.
LEMMA PreparedOpen ==
  ASSUME Inv, NEW e \in Entries, cur # OpenHandle(e)
  PROVE  Prepared(OpenWait(e), OpenBank(e)) /\ OpenHandle(e) \in Workers
<1>1. CASE e = "boot"
  BY <1>1, PreparedPlain DEF OpenWait, OpenBank, OpenHandle, Workers
<1>2. CASE e # "boot"
  <2>1. PICK f \in Workers : f = Opened(e)
    BY <1>2 DEF Opened, Workers, Entries, DisplayEntries
  <2>2. f # cur
    BY <1>2, <2>1 DEF OpenHandle
  <2>3. OpenWait(e) = [wait EXCEPT ![f] = "entry"] /\ OpenBank(e) = [bank EXCEPT ![f] = Zero]
    BY <1>2, <2>1 DEF OpenWait, OpenBank
  <2>4. f \in Fibers /\ f # "main" /\ "main" \in Fibers /\ "entry" \in Waits
    BY DEF Fibers, Workers, Waits
  <2>. QED  BY <1>2, <2>1, <2>2, <2>3, <2>4
       DEF Prepared, Inv, TypeOK, BanksHold, OpenHandle, Contents
<1>. QED  BY <1>1, <1>2

\* A switch keeps the banks, and the fiber it switches to gets its registers.
LEMMA SwitchKeepsBanks ==
  ASSUME Inv, NEW w, NEW b, Prepared(w, b), NEW f \in Fibers, f # cur,
         w[f] \in {"entry", "yield", "call"}, NEW nb \in [Fibers -> Contents],
         nb[cur] = regs, \A g \in Fibers : g # cur => nb[g] = b[g],
         NEW how \in {"yield", "call"}, cur = "main" => how = "call",
         NEW loaded, w[f] = "yield" => loaded = b[f],
         Switch(f, w, nb, how, loaded)
  PROVE  /\ BanksHold' /\ mine'[f] \in {Zero, regs'}
         /\ cur' \in Fibers /\ wait' \in [Fibers -> Waits] /\ regs' \in Contents
         /\ bank' \in [Fibers -> Contents] /\ mine' \in [Fibers -> Contents]
<1>. USE DEF Inv, TypeOK, Contents
<1>1. /\ cur' = f /\ wait' = [w EXCEPT ![cur] = how, ![f] = "running"] /\ bank' = nb
      /\ mine' = [mine EXCEPT ![cur] = regs, ![f] = IF w[f] = "entry" THEN Zero ELSE @]
  BY DEF Switch
<1>2. /\ w[f] = "entry" => regs' \in Values
      /\ w[f] = "call" => regs' = nb[f]
      /\ w[f] = "yield" => regs' = loaded
  BY DEF Switch
<1>3. /\ wait' \in [Fibers -> Waits] /\ mine' \in [Fibers -> Contents]
      /\ bank' \in [Fibers -> Contents] /\ cur' \in Fibers
  BY <1>1 DEF Prepared, Waits
<1>4. \A g \in Fibers : wait'[g] = IF g = f THEN "running" ELSE IF g = cur THEN how ELSE w[g]
  BY <1>1 DEF Prepared
<1>5. \A g \in Fibers : mine'[g] = IF g = f THEN (IF w[f] = "entry" THEN Zero ELSE mine[f])
                                   ELSE IF g = cur THEN regs ELSE mine[g]
  BY <1>1
<1>6. \A g \in Fibers : wait'[g] = "running" <=> g = cur'
  BY <1>1, <1>4 DEF Prepared
<1>7. \A g \in Fibers : wait'[g] \in {"yield", "call"} => bank'[g] = mine'[g]
  BY <1>1, <1>4, <1>5 DEF Prepared
<1>8. wait'["main"] \in {"running", "call"}
  BY <1>4 DEF Prepared, Fibers
<1>9. BanksHold'
  BY <1>6, <1>7, <1>8 DEF BanksHold
<1>10. mine'[f] \in {Zero, regs'} /\ regs' \in Contents
  BY <1>2, <1>5 DEF Prepared
<1>. QED  BY <1>3, <1>9, <1>10

\* ChangeThread, from the fiber that runs the scheduler or from the display.
LEMMA ChangeThreadKeepsBanks ==
  ASSUME Inv, cur = "main", NEW w, NEW b, Prepared(w, b), NEW h, ChangeThread(h, w, b)
  PROVE  /\ BanksHold' /\ (cur' # cur => mine'[cur'] \in {Zero, regs'})
         /\ cur' \in Fibers /\ wait' \in [Fibers -> Waits] /\ regs' \in Contents
         /\ bank' \in [Fibers -> Contents] /\ mine' \in [Fibers -> Contents]
         /\ started' \in {started, displayEntry'} /\ restart' \in BOOLEAN
         /\ displayReady' \in BOOLEAN
<1>. USE DEF Inv, TypeOK
<1>0. "main" \in Fibers /\ "display" \in Fibers /\ regs \in Contents
  BY DEF Fibers, Workers, Contents
<1>1. CASE h = "display" /\ ToDisplay(w, b)
  <2>. DEFINE fresh == w["display"] = "absent" \/ restart
              w2 == IF fresh THEN [w EXCEPT !["display"] = "entry"] ELSE w
              nb == [b EXCEPT !["main"] = regs]
  <2>1. Switch("display", w2, nb, "call", b["display"])
    BY <1>1 DEF ToDisplay
  <2>2. Prepared(w2, b)
    BY <1>0 DEF Prepared, Waits
  <2>3. w2["display"] \in {"entry", "yield", "call"}
    BY <1>0 DEF Prepared, Waits
  <2>4. nb \in [Fibers -> Contents] /\ nb[cur] = regs
        /\ \A g \in Fibers : g # cur => nb[g] = b[g]
    BY <1>0 DEF Prepared
  <2>5. cur' = "display"
    BY <2>1 DEF Switch
  <2>. HIDE DEF w2, nb, fresh
  <2>6. /\ BanksHold' /\ mine'["display"] \in {Zero, regs'}
        /\ cur' \in Fibers /\ wait' \in [Fibers -> Waits] /\ regs' \in Contents
        /\ bank' \in [Fibers -> Contents] /\ mine' \in [Fibers -> Contents]
    BY <1>0, <2>1, <2>2, <2>3, <2>4, SwitchKeepsBanks
  <2>7. started' \in {started, displayEntry'} /\ restart' \in BOOLEAN /\ displayReady' = FALSE
    BY <1>1 DEF ToDisplay
  <2>. QED  BY <2>5, <2>6, <2>7
<1>2. CASE h \in {"loading", "secondary"} /\ w[h] # "absent" /\ ToWorker(h, w, b)
  <2>. DEFINE nb == [b EXCEPT !["main"] = regs]
  <2>1. Switch(h, w, nb, "call", b[h])
    BY <1>2 DEF ToWorker
  <2>2. h \in Fibers /\ h # "main"
    BY <1>2 DEF Fibers, Workers
  <2>3. w[h] \in {"entry", "yield", "call"}
    BY <1>0, <1>2, <2>2 DEF Prepared, Waits
  <2>4. nb \in [Fibers -> Contents] /\ nb[cur] = regs
        /\ \A g \in Fibers : g # cur => nb[g] = b[g]
    BY <1>0 DEF Prepared
  <2>5. cur' = h
    BY <2>1 DEF Switch
  <2>. HIDE DEF nb
  <2>6. /\ BanksHold' /\ mine'[h] \in {Zero, regs'}
        /\ cur' \in Fibers /\ wait' \in [Fibers -> Waits] /\ regs' \in Contents
        /\ bank' \in [Fibers -> Contents] /\ mine' \in [Fibers -> Contents]
    BY <1>0, <2>1, <2>2, <2>3, <2>4, SwitchKeepsBanks
  <2>7. UNCHANGED <<started, restart, displayReady>>
    BY <1>2 DEF ToWorker
  <2>. QED  BY <2>5, <2>6, <2>7
<1>3. CASE ToNobody(w, b)
  <2>1. wait' = w /\ bank' = b /\ UNCHANGED <<cur, regs, mine, started, restart, displayReady>>
    BY <1>3 DEF ToNobody
  <2>2. BanksHold'
    BY <1>0, <2>1 DEF Prepared, BanksHold
  <2>. QED  BY <1>0, <2>1, <2>2 DEF Prepared
<1>. QED  BY <1>1, <1>2, <1>3 DEF ChangeThread

\* Yielding: the table, and the switch to the main fiber.
LEMMA ScannedType ==
  ASSUME NEW t \in Tcb, NEW i
  PROVE  Repaired(Scanned(t, i)) \in Tcb
<1>1. Scanned(t, i) \in Tcb
  BY DEF Scanned, Tcb, TcbStates, Handles, Workers
<1>2. \A u \in Tcb : Owner(u.entry) \in Handles
  BY DEF Tcb, Entries, DisplayEntries, Owner, Handles, Workers
<1>. HIDE DEF Scanned
<1>3. \A u \in Tcb : Repaired(u) \in Tcb
  BY <1>2 DEF Repaired, Tcb, TcbStates
<1>. QED  BY <1>1, <1>3

\* A yield with any table gives the main fiber its registers back.
LEMMA YieldKeepsInv ==
  ASSUME Inv, cur \in Workers, NEW table \in [Slots -> Tcb], YieldWith(table),
         game' \in Games
  PROVE  Inv' /\ (cur' # cur => mine'[cur'] \in {Zero, regs'})
<1>. USE DEF Inv
<1>. DEFINE nb == [bank EXCEPT ![cur] = regs]
<1>0. "main" \in Fibers /\ cur \in Fibers /\ cur # "main"
  BY DEF Fibers, Workers
<1>1. Switch("main", wait, nb, "yield", regs)
  BY DEF YieldWith
<1>2. wait["main"] = "call"
  BY <1>0 DEF BanksHold
<1>3. nb \in [Fibers -> Contents] /\ nb[cur] = regs
      /\ \A g \in Fibers : g # cur => nb[g] = bank[g]
  BY <1>0 DEF TypeOK
<1>4. cur' = "main"
  BY <1>1 DEF Switch
<1>. HIDE DEF nb
<1>5. /\ BanksHold' /\ mine'["main"] \in {Zero, regs'}
      /\ cur' \in Fibers /\ wait' \in [Fibers -> Waits] /\ regs' \in Contents
      /\ bank' \in [Fibers -> Contents] /\ mine' \in [Fibers -> Contents]
  BY <1>0, <1>1, <1>2, <1>3, PreparedPlain, SwitchKeepsBanks
<1>6. tcb' \in [Slots -> Tcb]
  BY ScannedType DEF YieldWith
<1>7. displayEntry' \in Entries /\ restart' \in BOOLEAN
  <2>1. 0 \in Slots
    BY DEF Slots
  <2>2. table[0].entry \in Entries
    BY <2>1 DEF Tcb
  <2>3. /\ displayEntry' = IF table[0].st = "open" THEN table[0].entry ELSE displayEntry
        /\ restart' = (restart \/ table[0].st = "open")
    BY DEF YieldWith
  <2>. QED  BY <2>2, <2>3 DEF TypeOK
<1>8. displayReady' \in BOOLEAN /\ flipping' \in BOOLEAN /\ flips' \in 0..2
  <2>0. IF cur = "display"
        THEN flipping' = FALSE /\ flips' = 0 /\ displayReady' = TRUE
        ELSE UNCHANGED <<flipping, flips, displayReady>>
    BY DEF YieldWith
  <2>1. CASE cur = "display"
    <3>1. flipping' = FALSE /\ flips' = 0 /\ displayReady' = TRUE
      BY <2>0, <2>1
    <3>2. FALSE \in BOOLEAN /\ TRUE \in BOOLEAN /\ 0 \in 0..2
      OBVIOUS
    <3>. QED  BY <3>1, <3>2
  <2>2. CASE cur # "display"
    BY <2>0, <2>2 DEF TypeOK
  <2>. QED  BY <2>1, <2>2
<1>9. slot' = slot /\ started' = started
  BY DEF YieldWith
<1>10. TypeOK'
  BY <1>5, <1>6, <1>7, <1>8, <1>9 DEF TypeOK
<1>. QED  BY <1>4, <1>5, <1>10

\* A state written into a block leaves a table.
LEMMA TableStType ==
  ASSUME TypeOK, NEW i \in Slots, NEW st \in TcbStates
  PROVE  [tcb EXCEPT ![i].st = st] \in [Slots -> Tcb]
<1>. QED  BY DEF TypeOK, Tcb

\* So do a state and an entry function.
LEMMA TableEntryType ==
  ASSUME TypeOK, NEW i \in Slots, NEW st \in TcbStates, NEW e \in Entries
  PROVE  [tcb EXCEPT ![i].st = st, ![i].entry = e] \in [Slots -> Tcb]
<1>. QED  BY DEF TypeOK, Tcb

\* Scratchpad 0x1D4 always names a block of the table.
LEMMA CurrentIsSlot == TypeOK => Current \in Slots
<1>. QED  BY DEF TypeOK, Current, Slots, Outside

\* The runner starts with all banks empty and main running.
LEMMA InitInv == Init => Inv
<1>. SUFFICES ASSUME Init PROVE Inv
  OBVIOUS
<1>1. tcb \in [Slots -> Tcb]
  BY DEF Init, Tcb, TcbStates, Handles, Entries, DisplayEntries
<1>2. wait \in [Fibers -> Waits]
  BY DEF Init, Waits
<1>3. regs \in Contents /\ bank \in [Fibers -> Contents] /\ mine \in [Fibers -> Contents]
  BY DEF Init, Contents
<1>4. /\ cur \in Fibers /\ slot \in Slots \cup {Outside}
      /\ displayEntry \in Entries /\ started \in Entries
  BY DEF Init, Fibers, Entries, DisplayEntries
<1>5. /\ restart \in BOOLEAN /\ displayReady \in BOOLEAN
      /\ flipping \in BOOLEAN /\ flips \in 0..2
  <2>1. restart = FALSE /\ displayReady = FALSE /\ flipping = FALSE
    BY DEF Init
  <2>2. flips \in 0..2
    BY DEF Init
  <2>. QED  BY <2>1, <2>2
<1>0. game \in Games
  BY DEF Init
<1>6. TypeOK
  BY <1>0, <1>1, <1>2, <1>3, <1>4, <1>5 DEF TypeOK
<1>7. BanksHold
  BY DEF Init, BanksHold, Fibers
<1>. QED  BY <1>6, <1>7 DEF Inv

\* Every step keeps the invariant and switches to a fiber with its registers.
LEMMA StepKeepsInv ==
  ASSUME Inv, [Next]_vars
  PROVE  Inv' /\ (cur' # cur => mine'[cur'] \in {Zero, regs'})
<1>. DEFINE Goal == Inv' /\ (cur' # cur => mine'[cur'] \in {Zero, regs'})
<1>0. TypeOK /\ BanksHold /\ game' \in Games
  BY DEF Inv, TypeOK, Next, MainStep, WorkerStep, OtherStep, vars
<1>1. CASE EnterScheduler \/ SkipSlot \/ VSync
  <2>1. UNCHANGED <<cpuVars, tcb, displayVars, flips>>
    BY <1>1 DEF EnterScheduler, SkipSlot, VSync, frameVars
  <2>2. slot' \in Slots \cup {Outside}
    BY <1>0, <1>1 DEF EnterScheduler, SkipSlot, VSync, Scheduling, TypeOK,
       Slots, Outside
  <2>3. flipping' \in BOOLEAN
    BY <1>0, <1>1 DEF EnterScheduler, SkipSlot, VSync, frameVars, TypeOK
  <2>. QED  BY <1>0, <2>1, <2>2, <2>3
       DEF Inv, TypeOK, BanksHold, cpuVars, displayVars
<1>2. CASE DispatchReady
  <2>. DEFINE h == tcb[slot].handle
  <2>1. cur = "main" /\ slot \in Slots /\ ChangeThread(h, wait, bank)
        /\ displayEntry' = displayEntry
    BY <1>2 DEF DispatchReady, Scheduling
  <2>2. tcb' \in [Slots -> Tcb]
    <3>1. tcb' = [tcb EXCEPT ![slot].st = "running"] /\ "running" \in TcbStates
      BY <1>2 DEF DispatchReady, TcbStates
    <3>. QED  BY <1>0, <2>1, <3>1, TableStType
  <2>4. slot' \in Slots \cup {Outside} /\ UNCHANGED <<flipping, flips>>
    BY <1>2, <2>1 DEF DispatchReady, frameVars, Slots, Outside
  <2>. HIDE DEF h
  <2>3. /\ BanksHold' /\ (cur' # cur => mine'[cur'] \in {Zero, regs'})
        /\ cur' \in Fibers /\ wait' \in [Fibers -> Waits] /\ regs' \in Contents
        /\ bank' \in [Fibers -> Contents] /\ mine' \in [Fibers -> Contents]
        /\ started' \in {started, displayEntry'} /\ restart' \in BOOLEAN
        /\ displayReady' \in BOOLEAN
    BY <2>1, PreparedPlain, ChangeThreadKeepsBanks
  <2>. QED  BY <1>0, <2>1, <2>2, <2>3, <2>4 DEF Inv, TypeOK
<1>3. CASE DispatchOpen
  <2>. DEFINE e == tcb[slot].entry
  <2>1. cur = "main" /\ slot \in Slots /\ e \in Entries
        /\ ChangeThread(OpenHandle(e), OpenWait(e), OpenBank(e))
        /\ displayEntry' \in {e, displayEntry}
    BY <1>0, <1>3 DEF DispatchOpen, Scheduling, TypeOK, Tcb
  <2>2. slot' \in Slots \cup {Outside} /\ UNCHANGED <<flipping, flips>>
    BY <1>3, <2>1 DEF DispatchOpen, frameVars, Slots, Outside
  <2>. HIDE DEF e
  <2>3. cur # OpenHandle(e)
    BY <2>1 DEF OpenHandle, Opened, Entries, DisplayEntries
  <2>4. Prepared(OpenWait(e), OpenBank(e)) /\ OpenHandle(e) \in Workers
    BY <2>1, <2>3, PreparedOpen
  <2>5. tcb' = [tcb EXCEPT ![slot].st = "running", ![slot].handle = OpenHandle(e)]
    BY <1>3 DEF DispatchOpen, e
  <2>6. tcb' \in [Slots -> Tcb]
    BY <1>0, <2>1, <2>4, <2>5 DEF TypeOK, Tcb, TcbStates, Handles
  <2>7. /\ BanksHold' /\ (cur' # cur => mine'[cur'] \in {Zero, regs'})
        /\ cur' \in Fibers /\ wait' \in [Fibers -> Waits] /\ regs' \in Contents
        /\ bank' \in [Fibers -> Contents] /\ mine' \in [Fibers -> Contents]
        /\ started' \in {started, displayEntry'} /\ restart' \in BOOLEAN
        /\ displayReady' \in BOOLEAN
    BY <2>1, <2>4, ChangeThreadKeepsBanks
  <2>. QED  BY <1>0, <2>1, <2>2, <2>6, <2>7 DEF Inv, TypeOK
<1>4. CASE MainReopensDisplay
  <2>1. tcb' \in [Slots -> Tcb]
    <3>1. tcb' = [tcb EXCEPT ![0].st = "open", ![0].entry = "game"]
      BY <1>4 DEF MainReopensDisplay
    <3>2. 0 \in Slots /\ "open" \in TcbStates /\ "game" \in Entries
      BY DEF Slots, TcbStates, Entries, DisplayEntries
    <3>. QED  BY <1>0, <3>1, <3>2, TableEntryType
  <2>. QED  BY <1>0, <1>4, <2>1
       DEF MainReopensDisplay, Inv, TypeOK, BanksHold, cpuVars, displayVars, frameVars
<1>5. CASE MainClobbersTcb
  <2>1. tcb' \in [Slots -> Tcb]
    BY <1>0, <1>5 DEF MainClobbersTcb, TypeOK, Tcb, Slots, Handles, Entries
  <2>. QED  BY <1>0, <1>5, <2>1
       DEF MainClobbersTcb, Inv, TypeOK, BanksHold, cpuVars, displayVars, frameVars
<1>6. CASE Compute
  BY <1>0, <1>6
  DEF Compute, Inv, TypeOK, BanksHold, Contents, displayVars, frameVars
<1>7. CASE Yield \/ Finish
  <2>1. cur \in Workers /\ Current \in Slots
    BY <1>0, <1>7, CurrentIsSlot DEF Yield, Finish, Workers
  <2>2. PICK st \in TcbStates : YieldWith([tcb EXCEPT ![Current].st = st])
    BY <1>7 DEF Yield, Finish, TcbStates
  <2>3. [tcb EXCEPT ![Current].st = st] \in [Slots -> Tcb]
    BY <1>0, <2>1, TableStType
  <2>. QED  BY <1>0, <2>1, <2>2, <2>3, YieldKeepsInv
<1>8. CASE DisplayReplacesItself
  <2>1. PICK e \in DisplayEntries : YieldWith([tcb EXCEPT ![0].st = "open", ![0].entry = e])
    BY <1>8 DEF DisplayReplacesItself
  <2>2. cur \in Workers /\ 0 \in Slots /\ e \in Entries /\ "open" \in TcbStates
    BY <1>8 DEF DisplayReplacesItself, Workers, Slots, Entries, TcbStates
  <2>3. [tcb EXCEPT ![0].st = "open", ![0].entry = e] \in [Slots -> Tcb]
    BY <1>0, <2>2, TableEntryType
  <2>. QED  BY <1>0, <2>1, <2>2, <2>3, YieldKeepsInv
<1>9. ASSUME NEW e \in {"load", "sub"}, NEW i \in Slots, StartWorker(e, i) PROVE Goal
  <2>1. cur = "display" /\ e \in Entries
    BY <1>9 DEF StartWorker, Entries
  <2>2. cur # OpenHandle(e)
    BY <2>1 DEF OpenHandle, Opened
  <2>3. Prepared(OpenWait(e), OpenBank(e)) /\ OpenHandle(e) \in Workers
    BY <2>1, <2>2, PreparedOpen
  <2>4. BanksHold' /\ wait' \in [Fibers -> Waits] /\ bank' \in [Fibers -> Contents]
    BY <1>0, <1>9, <2>3 DEF StartWorker, Prepared, BanksHold, TypeOK
  <2>5. tcb' \in [Slots -> Tcb]
    BY <1>0, <1>9, <2>1, <2>3 DEF StartWorker, TypeOK, Tcb, TcbStates, Handles
  <2>. QED  BY <1>0, <1>9, <2>4, <2>5 DEF StartWorker, Inv, TypeOK, displayVars, frameVars
<1>10. CASE FrameFlip
  BY <1>0, <1>10 DEF FrameFlip, Inv, TypeOK, BanksHold, cpuVars, displayVars
<1>11. CASE DisplaySwitches
  <2>1. PICK f \in {"loading", "secondary"} : wait[f] # "absent" /\ ToWorker(f, wait, bank)
    BY <1>11 DEF DisplaySwitches
  <2>. DEFINE nb == [bank EXCEPT !["display"] = regs]
  <2>2. cur = "display" /\ Switch(f, wait, nb, "call", bank[f])
        /\ UNCHANGED <<started, restart, displayReady>>
    BY <1>11, <2>1 DEF DisplaySwitches, ToWorker
  <2>3. f \in Fibers /\ f # cur /\ "display" \in Fibers
    BY <2>2 DEF Fibers, Workers
  <2>4. wait[f] \in {"entry", "yield", "call"}
    BY <1>0, <2>1, <2>3 DEF TypeOK, BanksHold, Waits
  <2>5. nb \in [Fibers -> Contents] /\ nb[cur] = regs
        /\ \A g \in Fibers : g # cur => nb[g] = bank[g]
    BY <1>0, <2>2, <2>3 DEF TypeOK
  <2>6. cur' = f
    BY <2>2 DEF Switch
  <2>. HIDE DEF nb
  <2>7. /\ BanksHold' /\ mine'[f] \in {Zero, regs'}
        /\ cur' \in Fibers /\ wait' \in [Fibers -> Waits] /\ regs' \in Contents
        /\ bank' \in [Fibers -> Contents] /\ mine' \in [Fibers -> Contents]
    BY <2>2, <2>3, <2>4, <2>5, PreparedPlain, SwitchKeepsBanks
  <2>. QED  BY <1>0, <1>11, <2>2, <2>6, <2>7
       DEF DisplaySwitches, Inv, TypeOK, frameVars
<1>12. CASE UNCHANGED vars
  BY <1>0, <1>12 DEF vars, cpuVars, displayVars, frameVars, Inv, TypeOK, BanksHold
<1>13. 1 \in Slots /\ 2 \in Slots
  BY DEF Slots
<1>. QED
  BY <1>1, <1>2, <1>3, <1>4, <1>5, <1>6, <1>7, <1>8, <1>9, <1>10, <1>11, <1>12, <1>13
  DEF Next, MainStep, WorkerStep, OtherStep

\* The fibers, the tables and the banks keep their types.
THEOREM TypeCorrect == Spec => []TypeOK
<1>1. Inv /\ [Next]_vars => Inv'
  BY StepKeepsInv
<1>2. Inv => TypeOK
  BY DEF Inv
<1>. QED  BY <1>1, <1>2, InitInv, PTL DEF Spec

\* The threads' tables and banks keep their types, and each bank holds what the
\* suspended fiber gave up.
THEOREM BanksAlwaysHold == Spec => []Inv
<1>1. Inv /\ [Next]_vars => Inv'
  BY StepKeepsInv
<1>. QED  BY <1>1, InitInv, PTL DEF Spec

\* Whatever is opened, restarted, dispatched or clobbered, a fiber that is
\* switched back to runs on with the registers it gave up.
THEOREM RegistersAlwaysComeBack == Spec => RegistersComeBack
<1>1. Inv /\ [Next]_vars => Inv'
  BY StepKeepsInv
<1>2. Inv /\ [Next]_vars => [cur' # cur => mine'[cur'] \in {Zero, regs'}]_vars
  BY StepKeepsInv
<1>. QED  BY <1>1, <1>2, InitInv, PTL DEF Spec, RegistersComeBack
----------------------------------------------------------------------------
(***************************************************************************)
(* Threads left to the scheduler.  The display's block is the first, each  *)
(* worker's entry function has one block, a fiber runs from the block the  *)
(* scheduler looked at last, and the display leaves only through a yield.  *)
(***************************************************************************)
BlocksOK ==
  /\ tcb[0].entry \in DisplayEntries /\ tcb[0].st \in {"open", "ready", "running"}
  /\ tcb[1].st # "none" => tcb[1].entry = "sub" /\ tcb[1].st \in {"ready", "running"}
  /\ tcb[2].st # "none" => tcb[2].entry = "load" /\ tcb[2].st \in {"ready", "running"}
  /\ \A i \in Slots : tcb[i].st \in {"ready", "running"} => tcb[i].handle = Owner(tcb[i].entry)

RunsFromBlock ==
  cur \in Workers => slot # 0 /\ tcb[Current].st = "running" /\ tcb[Current].handle = cur

\* The display's block is to be opened only between two passes of the scheduler.
ReopenedOutside ==
  tcb[0].st = "open" =>
    /\ cur = "main" /\ slot \in {0, Outside}
    /\ tcb[0].entry = "boot" => displayEntry = "boot" /\ wait["display"] = "absent"

\* The entry function the display runs, or will run when it is dispatched.
Expected == IF wait["display"] \in {"absent", "entry"} \/ restart THEN displayEntry ELSE started

EntryKept ==
  /\ tcb[0].st # "open" => Expected = tcb[0].entry
  /\ restart => wait["display"] \in {"yield", "call"}

FlipGuarded == flips \in 0..1 /\ (flips = 1 => cur = "display" /\ flipping)

Scheduled == BlocksOK /\ RunsFromBlock /\ ReopenedOutside /\ EntryKept /\ FlipGuarded
SchedInv == Inv /\ (game = "scheduled" => Scheduled)

\* What a ChangeThread by main does to the display's state.
LEMMA ToDisplayEffect ==
  ASSUME cur = "main", NEW w \in [Fibers -> Waits], NEW b, ToDisplay(w, b)
  PROVE  /\ cur' = "display" /\ wait'["display"] = "running"
         /\ restart' = (restart /\ w["display"] = "absent")
         /\ started' = IF w["display"] \in {"absent", "entry"} \/ restart
                       THEN displayEntry' ELSE started
<1>. DEFINE fresh == w["display"] = "absent" \/ restart
            w2 == IF fresh THEN [w EXCEPT !["display"] = "entry"] ELSE w
<1>0. w2 \in [Fibers -> Waits] /\ "display" \in Fibers
  BY DEF Fibers, Workers, Waits
<1>. HIDE DEF w2
<1>1. Switch("display", w2, [b EXCEPT !["main"] = regs], "call", b["display"])
  BY DEF ToDisplay, w2
<1>2. cur' = "display" /\ wait' = [w2 EXCEPT ![cur] = "call", !["display"] = "running"]
  BY <1>1 DEF Switch
<1>3. wait'["display"] = "running"
  BY <1>0, <1>2
<1>. QED  BY <1>2, <1>3 DEF ToDisplay

LEMMA ToWorkerEffect ==
  ASSUME cur = "main", NEW w \in [Fibers -> Waits], NEW b,
         NEW f \in {"loading", "secondary"}, ToWorker(f, w, b)
  PROVE  /\ cur' = f /\ wait'["display"] = w["display"]
         /\ UNCHANGED <<started, restart, displayReady>>
<1>1. /\ cur' = f /\ wait' = [w EXCEPT ![cur] = "call", ![f] = "running"]
  BY DEF ToWorker, Switch
<1>2. "display" \in Fibers
  BY DEF Fibers, Workers
<1>. QED  BY <1>1, <1>2 DEF ToWorker

\* Which fiber owns which block.
LEMMA Owners ==
  /\ \A e \in DisplayEntries : Owner(e) = "display"
  /\ Owner("load") = "loading" /\ Owner("sub") = "secondary"
<1>. QED  BY DEF Owner, DisplayEntries

\* What a yield makes of a block that belongs to a thread.
LEMMA ScannedBlock ==
  ASSUME NEW t \in Tcb, NEW i \in Slots
  PROVE  LET u == Repaired(Scanned(t, i)) IN
         /\ u.entry = t.entry
         /\ t.st = "none" => u.st = "none"
         /\ t.st \in {"yielded", "running", "ready"} /\ Owner(t.entry) # "bad"
              => u.st = "ready" /\ u.handle = Owner(t.entry)
         /\ t.st = "open" /\ i = 0 /\ Owner(t.entry) # "bad"
              => u.st = "ready" /\ u.handle = Owner(t.entry)
<1>. DEFINE s == Scanned(t, i)
<1>1. /\ s \in Tcb /\ s.entry = t.entry
      /\ t.st = "none" => s.st = "none"
      /\ t.st \in {"yielded", "running", "ready"} => s.st = "ready"
      /\ t.st = "open" /\ i = 0 => s.st = "ready"
  BY DEF Scanned, Tcb, TcbStates, Handles, Workers
<1>. HIDE DEF s
<1>2. /\ Repaired(s).entry = s.entry
      /\ s.st = "none" => Repaired(s).st = "none"
      /\ s.st = "ready" /\ Owner(s.entry) # "bad"
           => Repaired(s).st = "ready" /\ Repaired(s).handle = Owner(s.entry)
  BY <1>1 DEF Repaired, Tcb
<1>. QED  BY <1>1, <1>2 DEF s

\* A yield of a worker with a table in which the blocks still have their owners.
LEMMA YieldKeepsScheduled ==
  ASSUME Inv, Scheduled, cur \in Workers, NEW table \in [Slots -> Tcb], YieldWith(table),
         table[0].entry \in DisplayEntries, table[0].st \in {"open", "yielded", "ready", "running"},
         table[0].st = "open" => cur = "display",
         table[0].st # "open" => table[0].entry = tcb[0].entry,
         \A i \in {1, 2} : /\ table[i].entry = tcb[i].entry
                           /\ table[i].st \in {tcb[i].st, "none"} \/ tcb[i].st # "none"
                           /\ table[i].st \in {"none", "yielded", "ready", "running"}
  PROVE  Scheduled'
<1>. USE DEF Scheduled
<1>0. 0 \in Slots /\ 1 \in Slots /\ 2 \in Slots /\ \A i \in Slots : i \in {0, 1, 2}
  BY DEF Slots
<1>1. \A i \in Slots : tcb'[i] = Repaired(Scanned(table[i], i))
  BY DEF YieldWith
<1>2. tcb'[0].entry = table[0].entry /\ tcb'[0].st = "ready" /\ tcb'[0].handle = "display"
  <2>1. Owner(table[0].entry) = "display"
    BY Owners
  <2>. QED  BY <1>0, <1>1, <2>1, ScannedBlock
<1>3. tcb'[1].entry = tcb[1].entry /\ tcb'[1].st \in {"none", "ready"}
      /\ (tcb'[1].st # "none" => tcb[1].entry = "sub" /\ tcb'[1].handle = "secondary")
  <2>1. table[1].st # "none" => tcb[1].entry = "sub" /\ Owner(table[1].entry) = "secondary"
    BY Owners DEF BlocksOK
  <2>. QED  BY <1>0, <1>1, <2>1, ScannedBlock
<1>4. tcb'[2].entry = tcb[2].entry /\ tcb'[2].st \in {"none", "ready"}
      /\ (tcb'[2].st # "none" => tcb[2].entry = "load" /\ tcb'[2].handle = "loading")
  <2>1. table[2].st # "none" => tcb[2].entry = "load" /\ Owner(table[2].entry) = "loading"
    BY Owners DEF BlocksOK
  <2>. QED  BY <1>0, <1>1, <2>1, ScannedBlock
<1>5. BlocksOK'
  BY <1>0, <1>2, <1>3, <1>4, Owners DEF BlocksOK
<1>6. cur' = "main" /\ wait' = [wait EXCEPT ![cur] = "yield", !["main"] = "running"]
      /\ slot' = slot /\ started' = started
  BY DEF YieldWith, Switch
<1>7. RunsFromBlock' /\ ReopenedOutside'
  BY <1>2, <1>6 DEF RunsFromBlock, ReopenedOutside, Workers
<1>8. wait'["display"] = IF cur = "display" THEN "yield" ELSE wait["display"]
  BY <1>6 DEF Inv, TypeOK, Workers, Fibers
<1>9. EntryKept'
  <2>1. CASE table[0].st = "open"
    <3>1. displayEntry' = table[0].entry /\ restart' = TRUE /\ wait'["display"] = "yield"
      BY <1>8, <2>1 DEF YieldWith
    <3>. QED  BY <1>2, <3>1 DEF EntryKept, Expected
  <2>2. CASE table[0].st # "open"
    <3>1. displayEntry' = displayEntry /\ restart' = restart /\ tcb'[0].entry = tcb[0].entry
      BY <1>2, <2>2 DEF YieldWith, Inv, TypeOK
    <3>2. tcb[0].st # "open"
      BY DEF ReopenedOutside, Workers
    <3>3. cur = "display" => wait["display"] = "running"
      BY DEF Inv, BanksHold, Fibers, Workers
    <3>. QED  BY <1>6, <1>8, <3>1, <3>2, <3>3 DEF EntryKept, Expected
  <2>. QED  BY <2>1, <2>2
<1>10. FlipGuarded'
  <2>1. CASE cur = "display"
    BY <2>1 DEF YieldWith, FlipGuarded
  <2>2. CASE cur # "display"
    BY <2>2 DEF YieldWith, FlipGuarded
  <2>. QED  BY <2>1, <2>2
<1>. QED  BY <1>5, <1>7, <1>9, <1>10

\* The start: one block, to be opened with the boot display.
LEMMA InitScheduled == Init => SchedInv
<1>. SUFFICES ASSUME Init PROVE Scheduled
  BY InitInv DEF SchedInv
<1>0. 0 \in Slots /\ 1 \in Slots /\ 2 \in Slots /\ "display" \in Fibers
  BY DEF Slots, Fibers, Workers
<1>1. /\ tcb[0].st = "open" /\ tcb[0].entry = "boot"
      /\ \A i \in Slots : i # 0 => tcb[i].st = "none"
  BY <1>0 DEF Init
<1>2. BlocksOK
  BY <1>0, <1>1 DEF BlocksOK, DisplayEntries
<1>3. RunsFromBlock /\ ReopenedOutside /\ EntryKept
  BY <1>0, <1>1 DEF Init, RunsFromBlock, ReopenedOutside, EntryKept, Workers
<1>4. FlipGuarded
  BY DEF Init, FlipGuarded
<1>. QED  BY <1>2, <1>3, <1>4 DEF Scheduled

\* The dispatch of a block: it is marked running, and its thread, if there is
\* one, runs from it.
LEMMA DispatchKeepsScheduled ==
  ASSUME Inv, Scheduled, Scheduling, slot' = slot + 1,
         tcb[slot].st \in {"ready", "open"}, tcb[slot].st = "open" => slot = 0,
         NEW w \in [Fibers -> Waits], NEW b, NEW h,
         h = Owner(tcb[slot].entry), ChangeThread(h, w, b),
         tcb' = [tcb EXCEPT ![slot].st = "running", ![slot].handle = h],
         UNCHANGED frameVars,
         slot # 0 => w["display"] = wait["display"] /\ displayEntry' = displayEntry,
         slot = 0 /\ (w["display"] \in {"absent", "entry"} \/ restart)
           => displayEntry' = tcb[0].entry,
         slot = 0 /\ ~(w["display"] \in {"absent", "entry"} \/ restart)
           => started = tcb[0].entry,
         restart => w["display"] # "absent"
  PROVE  Scheduled'
<1>. USE DEF Scheduled
<1>0. 0 \in Slots /\ 1 \in Slots /\ 2 \in Slots /\ slot \in {0, 1, 2} /\ cur = "main"
      /\ \A i \in Slots : i \in {0, 1, 2}
  BY DEF Slots, Scheduling
<1>1. tcb[slot] \in Tcb
  BY <1>0 DEF Inv, TypeOK
<1>2. /\ tcb'[slot].st = "running" /\ tcb'[slot].handle = h
      /\ tcb'[slot].entry = tcb[slot].entry
      /\ \A i \in Slots : i # slot => tcb'[i] = tcb[i]
  BY <1>0, <1>1 DEF Inv, TypeOK, Tcb
<1>3. /\ slot = 0 => h = "display"
      /\ slot = 1 => h = "secondary"
      /\ slot = 2 => h = "loading"
  BY Owners DEF BlocksOK
<1>4. BlocksOK'
  BY <1>0, <1>2, <1>3 DEF BlocksOK
<1>5. tcb'[0].st # "open"
  <2>1. CASE slot = 0
    BY <1>2, <2>1
  <2>2. CASE slot # 0
    <3>1. tcb[0].st # "open"
      BY <1>0, <2>2 DEF ReopenedOutside, Outside
    <3>2. tcb'[0] = tcb[0]
      BY <1>0, <1>2, <2>2
    <3>. QED  BY <3>1, <3>2
  <2>. QED  BY <2>1, <2>2
<1>6. ReopenedOutside'
  BY <1>5 DEF ReopenedOutside
<1>7. Current' = slot /\ slot' # 0
  BY <1>0 DEF Current
<1>8. flips = 0 /\ FlipGuarded'
  BY <1>0 DEF FlipGuarded, frameVars
<1>9. CASE h = "display" /\ ToDisplay(w, b)
  <2>1. /\ cur' = "display" /\ wait'["display"] = "running"
        /\ restart' = (restart /\ w["display"] = "absent")
        /\ started' = IF w["display"] \in {"absent", "entry"} \/ restart
                      THEN displayEntry' ELSE started
    BY <1>0, <1>9, ToDisplayEffect
  <2>2. slot = 0
    BY <1>0, <1>3, <1>9
  <2>3. started' = tcb[0].entry /\ restart' = FALSE
    BY <2>1, <2>2
  <2>4. EntryKept'
    BY <1>2, <2>1, <2>2, <2>3 DEF EntryKept, Expected
  <2>5. RunsFromBlock'
    BY <1>2, <1>7, <1>9, <2>1 DEF RunsFromBlock
  <2>. QED  BY <1>4, <1>6, <1>8, <2>4, <2>5
<1>10. ASSUME slot # 0, wait'["display"] = w["display"],
              UNCHANGED <<started, restart, displayReady>>
       PROVE  EntryKept'
  <2>1. tcb'[0] = tcb[0] /\ tcb[0].st # "open"
    BY <1>0, <1>2, <1>5, <1>10
  <2>. QED  BY <1>10, <2>1 DEF EntryKept, Expected
<1>11. CASE h \in {"loading", "secondary"} /\ ToWorker(h, w, b)
  <2>1. cur' = h /\ wait'["display"] = w["display"] /\ UNCHANGED <<started, restart, displayReady>>
    BY <1>0, <1>11, ToWorkerEffect
  <2>2. slot # 0
    BY <1>3, <1>11
  <2>3. RunsFromBlock'
    BY <1>2, <1>7, <2>1 DEF RunsFromBlock
  <2>. QED  BY <1>4, <1>6, <1>8, <1>10, <2>1, <2>2, <2>3
<1>12. CASE h \in {"loading", "secondary"} /\ ToNobody(w, b)
  <2>1. cur' = "main" /\ wait' = w /\ UNCHANGED <<started, restart, displayReady>>
    BY <1>0, <1>12 DEF ToNobody
  <2>2. slot # 0
    BY <1>3, <1>12
  <2>3. RunsFromBlock'
    BY <2>1 DEF RunsFromBlock, Workers
  <2>. QED  BY <1>4, <1>6, <1>8, <1>10, <2>1, <2>2, <2>3
<1>. QED  BY <1>0, <1>3, <1>9, <1>11, <1>12 DEF ChangeThread

\* Every step of threads left to the scheduler keeps the blocks with their owners.
LEMMA StepKeepsScheduled ==
  ASSUME Inv, Scheduled, game = "scheduled", [Next]_vars
  PROVE  Scheduled' /\ game' = game
<1>. USE DEF Scheduled
<1>0. /\ TypeOK /\ BanksHold /\ game' = game
      /\ 0 \in Slots /\ 1 \in Slots /\ 2 \in Slots
      /\ \A i \in Slots : i \in {0, 1, 2}
  BY DEF Inv, Next, MainStep, WorkerStep, OtherStep, vars, Slots
<1>1. /\ BlocksOK /\ RunsFromBlock /\ ReopenedOutside /\ EntryKept /\ FlipGuarded
      /\ flips \in 0..1
  BY DEF FlipGuarded
<1>2. ASSUME UNCHANGED <<cpuVars, tcb, displayVars>>
      PROVE  BlocksOK' /\ EntryKept'
  BY <1>1, <1>2 DEF BlocksOK, EntryKept, Expected, cpuVars, displayVars
<1>3. ASSUME UNCHANGED <<cpuVars, tcb, slot, displayVars>>
      PROVE  BlocksOK' /\ EntryKept' /\ RunsFromBlock' /\ ReopenedOutside'
  BY <1>1, <1>2, <1>3
  DEF RunsFromBlock, ReopenedOutside, Current, cpuVars, displayVars
<1>4. CASE EnterScheduler \/ SkipSlot
  <2>1. cur = "main" /\ UNCHANGED <<cpuVars, tcb, displayVars, flips>>
    BY <1>4 DEF EnterScheduler, SkipSlot, Scheduling, frameVars
  <2>2. BlocksOK' /\ EntryKept'
    BY <1>2, <2>1
  <2>3. RunsFromBlock' /\ FlipGuarded'
    BY <1>1, <2>1 DEF RunsFromBlock, FlipGuarded, Workers, cpuVars
  <2>4. tcb[0].st = "open" => slot' \in {0, Outside}
    <3>1. CASE EnterScheduler
      BY <3>1 DEF EnterScheduler
    <3>2. CASE SkipSlot
      BY <1>1, <3>2 DEF SkipSlot, Scheduling, ReopenedOutside, Slots, Outside
    <3>. QED  BY <1>4, <3>1, <3>2
  <2>5. ReopenedOutside'
    BY <1>1, <2>1, <2>4 DEF ReopenedOutside, cpuVars, displayVars
  <2>. QED  BY <1>0, <2>2, <2>3, <2>5
<1>5. CASE VSync \/ Compute \/ FrameFlip
  <2>1. BlocksOK' /\ EntryKept' /\ RunsFromBlock' /\ ReopenedOutside'
    <3>1. CASE VSync \/ FrameFlip
      BY <1>3, <3>1 DEF VSync, FrameFlip
    <3>2. CASE Compute
      BY <1>1, <3>2 DEF Compute, BlocksOK, EntryKept, Expected, RunsFromBlock,
         ReopenedOutside, Current, displayVars
    <3>. QED  BY <1>5, <3>1, <3>2
  <2>2. FlipGuarded'
    BY <1>1, <1>5 DEF VSync, Compute, FrameFlip, FlipGuarded, cpuVars, frameVars
  <2>. QED  BY <1>0, <2>1, <2>2
<1>6. CASE MainReopensDisplay
  <2>1. /\ cur = "main" /\ slot = Outside
        /\ UNCHANGED <<cpuVars, slot, displayVars, frameVars>>
        /\ tcb' = [tcb EXCEPT ![0].st = "open", ![0].entry = "game"]
    BY <1>6 DEF MainReopensDisplay
  <2>2. /\ tcb'[0].st = "open" /\ tcb'[0].entry = "game"
        /\ tcb'[1] = tcb[1] /\ tcb'[2] = tcb[2]
    BY <1>0, <2>1 DEF TypeOK, Tcb
  <2>3. BlocksOK'
    BY <1>0, <1>1, <2>2 DEF BlocksOK, DisplayEntries
  <2>4. RunsFromBlock' /\ ReopenedOutside' /\ EntryKept' /\ FlipGuarded'
    BY <1>1, <2>1, <2>2
    DEF RunsFromBlock, ReopenedOutside, EntryKept, FlipGuarded, Workers, cpuVars,
        displayVars, frameVars
  <2>. QED  BY <1>0, <2>3, <2>4
<1>7. CASE DispatchReady
  <2>1. /\ Scheduling /\ tcb[slot].st = "ready" /\ slot' = slot + 1
        /\ tcb' = [tcb EXCEPT ![slot].st = "running"] /\ displayEntry' = displayEntry
        /\ ChangeThread(tcb[slot].handle, wait, bank) /\ UNCHANGED frameVars
    BY <1>7 DEF DispatchReady
  <2>2. slot \in Slots /\ tcb[slot] \in Tcb
    BY <1>0, <2>1 DEF Scheduling, TypeOK
  <2>3. tcb[slot].handle = Owner(tcb[slot].entry)
    BY <1>1, <2>1, <2>2 DEF BlocksOK
  <2>. DEFINE h == tcb[slot].handle
  <2>4. tcb' = [tcb EXCEPT ![slot].st = "running", ![slot].handle = h]
    BY <1>0, <2>1, <2>2 DEF TypeOK, Tcb
  <2>5. slot = 0 => Expected = tcb[0].entry
    BY <1>1, <2>1 DEF EntryKept
  <2>6. /\ slot = 0 /\ (wait["display"] \in {"absent", "entry"} \/ restart)
             => displayEntry' = tcb[0].entry
        /\ slot = 0 /\ ~(wait["display"] \in {"absent", "entry"} \/ restart)
             => started = tcb[0].entry
    BY <2>1, <2>5 DEF Expected
  <2>7. wait \in [Fibers -> Waits] /\ (restart => wait["display"] # "absent")
    BY <1>0, <1>1 DEF TypeOK, EntryKept
  <2>. HIDE DEF h
  <2>8. h = Owner(tcb[slot].entry) /\ ChangeThread(h, wait, bank)
    BY <2>1, <2>3 DEF h
  <2>. QED  BY <1>0, <2>1, <2>4, <2>6, <2>7, <2>8, DispatchKeepsScheduled
<1>8. CASE DispatchOpen
  <2>. DEFINE e == tcb[slot].entry
              h == OpenHandle(e)
              w == OpenWait(e)
  <2>1. /\ Scheduling /\ tcb[slot].st = "open" /\ slot' = slot + 1
        /\ tcb' = [tcb EXCEPT ![slot].st = "running", ![slot].handle = h]
        /\ displayEntry' = IF Opened(e) = "display" THEN e ELSE displayEntry
        /\ ChangeThread(h, w, OpenBank(e)) /\ UNCHANGED frameVars
    BY <1>8 DEF DispatchOpen
  <2>2. slot = 0 /\ cur = "main"
    BY <1>0, <1>1, <2>1 DEF Scheduling, BlocksOK
  <2>3. e = tcb[0].entry /\ e \in DisplayEntries
    BY <1>1, <2>2 DEF BlocksOK
  <2>4. h = "display" /\ h = Owner(e)
    BY <2>2, <2>3, Owners DEF OpenHandle, Opened, DisplayEntries
  <2>5. CASE e = "boot"
    <3>1. w = wait /\ displayEntry' = "boot" /\ wait["display"] = "absent" /\ displayEntry = "boot"
      BY <1>1, <2>1, <2>2, <2>3, <2>5 DEF OpenWait, Opened, ReopenedOutside
    <3>2. ~restart /\ wait \in [Fibers -> Waits]
      BY <1>0, <1>1, <3>1 DEF EntryKept, TypeOK
    <3>. HIDE DEF h, w
    <3>. QED  BY <1>0, <2>1, <2>2, <2>3, <2>4, <2>5, <3>1, <3>2, DispatchKeepsScheduled
  <2>6. CASE e # "boot"
    <3>1. Opened(e) = "display"
      BY <2>4, <2>6 DEF OpenHandle
    <3>2. w = [wait EXCEPT !["display"] = "entry"] /\ displayEntry' = e
      BY <2>1, <2>6, <3>1 DEF OpenWait
    <3>3. w \in [Fibers -> Waits] /\ w["display"] = "entry"
      BY <1>0, <3>2 DEF TypeOK, Fibers, Workers, Waits
    <3>. HIDE DEF h, w
    <3>. QED  BY <1>0, <2>1, <2>2, <2>3, <2>4, <3>2, <3>3, DispatchKeepsScheduled
  <2>. QED  BY <2>5, <2>6
<1>9. CASE Yield \/ Finish
  <2>1. PICK st \in {"yielded", "none"} : YieldWith([tcb EXCEPT ![Current].st = st])
                                           /\ (st = "none" => cur # "display")
    BY <1>9 DEF Yield, Finish
  <2>2. cur \in Workers
    BY <1>9 DEF Yield, Finish, Workers
  <2>3. Current \in Slots /\ tcb[Current].st = "running" /\ tcb[Current].handle = cur
    BY <1>0, <1>1, <2>2, CurrentIsSlot DEF RunsFromBlock
  <2>. DEFINE t == [tcb EXCEPT ![Current].st = st]
  <2>4. t \in [Slots -> Tcb]
    BY <1>0, <2>3, TableStType DEF TcbStates
  <2>5. \A i \in Slots : /\ t[i].entry = tcb[i].entry
                         /\ t[i].st = IF i = Current THEN st ELSE tcb[i].st
    BY <1>0, <2>3 DEF TypeOK, Tcb
  <2>6. st = "none" => Current # 0
    BY <1>0, <1>1, <2>1, <2>3, Owners DEF BlocksOK
  <2>7. tcb[0].st # "open"
    BY <1>1, <2>2 DEF ReopenedOutside, Workers
  <2>8. /\ t[0].entry = tcb[0].entry /\ t[0].entry \in DisplayEntries
        /\ t[0].st \in {"yielded", "ready", "running"}
    BY <1>0, <1>1, <2>5, <2>6, <2>7 DEF BlocksOK
  <2>9. \A i \in {1, 2} : /\ t[i].entry = tcb[i].entry
                          /\ t[i].st \in {tcb[i].st, "none"} \/ tcb[i].st # "none"
                          /\ t[i].st \in {"none", "yielded", "ready", "running"}
    BY <1>0, <1>1, <2>3, <2>5 DEF BlocksOK
  <2>. HIDE DEF t
  <2>10. YieldWith(t)
    BY <2>1 DEF t
  <2>. QED  BY <1>0, <2>2, <2>4, <2>8, <2>9, <2>10, YieldKeepsScheduled
<1>10. CASE DisplayReplacesItself
  <2>1. PICK e \in DisplayEntries : YieldWith([tcb EXCEPT ![0].st = "open", ![0].entry = e])
    BY <1>10 DEF DisplayReplacesItself
  <2>. DEFINE t == [tcb EXCEPT ![0].st = "open", ![0].entry = e]
  <2>2. cur = "display" /\ cur \in Workers
    BY <1>10 DEF DisplayReplacesItself, Workers
  <2>3. t \in [Slots -> Tcb]
    BY <1>0, TableEntryType DEF Entries, TcbStates
  <2>4. t[0].st = "open" /\ t[0].entry = e /\ t[1] = tcb[1] /\ t[2] = tcb[2]
    BY <1>0 DEF TypeOK, Tcb
  <2>5. \A i \in {1, 2} : /\ t[i].entry = tcb[i].entry
                          /\ t[i].st \in {tcb[i].st, "none"} \/ tcb[i].st # "none"
                          /\ t[i].st \in {"none", "yielded", "ready", "running"}
    BY <1>0, <1>1, <2>4 DEF BlocksOK
  <2>. HIDE DEF t
  <2>6. YieldWith(t)
    BY <2>1 DEF t
  <2>. QED  BY <1>0, <2>2, <2>3, <2>4, <2>5, <2>6, YieldKeepsScheduled
<1>11. ASSUME NEW e, NEW i \in {1, 2}, <<e, i>> \in {<<"load", 2>>, <<"sub", 1>>},
              StartWorker(e, i)
       PROVE  Scheduled'
  <2>1. /\ cur = "display" /\ tcb[i].st = "none"
        /\ wait' = OpenWait(e)
        /\ tcb' = [tcb EXCEPT ![i] = [st |-> "ready", handle |-> OpenHandle(e), entry |-> e]]
        /\ UNCHANGED <<cur, slot, displayVars, frameVars>>
    BY <1>11 DEF StartWorker
  <2>2. OpenHandle(e) = Opened(e) /\ Opened(e) = Owner(e) /\ Owner(e) # "display" /\ e # "boot"
    BY <1>11, <2>1, Owners DEF OpenHandle, Opened, DisplayEntries
  <2>3. wait'["display"] = wait["display"]
    BY <1>0, <2>1, <2>2 DEF OpenWait, TypeOK, Fibers, Workers
  <2>4. /\ \A j \in Slots : j # i => tcb'[j] = tcb[j]
        /\ tcb'[i].st = "ready" /\ tcb'[i].handle = Owner(e) /\ tcb'[i].entry = e
    BY <1>0, <1>11, <2>1, <2>2 DEF TypeOK
  <2>5. BlocksOK'
    BY <1>0, <1>1, <1>11, <2>4 DEF BlocksOK
  <2>6. Current \in Slots /\ Current # i /\ Current' = Current
    BY <1>0, <1>1, <2>1, CurrentIsSlot DEF RunsFromBlock, Workers, Current
  <2>7. RunsFromBlock' /\ ReopenedOutside'
    BY <1>0, <1>1, <1>11, <2>1, <2>4, <2>6 DEF RunsFromBlock, ReopenedOutside
  <2>8. EntryKept' /\ FlipGuarded'
    BY <1>0, <1>1, <1>11, <2>1, <2>3, <2>4
    DEF EntryKept, Expected, FlipGuarded, displayVars, frameVars
  <2>. QED  BY <2>5, <2>7, <2>8
<1>12. CASE UNCHANGED vars
  <2>1. UNCHANGED <<cpuVars, tcb, slot, displayVars, frameVars>>
    BY <1>12 DEF vars, cpuVars, displayVars, frameVars
  <2>2. FlipGuarded'
    BY <1>1, <2>1 DEF FlipGuarded, cpuVars, frameVars
  <2>. QED  BY <1>0, <1>3, <2>1, <2>2
<1>13. ~MainClobbersTcb /\ ~DisplaySwitches
  BY DEF MainClobbersTcb, DisplaySwitches
<1>14. CASE StartWorker("load", 2) \/ StartWorker("sub", 1)
  BY <1>0, <1>11, <1>14
<1>. QED  BY <1>0, <1>4, <1>5, <1>6, <1>7, <1>8, <1>9, <1>10, <1>12, <1>13, <1>14
          DEF Next, MainStep, WorkerStep, OtherStep

LEMMA StepKeepsSchedInv == SchedInv /\ [Next]_vars => SchedInv'
<1>. SUFFICES ASSUME SchedInv, [Next]_vars PROVE SchedInv'
  OBVIOUS
<1>1. Inv' /\ Inv
  BY StepKeepsInv DEF SchedInv
<1>2. game' = game
  BY DEF Next, MainStep, WorkerStep, OtherStep, vars
<1>. QED  BY <1>1, <1>2, StepKeepsScheduled DEF SchedInv

\* While the scheduler alone switches, scratchpad 0x1D4 names the block of the
\* thread that runs, through every restart, yield and end of a thread.
THEOREM CurrentBlockAlwaysMine == Spec => []CurrentBlockIsMine
<1>1. SchedInv => CurrentBlockIsMine
  <2>. SUFFICES ASSUME SchedInv, game = "scheduled", cur \in Workers
                PROVE  Owner(tcb[Current].entry) = cur
    BY DEF CurrentBlockIsMine
  <2>1. Current \in Slots /\ tcb[Current].st = "running" /\ tcb[Current].handle = cur
    BY CurrentIsSlot DEF SchedInv, Scheduled, RunsFromBlock, Inv
  <2>. QED  BY <2>1 DEF SchedInv, Scheduled, BlocksOK
<1>. QED  BY <1>1, InitScheduled, StepKeepsSchedInv, PTL DEF Spec

\* While the scheduler alone switches, the display runs the entry function its
\* block names and flips at most once between two of its yields.
THEOREM DisplayAlwaysOK == Spec => []DisplayOK
<1>1. SchedInv => DisplayOK
  <2>. SUFFICES ASSUME SchedInv, game = "scheduled"
                PROVE  /\ cur = "display" => started = tcb[0].entry
                       /\ flips <= 1 /\ (cur = "display" /\ flips = 1 => flipping)
    BY DEF DisplayOK, DisplayRunsItsEntry, OneFlipPerFrame
  <2>1. Scheduled /\ Inv
    BY DEF SchedInv
  <2>2. ASSUME cur = "display" PROVE started = tcb[0].entry
    <3>1. tcb[0].st # "open"
      BY <2>1, <2>2 DEF Scheduled, ReopenedOutside
    <3>2. wait["display"] = "running"
      BY <2>1, <2>2 DEF Inv, BanksHold, Fibers, Workers
    <3>. QED  BY <2>1, <3>1, <3>2 DEF Scheduled, EntryKept, Expected
  <2>3. flips <= 1 /\ (cur = "display" /\ flips = 1 => flipping)
    BY <2>1 DEF Scheduled, FlipGuarded
  <2>. QED  BY <2>2, <2>3
<1>. QED  BY <1>1, InitScheduled, StepKeepsSchedInv, PTL DEF Spec
=============================================================================
