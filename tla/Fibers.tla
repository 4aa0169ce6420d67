------------------------------- MODULE Fibers -------------------------------
(***************************************************************************)
(* The cooperative threads of the runner (runtime.c): the PS1 threads run  *)
(* as Windows fibers that share one CPUState.  OpenThread and ChangeThread *)
(* (B(0x0E), B(0x10)) create, replace and switch fibers and move the MIPS  *)
(* registers between the CPUState and one bank per fiber; the scheduler    *)
(* FUN_80017024, reimplemented in C, walks the game's table of three       *)
(* thread control blocks; a yield rewrites that table in place of the      *)
(* VBlank interrupt the runner does not have.                              *)
(*                                                                         *)
(* A step runs from one fiber switch to the next: nothing else interrupts  *)
(* a fiber.  What the game's own code does with its threads is external    *)
(* and modelled by the calls the runner's comments say it makes.           *)
(***************************************************************************)
EXTENDS Naturals

CONSTANTS
  Values,  \* the register contents a fiber computes (bound)
  Zero     \* a bank that was cleared: no register contents

ASSUME ValuesAssumption == Zero \notin Values /\ Values # {}

Workers == {"display", "loading", "secondary"}   \* handles 2, 3 and 4
Fibers == Workers \cup {"main"}
Handles == Workers \cup {"bad"}                  \* "bad": any other number
Slots == 0..2
Outside == 3                                     \* main is not scheduling

\* Entry functions: 0x800191E0, 0x80019844, 0x80021340, 0x8001F1C0, others.
DisplayEntries == {"boot", "game"}
Entries == DisplayEntries \cup {"load", "sub", "unknown"}
Owner(e) == CASE e \in DisplayEntries -> "display"
              [] e = "load" -> "loading"
              [] e = "sub" -> "secondary"
              [] e = "unknown" -> "bad"

\* State 0 none, 1 yielded, 2 ready, 3 to be opened, 4 running.
TcbStates == {"none", "yielded", "ready", "open", "running"}
Tcb == [st : TcbStates, handle : Handles, entry : Entries]

Contents == Values \cup {Zero}

\* Where a fiber continues when it is switched to: at its entry function,
\* after a yield, or inside a ChangeThread of its own that then takes its
\* registers back from its bank.
Waits == {"absent", "entry", "yield", "call", "running"}

\* What the game does: it leaves its threads to the scheduler, or the display
\* fiber switches to workers by itself and the main loop writes GPU data over
\* TCB[0] (runtime.c:753).
Games == {"scheduled", "direct"}

VARIABLES game,         \* which of the two, for good
          cur,          \* GetCurrentFiber()
          wait,         \* per fiber; "absent" while its handle is NULL
          regs,         \* the registers in the CPUState
          bank,         \* g_main_saved, g_display_saved, ...
          mine,         \* history: the registers each fiber last gave up,
                        \* Zero from when it starts at its entry function
          tcb,          \* the thread control blocks at 0x801FD800
          slot,         \* the block the scheduler looks at next, or Outside
          displayEntry, \* g_display_entry
          started,      \* history: the entry function the display fiber runs
          restart,      \* s_display_needs_restart
          displayReady, \* g_display_ready
          flipping,     \* g_frame_flip_running
          flips         \* history: flips the display did since its last yield

cpuVars == <<cur, wait, regs, bank, mine>>
displayVars == <<displayEntry, started, restart, displayReady>>
frameVars == <<flipping, flips>>
vars == <<game, cpuVars, tcb, slot, displayVars, frameVars>>

\* Mutant: the scheduler writes 0x1D4 after it has stepped on.
CurrentLate == IF slot = Outside THEN 0 ELSE slot

\* Scratchpad 0x1D4: the block of the last dispatch.
Current == IF slot = 0 THEN 0 ELSE slot - 1
----------------------------------------------------------------------------
\* psx_runtime_init, and the game's boot code up to its first scheduler call.
Init == /\ game \in Games
        /\ cur = "main"
        /\ wait = [f \in Fibers |-> IF f = "main" THEN "running" ELSE "absent"]
        /\ regs \in Values
        /\ bank = [f \in Fibers |-> Zero]
        /\ mine = [f \in Fibers |-> Zero]
        /\ tcb = [i \in Slots |-> IF i = 0
                    THEN [st |-> "open", handle |-> "bad", entry |-> "boot"]
                    ELSE [st |-> "none", handle |-> "bad", entry |-> "unknown"]]
        /\ slot = Outside
        /\ displayEntry = "boot" /\ started = "boot"
        /\ restart = FALSE /\ displayReady = FALSE
        /\ flipping = FALSE /\ flips = 0

\* Mutant: ChangeThread returns without taking the registers from its bank.
SwitchUnrestored(f, w, b, how, loaded) ==
  /\ cur' = f
  /\ wait' = [w EXCEPT ![cur] = how, ![f] = "running"]
  /\ bank' = b
  /\ mine' = [mine EXCEPT ![cur] = regs, ![f] = IF w[f] = "entry" THEN Zero ELSE @]
  /\ IF w[f] = "entry" THEN regs' \in Values ELSE regs' = loaded

\* SwitchToFiber(f) out of a call of the current fiber, whose registers have
\* gone to the bank `to'; `loaded' is what the caller left in the CPUState.
Switch(f, w, b, how, loaded) ==
  /\ cur' = f
  /\ wait' = [w EXCEPT ![cur] = how, ![f] = "running"]
  /\ bank' = b
  /\ mine' = [mine EXCEPT ![cur] = regs, ![f] = IF w[f] = "entry" THEN Zero ELSE @]
  /\ CASE w[f] = "entry" -> regs' \in Values
       [] w[f] = "call"  -> regs' = b[f]
       [] OTHER          -> regs' = loaded

\* Mutants: the restart flag is not looked at; main's registers are not saved.
ToDisplayNoRestart(w, b) ==
  LET fresh == w["display"] = "absent"
      saved == [b EXCEPT !["main"] = regs]
  IN  /\ Switch("display", IF fresh THEN [w EXCEPT !["display"] = "entry"] ELSE w,
                saved, "call", b["display"])
      /\ started' = IF fresh \/ w["display"] = "entry" THEN displayEntry' ELSE started
      /\ restart' = (restart /\ w["display"] = "absent")
      /\ displayReady' = FALSE

ToDisplayUnsaved(w, b) ==
  LET fresh == w["display"] = "absent" \/ restart
  IN  /\ Switch("display", IF fresh THEN [w EXCEPT !["display"] = "entry"] ELSE w,
                b, "call", b["display"])
      /\ started' = IF fresh \/ w["display"] = "entry" THEN displayEntry' ELSE started
      /\ restart' = (restart /\ w["display"] = "absent")
      /\ displayReady' = FALSE

\* ChangeThread(2): the caller's registers go to main's bank.  A display fiber
\* that has to be restarted, or does not exist, is created; a suspended one
\* gets its registers.
ToDisplay(w, b) ==
  LET fresh == w["display"] = "absent" \/ restart
      saved == [b EXCEPT !["main"] = regs]
  IN  /\ Switch("display", IF fresh THEN [w EXCEPT !["display"] = "entry"] ELSE w,
                saved, "call", b["display"])
      /\ started' = IF fresh \/ w["display"] = "entry" THEN displayEntry' ELSE started
      /\ restart' = (restart /\ w["display"] = "absent")
      /\ displayReady' = FALSE

\* ChangeThread(3) and ChangeThread(4), for a fiber that exists.
ToWorker(f, w, b) ==
  /\ Switch(f, w, [b EXCEPT ![IF cur = "display" THEN "display" ELSE "main"] = regs],
            "call", b[f])
  /\ UNCHANGED <<started, restart, displayReady>>

\* ChangeThread with a handle no fiber stands behind, or that means nothing.
ToNobody(w, b) ==
  /\ wait' = w /\ bank' = b
  /\ UNCHANGED <<cur, regs, mine, started, restart, displayReady>>

ChangeThread(h, w, b) ==
  \/ h = "display" /\ ToDisplay(w, b)
  \/ h \in {"loading", "secondary"} /\ w[h] # "absent" /\ ToWorker(h, w, b)
  \/ h \in {"loading", "secondary"} /\ w[h] = "absent" /\ ToNobody(w, b)
  \/ h = "bad" /\ ToNobody(w, b)

\* OpenThread: the fiber it creates anew, if any, and the handle it returns.
\* From main, what is neither the boot display nor the loader is a display.
Opened(e) ==
  CASE e = "boot" -> "bad"
    [] e = "load" -> "loading"
    [] e \in {"game", "sub", "unknown"} /\ cur \in {"display", "loading"} -> "secondary"
    [] OTHER -> "display"
OpenHandle(e) == IF e = "boot" THEN "display" ELSE Opened(e)
OpenWait(e) == IF e = "boot" THEN wait ELSE [wait EXCEPT ![Opened(e)] = "entry"]
OpenBank(e) == IF e = "boot" THEN bank ELSE [bank EXCEPT ![Opened(e)] = Zero]
----------------------------------------------------------------------------
\* The main fiber: its loop, and the scheduler.

Scheduling == cur = "main" /\ slot \in Slots

EnterScheduler ==
  /\ cur = "main" /\ slot = Outside
  /\ slot' = 0
  /\ flipping' = FALSE
  /\ UNCHANGED <<cpuVars, tcb, displayVars, flips>>

\* Mutant: the loop ends with the first thread it runs.
DispatchReadyOnce ==
  /\ Scheduling /\ tcb[slot].st = "ready"
  /\ tcb' = [tcb EXCEPT ![slot].st = "running"]
  /\ slot' = Outside
  /\ displayEntry' = displayEntry
  /\ ChangeThread(tcb[slot].handle, wait, bank)
  /\ UNCHANGED frameVars

DispatchReady ==
  /\ Scheduling /\ tcb[slot].st = "ready"
  /\ tcb' = [tcb EXCEPT ![slot].st = "running"]
  /\ slot' = slot + 1
  /\ displayEntry' = displayEntry
  /\ ChangeThread(tcb[slot].handle, wait, bank)
  /\ UNCHANGED frameVars

DispatchOpen ==
  /\ Scheduling /\ tcb[slot].st = "open"
  /\ LET e == tcb[slot].entry IN
       /\ tcb' = [tcb EXCEPT ![slot].st = "running", ![slot].handle = OpenHandle(e)]
       /\ displayEntry' = IF Opened(e) = "display" THEN e ELSE displayEntry
       /\ ChangeThread(OpenHandle(e), OpenWait(e), OpenBank(e))
  /\ slot' = slot + 1
  /\ UNCHANGED frameVars

SkipSlot ==
  /\ Scheduling /\ tcb[slot].st \notin {"ready", "open"}
  /\ slot' = slot + 1
  /\ UNCHANGED <<cpuVars, tcb, displayVars, frameVars>>

\* VSync and the draw wait present a frame under the guard of the frame flip,
\* whichever fiber calls them, and leave the guard set.
VSync ==
  /\ flipping' = TRUE
  /\ UNCHANGED <<cpuVars, tcb, slot, displayVars, flips>>

\* External: FUN_800172c4 from the main loop.  The display starts at the boot
\* entry and switches to the other for good (runtime.c:750): main opens only that
\* one again.  OpenThread would not start the boot entry a second time (2112).
MainReopensDisplay ==
  /\ cur = "main" /\ slot = Outside
  /\ tcb' = [tcb EXCEPT ![0].st = "open", ![0].entry = "game"]
  /\ UNCHANGED <<cpuVars, slot, displayVars, frameVars>>

\* External: the main loop's GPU data over TCB[0] (runtime.c:753).
MainClobbersTcb ==
  /\ game = "direct"
  /\ cur = "main" /\ slot = Outside
  /\ \E st \in TcbStates, e \in {tcb[0].entry, "unknown"} :
       tcb' = [tcb EXCEPT ![0] = [st |-> st, handle |-> "bad", entry |-> e]]
  /\ UNCHANGED <<cpuVars, slot, displayVars, frameVars>>
----------------------------------------------------------------------------
\* Any fiber computes.
Compute ==
  /\ regs' \in Values
  /\ UNCHANGED <<cur, wait, bank, mine, tcb, slot, displayVars, frameVars>>

\* Mutant: a thread that yielded is not made ready.
ScannedRunningOnly(t, i) ==
  IF t.st = "open" /\ i = 0 THEN [t EXCEPT !.st = "ready", !.handle = "display"]
  ELSE IF t.st = "running" THEN [t EXCEPT !.st = "ready"]
  ELSE t

\* The yield in place of the VBlank handler: what it makes of one block.
Scanned(t, i) ==
  IF t.st = "open" /\ i = 0 THEN [t EXCEPT !.st = "ready", !.handle = "display"]
  ELSE IF t.st \in {"yielded", "running"} THEN [t EXCEPT !.st = "ready"]
  ELSE t
Repaired(t) ==
  IF t.st # "ready" THEN t
  ELSE IF Owner(t.entry) # "bad" THEN [t EXCEPT !.handle = Owner(t.entry)]
  ELSE IF t.handle = "bad" THEN [t EXCEPT !.st = "none"]
  ELSE t

\* ChangeThread(0xff000000) by a worker, with the table as the game left it.
\* A display fiber that is about to be restarted presents nothing.
YieldWith(table) ==
  /\ tcb' = [i \in Slots |-> Repaired(Scanned(table[i], i))]
  /\ LET replaced == table[0].st = "open" IN
       /\ displayEntry' = IF replaced THEN table[0].entry ELSE displayEntry
       /\ restart' = (restart \/ replaced)
  /\ Switch("main", wait, [bank EXCEPT ![cur] = regs], "yield", regs)
  /\ IF cur = "display"
     THEN flipping' = FALSE /\ flips' = 0 /\ displayReady' = TRUE
     ELSE UNCHANGED <<flipping, flips, displayReady>>
  /\ UNCHANGED <<slot, started>>

\* External: FUN_800171d4 yields, FUN_80017208 ends the current thread,
\* FUN_800172c4 gives the display thread a new entry function.
Yield == cur \in Workers /\ YieldWith([tcb EXCEPT ![Current].st = "yielded"])

Finish == /\ cur \in {"loading", "secondary"}
          /\ YieldWith([tcb EXCEPT ![Current].st = "none"])

DisplayReplacesItself ==
  /\ cur = "display"
  /\ \E e \in DisplayEntries :
       YieldWith([tcb EXCEPT ![0].st = "open", ![0].entry = e])

\* External: FUN_80017154 opens a worker and marks its block ready.
StartWorker(e, i) ==
  /\ cur = "display" /\ tcb[i].st = "none"
  /\ wait' = OpenWait(e) /\ bank' = OpenBank(e)
  /\ tcb' = [tcb EXCEPT ![i] = [st |-> "ready", handle |-> OpenHandle(e), entry |-> e]]
  /\ UNCHANGED <<cur, regs, mine, slot, displayVars, frameVars>>

\* FUN_80016940 by the display fiber: the second call of a frame is blocked.
FrameFlip ==
  /\ cur = "display" /\ ~flipping
  /\ flipping' = TRUE
  /\ flips' = IF flips = 0 THEN 1 ELSE 2   \* more than two is two
  /\ UNCHANGED <<cpuVars, tcb, slot, displayVars>>

\* The display fiber switches to a worker without the scheduler.
DisplaySwitches ==
  /\ game = "direct" /\ cur = "display"
  /\ \E f \in {"loading", "secondary"} : wait[f] # "absent" /\ ToWorker(f, wait, bank)
  /\ UNCHANGED <<tcb, slot, displayEntry, frameVars>>

MainStep == /\ EnterScheduler \/ DispatchReady \/ DispatchOpen \/ SkipSlot
            /\ UNCHANGED game
WorkerStep == (Yield \/ Finish) /\ UNCHANGED game
OtherStep == /\ \/ VSync \/ MainReopensDisplay \/ MainClobbersTcb
                \/ Compute \/ DisplayReplacesItself
                \/ StartWorker("load", 2) \/ StartWorker("sub", 1)
                \/ FrameFlip \/ DisplaySwitches
             /\ UNCHANGED game

Next == MainStep \/ WorkerStep \/ OtherStep

Spec == Init /\ [][Next]_vars
\* The main loop keeps calling the scheduler, and every thread function keeps
\* yielding: without that the PS1 original would hang as well.
FairSpec == Spec /\ WF_vars(MainStep) /\ WF_vars(WorkerStep)
----------------------------------------------------------------------------
\* The variables keep their types.
TypeOK == /\ game \in Games
          /\ cur \in Fibers
          /\ wait \in [Fibers -> Waits]
          /\ regs \in Contents
          /\ bank \in [Fibers -> Contents]
          /\ mine \in [Fibers -> Contents]
          /\ tcb \in [Slots -> Tcb]
          /\ slot \in Slots \cup {Outside}
          /\ displayEntry \in Entries /\ started \in Entries
          /\ restart \in BOOLEAN /\ displayReady \in BOOLEAN
          /\ flipping \in BOOLEAN /\ flips \in 0..2

\* The banks hold what the suspended fibers gave up, and one fiber runs.
BanksHold ==
  /\ \A f \in Fibers : wait[f] = "running" <=> f = cur
  /\ \A f \in Fibers : wait[f] \in {"yield", "call"} => bank[f] = mine[f]
  /\ wait["main"] \in {"running", "call"}

\* Inductive.
Inv == TypeOK /\ BanksHold

\* A fiber that is switched back to finds the registers it left, whatever ran,
\* was restarted or was opened in between.
RegistersComeBack ==
  [][cur' # cur => mine'[cur'] \in {Zero, regs'}]_vars

\* runtime.c:5761: scratchpad 0x1D4 names the block of the thread that runs,
\* so that a thread that ends itself clears its own block.
CurrentBlockIsMine ==
  game = "scheduled" /\ cur \in Workers => Owner(tcb[Current].entry) = cur

\* The display fiber runs the entry function its block names, through restarts
\* by itself, by the scheduler and by the main loop.
DisplayRunsItsEntry ==
  game = "scheduled" /\ cur = "display" => started = tcb[0].entry

\* runtime.c:766: between two yields of the display fiber the frame flip runs
\* at most once: nothing that clears the guard (the scheduler, a display yield)
\* happens in the middle of a frame, and the guard is set once it has run.
OneFlipPerFrame ==
  game = "scheduled" => flips <= 1 /\ (cur = "display" /\ flips = 1 => flipping)

\* What the display fiber runs, and how often.
DisplayOK == DisplayRunsItsEntry /\ OneFlipPerFrame

\* The display fiber runs again and again: no yield, restart or frame leaves its
\* block in a state or with a handle the scheduler does not dispatch.
DisplayRunsAgain == game = "scheduled" => []<>(cur = "display")
\* A worker whose block is ready is switched to, whatever else is dispatched.
ReadyWorkerRuns ==
  game = "scheduled" => \A i \in {1, 2} : tcb[i].st = "ready" ~> cur = Owner(tcb[i].entry)
=============================================================================
