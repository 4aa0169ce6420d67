------------------------------- MODULE Runner -------------------------------
(***************************************************************************)
(* The runner executing a recompiled program: C functions where the        *)
(* recompiler found a function, the interpreter for overlays and for       *)
(* addresses it did not find, and call_by_address between them.  The C     *)
(* stack is the sequence `stack`, top last; a frame's `at` is the          *)
(* instruction it is at or comes back to.  A compiled frame whose `at`     *)
(* lies outside its function is about to call what is there, and return.   *)
(* `kept` is FALSE once the program has left the conventions the runner    *)
(* relies on.                                                              *)
(***************************************************************************)
EXTENDS Recompiler, SequencesExt

CONSTANTS Overlay,   \* addresses of the overlay, behind the executable
          Bios,      \* 0xA0, 0xB0 and 0xC0
          Halt,      \* where the first function returns to
          Kuseg,     \* other addresses of the same memory |-> its address in KSEG0
          Games,     \* programs, with the registers and the memory they start with
          MaxGuard,  \* instructions an activation of the interpreter runs (10000)
          MaxDepth   \* bound of the C stack

Loaded == Exe \cup Overlay

\* The entry point, which nothing calls, is a forced one.
ASSUME EntryAssumption == 0 \in Forced
ASSUME AddressAssumption == /\ 0..(ExeEnd + 1) \cup Overlay \cup {Bios, Halt} \subseteq Word
                            /\ Bios \notin 0..(ExeEnd + 1) \cup Overlay \cup {Halt}
ASSUME KusegAssumption == /\ DOMAIN Kuseg \cap (Loaded \cup {Bios, Halt}) = {}
                          /\ \A a \in DOMAIN Kuseg : Kuseg[a] \in Loaded
ASSUME GuardAssumption == MaxGuard \in Nat
ASSUME GamesAssumption ==
  \A g \in Games :
    /\ DOMAIN g.code = Loaded
    /\ \A a \in Loaded : IsInstruction(g.code[a])
    /\ g.m \in Machines /\ g.m.r["zero"] = 0

VARIABLES dispatch,  \* starts of the compiled functions
          m, stack,
          owed,      \* return addresses of the calls the program has not returned from
          kept

vars == <<code, dispatch, m, stack, owed, kept>>

Compiled(fn) == [kind |-> "compiled", fn |-> fn, at |-> fn, sink |-> 0, guard |-> 0]
Interpreted(a) == [kind |-> "interpreted", fn |-> a, at |-> a, sink |-> 0, guard |-> 0]
Kernel == [kind |-> "kernel", fn |-> Bios, at |-> Bios, sink |-> 0, guard |-> 0]

\* call_by_address: compiled functions first, then the kernel, then the
\* interpreter.  Anything else is skipped.
Kseg0(a) == IF a \in DOMAIN Kuseg THEN Kuseg[a] ELSE a
Callable(a) == Kseg0(a) \in Loaded \cup {Bios}
Entered(a) == CASE Kseg0(a) \in dispatch -> Compiled(Kseg0(a))
                [] Kseg0(a) \notin dispatch /\ a = Bios -> Kernel
                [] Kseg0(a) \notin dispatch /\ a # Bios -> Interpreted(Kseg0(a))

Init == /\ \E g \in Games : code = g.code /\ m = g.m
        /\ dispatch = FunctionStarts
        /\ stack = <<Compiled(0)>>
        /\ owed = <<Halt>>
        /\ kept = TRUE

Top == Last(stack)
Resume(f) == Append(Front(stack), f)
CallFrom(f, a) == IF Callable(a) THEN Append(Resume(f), Entered(a)) ELSE Resume(f)
TailCall(a) == IF Callable(a) THEN Resume(Entered(a)) ELSE Front(stack)

\* The address execution is at: a frame that only has to leave has none.
At(frames) == LET live == {n \in DOMAIN frames : frames[n].kind # "leaving"}
              IN  IF live = {} THEN Halt ELSE frames[Max(live)].at

\* What the runner relies on: no branch in a delay slot; a delay slot, and
\* the link, leave alone the register a jump goes through; a delay slot does
\* not use the link; nothing divides by zero, and the least number not by -1,
\* which C leaves undefined; code is named by its address in KSEG0, for a link
\* would name it so.
Named(a) == a \in Loaded \cup {Bios}
Link(i) == CASE i.op \in {"jal", "bltzal", "bgezal"} -> "ra" [] i.op = "jalr" -> i.d
Divides(i) == /\ i.op \in {"div", "divu"} => m.r[i.t] # 0
              /\ i.op = "div" => m.r[i.s] # 2^(W - 1) \/ m.r[i.t] # 2^W - 1
Conventional(i, slot) == /\ ~IsControlFlow(slot)
                         /\ i.op \in {"jr", "jalr"} => slot.d # i.s
                         /\ i.op \in Linking => Link(i) \notin {i.s, slot.d, slot.s, slot.t, "zero"}
                         /\ Divides(slot)
NoZero == m'.r["zero"] = 0 /\ \A n \in DOMAIN stack' : stack'[n].sink = 0

\* A return goes to the last call that is still owed one.
Owing(a) == owed' = Append(owed, a)
Returning == owed' = IF owed = <<>> THEN owed ELSE Front(owed)
ReturnsHome == owed # <<>> /\ m.r["ra"] = Last(owed)

Stays == UNCHANGED <<code, dispatch>>
----------------------------------------------------------------------------
(* Compiled functions.                                                     *)

Doing(kind) == stack # <<>> /\ Top.kind = kind
InFunction == Doing("compiled") /\ Top.at \in Body(dispatch, Top.fn)

Statement ==
  /\ InFunction
  /\ LET p == Top.at
         ends == p + 1 = End(dispatch, Top.fn)
     IN  /\ ~IsControlFlow(code[p])
         /\ m' = Emitted(code[p], m)
         /\ IF ends => FallsThrough(dispatch, Top.fn)
            THEN stack' = Resume([Top EXCEPT !.at = p + 1])
            ELSE stack' = Front(stack)
         /\ kept' = (kept /\ Divides(code[p]) /\ NoZero /\ p + 1 # ExeEnd)
  /\ UNCHANGED <<code, dispatch, owed>>

\* A branch that does not end its block is not translated.
Dropped ==
  /\ InFunction
  /\ IsControlFlow(code[Top.at]) /\ ~EndsItsBlock(dispatch, Top.fn, Top.at)
  /\ stack' = Resume([Top EXCEPT !.at = @ + 1])
  /\ kept' = (kept /\ Conventional(code[Top.at], code[Top.at + 1]))
  /\ m' = m
  /\ UNCHANGED <<code, dispatch, owed>>

\* The delay slot is translated before the jump it belongs to, when the
\* executable has it.
DelaySlot(p) == IF p + 1 \in Exe THEN Emitted(code[p + 1], m) ELSE m
Jumping(ops) == /\ InFunction
                /\ code[Top.at].op \in ops /\ EndsItsBlock(dispatch, Top.fn, Top.at)
                /\ Stays
Keeping == /\ kept /\ Top.at + 1 \in Exe /\ Conventional(code[Top.at], code[Top.at + 1])
           /\ NoZero

\* The condition is saved before the delay slot, the link is set behind it.
\* A branch with a link that is taken is no call in C: the runner relies on
\* there being none.
CompiledBranch ==
  /\ Jumping(Branches)
  /\ LET p == Top.at
         i == code[p]
     IN  /\ m' = IF i.op \in Linking THEN [DelaySlot(p) EXCEPT !.r["ra"] = p + 2] ELSE DelaySlot(p)
         /\ stack' = Resume([Top EXCEPT !.at = IF Taken(i, m.r) THEN i.imm ELSE p + 2])
         /\ kept' = (Keeping /\ ~(i.op \in Linking /\ Taken(i, m.r)))
  /\ owed' = owed

CompiledJump ==
  /\ Jumping({"j"})
  /\ m' = DelaySlot(Top.at)
  /\ stack' = Resume([Top EXCEPT !.at = code[Top.at].imm])
  /\ kept' = Keeping
  /\ owed' = owed

CompiledReturn ==
  /\ Jumping({"jr"}) /\ IsReturn(code[Top.at])
  /\ m' = DelaySlot(Top.at)
  /\ stack' = Front(stack)
  /\ kept' = (Keeping /\ ReturnsHome)
  /\ Returning

CompiledCall ==
  /\ Jumping({"jal"})
  /\ Len(stack) < MaxDepth
  /\ m' = [DelaySlot(Top.at) EXCEPT !.r["ra"] = Top.at + 2]
  /\ stack' = CallFrom([Top EXCEPT !.at = @ + 2], code[Top.at].imm)
  /\ kept' = (Keeping /\ Named(code[Top.at].imm))
  /\ Owing(Top.at + 2)

\* The register is read behind the delay slot and the link.
CompiledCallRegister ==
  /\ Jumping({"jalr"})
  /\ Len(stack) < MaxDepth
  /\ m' = [DelaySlot(Top.at) EXCEPT !.r[code[Top.at].d] = Top.at + 2]
  /\ LET a == m'.r[code[Top.at].s]
     IN  /\ stack' = CallFrom([Top EXCEPT !.at = @ + 2], a)
         /\ kept' = (Keeping /\ Named(a))
  /\ Owing(Top.at + 2)

\* A jump through a register that no jump table explains: a call, and in a
\* function that made a stack frame, the frame is taken down behind it.
CompiledJumpRegister ==
  /\ Jumping({"jr"}) /\ ~IsReturn(code[Top.at])
  /\ Len(stack) < MaxDepth
  /\ m' = DelaySlot(Top.at)
  /\ LET a == m'.r[code[Top.at].s]
     IN  /\ stack' = IF HasPrologue(Top.fn) THEN CallFrom([Top EXCEPT !.kind = "leaving"], a) ELSE TailCall(a)
         /\ kept' = (Keeping /\ Named(a) /\ ~HasPrologue(Top.fn))
  /\ owed' = owed

Leave ==
  /\ Doing("leaving")
  /\ m' = [m EXCEPT !.r["sp"] = Wrap(@ - SignExtended(code[Top.fn].imm))]
  /\ stack' = Front(stack)
  /\ kept' = kept
  /\ UNCHANGED <<code, dispatch, owed>>

\* What is outside the function is called: a piece the function was split
\* into, the next function, an address that is none.
ToOtherPiece ==
  /\ Doing("compiled") /\ ~InFunction
  /\ stack' = TailCall(Top.at)
  /\ kept' = (kept /\ Named(Top.at))
  /\ m' = m
  /\ UNCHANGED <<code, dispatch, owed>>

\* The kernel answers, and call_by_address returns.
KernelCall ==
  /\ Doing("kernel")
  /\ m' = [m EXCEPT !.r["a"] = 1]
  /\ stack' = Front(stack)
  /\ kept' = (kept /\ ReturnsHome)
  /\ Returning
  /\ Stays
----------------------------------------------------------------------------
(* mips_interpret.  R[0] is a variable of the activation that is written   *)
(* like any register; a division by zero changes nothing.                  *)

Run(i, s) ==
  LET n == [s.m EXCEPT !.r["zero"] = s.sink]
      after == CASE i.op \in {"div", "divu"} /\ n.r[i.t] = 0 -> n
                 [] HasResult(i) -> IF i.op \in {"lw", "lwl", "lwr"} /\ i.d = "zero" THEN n
                                    ELSE [n EXCEPT !.r[i.d] = CResult(i, n)]
                 [] ~HasResult(i) /\ ~(i.op \in {"div", "divu"} /\ n.r[i.t] = 0) -> Elsewhere(i, n)
  IN  [m |-> [after EXCEPT !.r["zero"] = 0], sink |-> after.r["zero"]]

Interpreting == /\ Doing("interpreted") /\ Top.guard < MaxGuard
                /\ Stays

Here == [m |-> m, sink |-> Top.sink]
Advanced(a, sink) == [Top EXCEPT !.at = a, !.sink = sink, !.guard = @ + 1]

InterpretPlain ==
  /\ Interpreting
  /\ LET i == code[Top.at]
         s == Run(i, Here)
     IN  /\ ~IsControlFlow(i)
         /\ m' = s.m
         /\ stack' = Resume(Advanced(Top.at + 1, s.sink))
         /\ kept' = (kept /\ Divides(i) /\ NoZero /\ Top.at + 1 \in Loaded)
  /\ owed' = owed

\* The link is written first, then the target is read, then the delay slot
\* runs: of a branch in it only the link counts.
LinkSet(i, at, s) == IF i.op \in Linking
                     THEN LET n == [s.m EXCEPT !.r["zero"] = s.sink, !.r[Link(i)] = at + 2]
                          IN  [m |-> [n EXCEPT !.r["zero"] = 0], sink |-> n.r["zero"]]
                     ELSE s
Written(i) == LinkSet(i, Top.at, Here)
Slot(i) == LET slot == code[Top.at + 1]
           IN  IF IsControlFlow(slot) THEN LinkSet(slot, Top.at + 1, Written(i)) ELSE Run(slot, Written(i))
GoesTo(i) == NextPc(i, Top.at, [Written(i).m.r EXCEPT !["zero"] = Written(i).sink])
\* A branch with a link is a call only when it is taken.
\* Mutant: it always is.
IsCallAlways(i) == i.op \in Linking
IsCall(i) == i.op \in Linking /\ (i.op \in Branches => GoesTo(i) # Top.at + 2)
\* The interpreter's own test takes no KUSEG address.
Plausible(a) == a \in Loaded \cup {Halt, Bios}
\* The program calls: a branch to what follows its delay slot only reads the
\* program counter.
ProgramCalls(i) == i.op \in Linking /\ (i.op \in Branches => Taken(i, m.r) /\ i.imm # Top.at + 2)

InterpretJump ==
  /\ Interpreting
  /\ IsControlFlow(code[Top.at])
  /\ Len(stack) < MaxDepth
  /\ LET i == code[Top.at]
         a == GoesTo(i)
         next == Advanced(Top.at + 2, Slot(i).sink)
     IN  /\ m' = Slot(i).m
         /\ IF ProgramCalls(i) THEN Owing(Top.at + 2) ELSE IF IsReturn(i) THEN Returning ELSE owed' = owed
         /\ \/ /\ ~Plausible(a)
               /\ stack' = IF IsCall(i) THEN Resume(next) ELSE Front(stack)
            \/ /\ Plausible(a) /\ IsReturn(i) /\ a # Bios
               /\ stack' = Front(stack)
            \/ /\ Plausible(a) /\ IsCall(i)
               /\ stack' = CallFrom(next, a)
            \/ /\ Plausible(a) /\ ~IsCall(i) /\ (IsReturn(i) => a = Bios)
               /\ stack' = IF a = Bios \/ (a # Top.at + 2 /\ a \in dispatch) THEN TailCall(a)
                           ELSE Resume([next EXCEPT !.at = a])
         /\ kept' = (/\ kept /\ Top.at + 1 \in Loaded /\ Conventional(i, code[Top.at + 1])
                     /\ NoZero /\ Plausible(a)
                     /\ IF IsReturn(i) THEN ReturnsHome ELSE Named(a)
                     /\ IsCall(i) => Top.at + 2 \in Loaded)

\* After 10000 instructions the interpreter returns.
GuardHit ==
  /\ Doing("interpreted") /\ Top.guard = MaxGuard
  /\ stack' = Front(stack)
  /\ kept' = FALSE
  /\ m' = m
  /\ UNCHANGED <<code, dispatch, owed>>

Halted == stack = <<>> /\ UNCHANGED vars

Next == \/ Statement \/ Dropped \/ CompiledBranch \/ CompiledJump \/ CompiledReturn
        \/ CompiledCall \/ CompiledCallRegister \/ CompiledJumpRegister \/ Leave
        \/ ToOtherPiece \/ KernelCall \/ InterpretPlain \/ InterpretJump \/ GuardHit
        \/ Halted

Spec == Init /\ [][Next]_vars
----------------------------------------------------------------------------
FrameOK(f) == /\ f.kind \in {"compiled", "interpreted", "kernel", "leaving"}
              /\ f.at \in Word /\ f.sink \in Word /\ f.guard \in 0..MaxGuard
              /\ f.kind \in {"compiled", "leaving"} => f.fn \in dispatch

\* Types: a C function on the stack is one that was generated.
TypeOK == /\ dispatch \subseteq 0..ExeEnd
          /\ kept \in BOOLEAN
          /\ kept => m \in Machines /\ \A n \in DOMAIN stack : FrameOK(stack[n])

\* A translated program computes what the processor would: every step of C,
\* of the interpreter and of the calls between them is one instruction, with
\* its delay slot, of the original (code_generator.cpp 806-1325, runtime.c
\* 1508-1832, 1886-1990), or goes from one frame to another in between.
Processor == INSTANCE R3000 WITH pc <- At(stack)
ComputesTheProgram == Processor!Spec

\* It does so for programs without unaligned loads.
Unaligned(i) == i.op \in {"lwl", "lwr"}
Aligned == \A g \in Games : \A a \in Loaded : ~Unaligned(g.code[a])

\* The C stack is the calls the program has not returned from, in order: no
\* split, tail call, detour through the interpreter or fall into the next
\* function loses a return or adds one (code_generator.cpp 940-1200, runtime.c
\* 1740-1820).
CallsComeBack ==
  kept /\ stack # <<>> => owed = <<Halt>> \o [n \in 1..(Len(stack) - 1) |-> stack[n].at]

\* Whatever branches into whatever, each branch of a function is the end of a
\* basic block, or nothing would be emitted for it (code_generator.cpp 862);
\* a delay slot that is itself a target does not become part of the branch.
BranchesTranslated ==
  \A fn \in dispatch : \A p \in Body(dispatch, fn) :
    IsControlFlow(code[p]) /\ p + 1 \in Exe /\ ~IsControlFlow(code[p + 1]) => EndsItsBlock(dispatch, fn, p)

\* What is generated: functions for what runs, and an exit for each branch.
TranslationOK == TypeOK /\ BranchesTranslated
=============================================================================
