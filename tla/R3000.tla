------------------------------- MODULE R3000 --------------------------------
(***************************************************************************)
(* The processor the game was written for: a program counter, registers    *)
(* and memory.  A branch and the instruction in its delay slot are one     *)
(* step.  `kept` says that the program has kept to what the runner asks of *)
(* it so far; nothing is promised about a step after which it has not.     *)
(***************************************************************************)
EXTENDS Mips

CONSTANT Bios  \* the address of the kernel's entry, which calls go through

VARIABLES code,  \* the program: address |-> instruction
          pc, m, kept

Init == m.r["zero"] = 0

Plain(i) == /\ ~IsControlFlow(i)
            /\ m' = Executed(i, m)
            /\ pc' = pc + 1

WithDelaySlot(i) == /\ IsControlFlow(i)
                    /\ m' = Executed(code[pc + 1], Linked(i, pc, m))
                    /\ pc' = NextPc(i, pc, m.r)

\* The kernel answers and goes back to the caller.
Kernel == /\ pc = Bios
          /\ m' = [m EXCEPT !.r["a"] = 1]
          /\ pc' = m.r["ra"]

Step == \/ Kernel
        \/ /\ pc \in DOMAIN code
           /\ Plain(code[pc]) \/ WithDelaySlot(code[pc])

Next == /\ code' = code
        /\ kept' => kept /\ Step

Spec == Init /\ [][Next]_<<code, pc, m, kept>>
=============================================================================
