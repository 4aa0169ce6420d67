----------------------------- MODULE Recompiler -----------------------------
(***************************************************************************)
(* What the recompiler makes of the executable in `code`: where functions  *)
(* start, their basic blocks, which instruction ends a block, and the C    *)
(* that stands for an instruction.  The executable is at 0..(ExeEnd-1);    *)
(* an overlay, which is only interpreted, comes behind it.                 *)
(***************************************************************************)
EXTENDS Mips

CONSTANTS ExeEnd,    \* end of the executable
          Forced,    \* forced entry points
          MaxSearch  \* instructions searched for a function's start (4096)

ASSUME ExeAssumption == ExeEnd \in Nat \ {0} /\ Forced \subseteq 0..(ExeEnd - 1)
ASSUME SearchAssumption == MaxSearch \in Nat

VARIABLE code  \* address |-> instruction

Exe == 0..(ExeEnd - 1)
----------------------------------------------------------------------------
(* function_analysis.cpp                                                   *)

\* addiu $sp, $sp, -N
IsPrologue(i) == i.op = "addiu" /\ i.d = "sp" /\ i.s = "sp" /\ SignExtended(i.imm) < 0

\* The nearest prologue before a return that is no delay slot, or the end of
\* the function before, or where the search gives up.
FunctionStart(ret) ==
  LET first == IF ret < MaxSearch THEN 0 ELSE ret - MaxSearch
      Starts(p) == IsPrologue(code[p]) /\ (p = 0 \/ ~IsControlFlow(code[p - 1]))
      stops == {p \in first..(ret - 1) : Starts(p) \/ IsReturn(code[p])}
      p == Max(stops)
  IN  IF stops = {} THEN first ELSE IF IsReturn(code[p]) THEN p + 2 ELSE p

FunctionStarts == {FunctionStart(ret) : ret \in {p \in Exe : IsReturn(code[p])}}
                  \cup ({code[p].imm : p \in {q \in Exe : code[q].op = "jal"}} \cap Exe)
                  \cup Forced
----------------------------------------------------------------------------
(* control_flow.cpp.  `starts` are the starts of all functions.            *)

End(starts, fn) == Min({s \in starts : s > fn} \cup {ExeEnd})
Body(starts, fn) == fn..(End(starts, fn) - 1)
HasPrologue(fn) == IsPrologue(code[fn])

\* Where an instruction that names its target goes.
Target(p) == IF code[p].op \in Branches \cup {"j", "jal"} THEN {code[p].imm} ELSE {}

\* Mutant: only targets start blocks.
BoundariesTargets(starts, fn) ==
  {fn} \cup (Body(starts, fn) \cap UNION {Target(p) : p \in {q \in Body(starts, fn) : IsControlFlow(code[q])}})
Boundaries(starts, fn) ==
  {fn} \cup (Body(starts, fn) \cap
              UNION {Target(p) \cup {p + 2} : p \in {q \in Body(starts, fn) : IsControlFlow(code[q])}})

LastOf(starts, fn, b) == Min({s \in Boundaries(starts, fn) \cup {End(starts, fn)} : s > b}) - 1

\* The instruction that ends the block at b: its last one, or the one before
\* when the last one is a delay slot.
NoExit == -1
\* Mutant: the instruction before may be another block's.
ExitBefore(starts, fn, b) ==
  LET last == LastOf(starts, fn, b)
  IN  CASE IsControlFlow(code[last]) -> last
        [] ~IsControlFlow(code[last]) /\ last > fn /\ IsControlFlow(code[last - 1]) -> last - 1
        [] OTHER -> NoExit
Exit(starts, fn, b) ==
  LET last == LastOf(starts, fn, b)
  IN  CASE IsControlFlow(code[last]) -> last
        [] ~IsControlFlow(code[last]) /\ last > b /\ IsControlFlow(code[last - 1]) -> last - 1
        [] OTHER -> NoExit

BlockOf(starts, fn, p) == Max({b \in Boundaries(starts, fn) : b <= p})
EndsItsBlock(starts, fn, p) == Exit(starts, fn, BlockOf(starts, fn, p)) = p

Successors(starts, fn, b) ==
  LET x == Exit(starts, fn, b)
  IN  Boundaries(starts, fn) \cap
        CASE x = NoExit -> {LastOf(starts, fn, b) + 1}
          [] x # NoExit /\ code[x].op \in Branches -> {code[x].imm, x + 2}
          [] x # NoExit /\ code[x].op = "j" -> {code[x].imm}
          [] x # NoExit /\ code[x].op \in {"jal", "jalr"} -> {x + 2}
          [] x # NoExit /\ code[x].op = "jr" -> {}
----------------------------------------------------------------------------
(* code_generator.cpp                                                      *)

\* Whether a call of the next function follows the last block.
FallsThrough(starts, fn) ==
  LET last == Max(Boundaries(starts, fn))
      x == Exit(starts, fn, last)
  IN  /\ End(starts, fn) \in starts
      /\ x # NoExit => code[x].op \in Branches \cup {"j"} /\ Successors(starts, fn, last) = {}
      /\ last = fn \/ \E b \in Boundaries(starts, fn) : last \in Successors(starts, fn, b)

\* psx_lwl and psx_lwr of the emitted file, do_lwl and do_lwr of the runner.
MaskedLeft(a, word, old) ==
  OfBits({k \in Bits(old) : k < ByteOf(a) * (W \div 4)} \cup {k \in Bits(word) : k >= ByteOf(a) * (W \div 4)})
MaskedRight(a, word, old) ==
  LET low == (ByteOf(a) + 1) * (W \div 4)
  IN  OfBits({k \in Bits(old) : k >= low} \cup {k \in Bits(word) : k < low})

\* The C expression an instruction that writes a register is translated to,
\* its operands and its casts: the recompiler's, and the interpreter's.
CResult(i, m) ==
  LET x == m.r[i.s]
      y == m.r[i.t]
      amount == And(x, W - 1)
      a == Wrap(x + SignExtended(i.imm))
  IN  CASE i.op = "addu" -> Wrap(x + y)
        [] i.op = "subu" -> Wrap(x - y)
        [] i.op = "and" -> And(x, y)
        [] i.op = "or" -> Or(x, y)
        [] i.op = "xor" -> Xor(x, y)
        [] i.op = "nor" -> Not(Or(x, y))
        [] i.op = "slt" -> Flag(Signed(x) < Signed(y))
        [] i.op = "sltu" -> Flag(x < y)
        [] i.op = "sllv" -> Wrap(y * 2^amount)
        [] i.op = "srlv" -> y \div 2^amount
        [] i.op = "srav" -> Wrap(Signed(y) \div 2^amount)
        [] i.op = "addiu" -> Wrap(x + SignExtended(i.imm))
        [] i.op = "slti" -> Flag(Signed(x) < SignExtended(i.imm))
        [] i.op = "sltiu" -> Flag(x < Wrap(SignExtended(i.imm)))
        [] i.op = "andi" -> And(x, i.imm)
        [] i.op = "ori" -> Or(x, i.imm)
        [] i.op = "xori" -> Xor(x, i.imm)
        [] i.op = "sll" -> Wrap(y * 2^i.imm)
        [] i.op = "srl" -> y \div 2^i.imm
        [] i.op = "sra" -> Wrap(Signed(y) \div 2^i.imm)
        [] i.op = "lui" -> Wrap(i.imm * 2^(W \div 2))
        [] i.op = "mfhi" -> m.r["hi"]
        [] i.op = "mflo" -> m.r["lo"]
        [] i.op = "lw" -> m.mem[WordOf(a)]
        [] i.op = "lwl" -> MaskedLeft(a, m.mem[WordOf(a)], m.r[i.d])
        [] i.op = "lwr" -> MaskedRight(a, m.mem[WordOf(a)], m.r[i.d])

\* `result' of a multiplication in 64 bits, and its halves.
Product(op, x, y) == IF op = "mult" THEN Signed(x) * Signed(y) ELSE x * y
Multiplied(i, m) == LET p == Product(i.op, m.r[i.s], m.r[i.t])
                    IN  [m EXCEPT !.r["lo"] = Wrap(p), !.r["hi"] = Wrap(p \div 2^W)]
Divided(i, m) == LET Int32(x) == IF i.op = "div" THEN Signed(x) ELSE x
                     x == Int32(m.r[i.s])
                     y == Int32(m.r[i.t])
                 IN  [m EXCEPT !.r["lo"] = Wrap(Quotient(x, y)), !.r["hi"] = Wrap(Remainder(x, y))]

\* Instructions without a register for their result.
Elsewhere(i, m) == CASE i.op \in {"mult", "multu"} -> Multiplied(i, m)
                     [] i.op \in {"div", "divu"} -> Divided(i, m)
                     [] i.op = "mthi" -> [m EXCEPT !.r["hi"] = m.r[i.s]]
                     [] i.op = "mtlo" -> [m EXCEPT !.r["lo"] = m.r[i.s]]
                     [] i.op = "sw" -> [m EXCEPT !.mem[WordOf(Wrap(m.r[i.s] + SignExtended(i.imm)))] = m.r[i.t]]
HasResult(i) == i.op \notin MulDiv \cup {"mthi", "mtlo", "sw"}

\* A division by zero is given an answer.  A write to $zero is left out except
\* that of a constant, which comes before that test.
ZeroDivided(i, m) ==
  [m EXCEPT !.r["lo"] = IF i.op = "divu" \/ Signed(m.r[i.s]) >= 0 THEN 2^W - 1 ELSE 1, !.r["hi"] = m.r[i.s]]
Emitted(i, m) ==
  CASE i.op \in {"div", "divu"} /\ m.r[i.t] = 0 -> ZeroDivided(i, m)
    [] i.op = "addiu" /\ i.s = "zero" -> [m EXCEPT !.r[i.d] = Wrap(SignExtended(i.imm))]
    [] ~(i.op = "addiu" /\ i.s = "zero") /\ HasResult(i) -> IF i.d = "zero" THEN m ELSE [m EXCEPT !.r[i.d] = CResult(i, m)]
    [] ~HasResult(i) /\ ~(i.op \in {"div", "divu"} /\ m.r[i.t] = 0) -> Elsewhere(i, m)
=============================================================================
