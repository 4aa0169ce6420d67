-------------------------------- MODULE Mips --------------------------------
(***************************************************************************)
(* Registers, instructions and what one instruction means on the R3000,    *)
(* the reference both for the C the recompiler emits and for the           *)
(* interpreter of the runner.  Words have W bits and four bytes, immediate *)
(* fields half of that.  Instruction addresses count instructions, data    *)
(* addresses count bytes.  An instruction is [op, d, s, t, imm]:           *)
(* destination, sources, and the immediate field, shift amount or target.  *)
(***************************************************************************)
EXTENDS Integers, FiniteSetsExt

CONSTANT W  \* bits of a word (32)

ASSUME WidthAssumption == W \in Nat /\ \E n \in 2..W : W = 2^n

Word == 0..(2^W - 1)
Lanes == 0..(W - 1)
Wrap(x) == x % 2^W
Signed(x) == IF x < 2^(W - 1) THEN x ELSE x - 2^W
SignExtended(h) == IF h < 2^(W \div 2 - 1) THEN h ELSE h - 2^(W \div 2)

Bits(x) == {k \in Lanes : (x \div 2^k) % 2 = 1}
OfBits(S) == LET value[n \in 0..W] ==
                   IF n = 0 THEN 0 ELSE value[n - 1] + (IF n - 1 \in S THEN 2^(n - 1) ELSE 0)
             IN  value[W]
And(x, y) == OfBits(Bits(x) \cap Bits(y))
Or(x, y) == OfBits(Bits(x) \cup Bits(y))
Xor(x, y) == OfBits((Bits(x) \cup Bits(y)) \ (Bits(x) \cap Bits(y)))
Not(x) == 2^W - 1 - x
Flag(b) == IF b THEN 1 ELSE 0

\* Division of C and of the processor: towards zero.
Magnitude(x) == IF x < 0 THEN -x ELSE x
Quotient(x, y) == LET q == Magnitude(x) \div Magnitude(y) IN IF (x < 0) = (y < 0) THEN q ELSE -q
Remainder(x, y) == x - y * Quotient(x, y)
----------------------------------------------------------------------------
General == {"zero", "a", "b", "t", "s", "sp", "ra"}
Regs == General \cup {"hi", "lo"}
Machines == [r : [Regs -> Word], mem : [0..1 -> Word]]

Branches == {"beq", "bne", "blez", "bgtz", "bltz", "bgez", "bltzal", "bgezal"}
Jumps == {"j", "jal", "jr", "jalr"}
Linking == {"jal", "jalr", "bltzal", "bgezal"}
MulDiv == {"mult", "multu", "div", "divu"}
WithResult == {"addu", "subu", "and", "or", "xor", "nor", "slt", "sltu", "sllv", "srlv", "srav",
               "addiu", "slti", "sltiu", "andi", "ori", "xori", "sll", "srl", "sra", "lui",
               "mfhi", "mflo", "lw", "lwl", "lwr"}

\* Branches and jumps have their target in the field of the immediate.
IsInstruction(i) ==
  /\ i.op \in Branches \cup Jumps \cup MulDiv \cup WithResult \cup {"mthi", "mtlo", "sw"}
  /\ {i.d, i.s, i.t} \subseteq General
  /\ i.imm \in IF i.op \in Branches \cup Jumps THEN Word ELSE 0..(2^(W \div 2) - 1)
  /\ i.op \in {"sll", "srl", "sra"} => i.imm \in Lanes

IsControlFlow(i) == i.op \in Branches \cup Jumps
IsReturn(i) == i.op = "jr" /\ i.s = "ra"

\* Condition of a branch.
Taken(i, r) == CASE i.op = "beq" -> r[i.s] = r[i.t]
                 [] i.op = "bne" -> r[i.s] # r[i.t]
                 [] i.op = "blez" -> Signed(r[i.s]) <= 0
                 [] i.op = "bgtz" -> Signed(r[i.s]) > 0
                 [] i.op \in {"bltz", "bltzal"} -> Signed(r[i.s]) < 0
                 [] i.op \in {"bgez", "bgezal"} -> Signed(r[i.s]) >= 0

\* The word of memory an address lies in, and the byte of it.
WordOf(a) == (a \div 4) % 2
ByteOf(a) == a % 4
Address(i, r) == Wrap(r[i.s] + SignExtended(i.imm))
----------------------------------------------------------------------------
(* The processor, on m = [r |-> registers, mem |-> memory].                *)

Put(m, d, v) == IF d = "zero" THEN m ELSE [m EXCEPT !.r[d] = v]

\* HI and LO after a multiplication, or a division by something else than zero.
HiLo(op, x, y) ==
  LET p == IF op = "mult" THEN Signed(x) * Signed(y) ELSE x * y
  IN  CASE op \in {"mult", "multu"} -> [hi |-> Wrap(p \div 2^W), lo |-> Wrap(p)]
        [] op = "div" -> [hi |-> Wrap(Remainder(Signed(x), Signed(y))), lo |-> Wrap(Quotient(Signed(x), Signed(y)))]
        [] op = "divu" -> [hi |-> x % y, lo |-> x \div y]

\* LWL fills the register from the left with the bytes of the word up to the
\* address, LWR from the right with those from the address on; SWL and SWR are
\* their inverses.  The processor is little-endian.
LoadLeft(a, word, old) ==
  LET up == (3 - ByteOf(a)) * (W \div 4)
  IN  OfBits({k \in Bits(old) : k < up} \cup {k \in Lanes : k - up \in Bits(word)})
LoadRight(a, word, old) ==
  LET down == ByteOf(a) * (W \div 4)
  IN  OfBits({k \in Bits(old) : k >= W - down} \cup {k \in Lanes : k + down \in Bits(word)})

\* What an instruction that writes a register writes.
Result(i, m) ==
  LET x == m.r[i.s]
      y == m.r[i.t]
      word == m.mem[WordOf(Address(i, m.r))]
  IN  CASE i.op = "addu" -> Wrap(x + y)
        [] i.op = "subu" -> Wrap(x - y)
        [] i.op = "and" -> And(x, y)
        [] i.op = "or" -> Or(x, y)
        [] i.op = "xor" -> Xor(x, y)
        [] i.op = "nor" -> Not(Or(x, y))
        [] i.op = "slt" -> Flag(Signed(x) < Signed(y))
        [] i.op = "sltu" -> Flag(x < y)
        [] i.op = "sllv" -> Wrap(y * 2^(x % W))
        [] i.op = "srlv" -> y \div 2^(x % W)
        [] i.op = "srav" -> Wrap(Signed(y) \div 2^(x % W))
        [] i.op = "addiu" -> Wrap(x + SignExtended(i.imm))
        [] i.op = "slti" -> Flag(Signed(x) < SignExtended(i.imm))
        [] i.op = "sltiu" -> Flag(x < Wrap(SignExtended(i.imm)))
        [] i.op = "andi" -> And(x, i.imm)
        [] i.op = "ori" -> Or(x, i.imm)
        [] i.op = "xori" -> Xor(x, i.imm)
        [] i.op = "sll" -> Wrap(y * 2^i.imm)
        [] i.op = "srl" -> y \div 2^i.imm
        [] i.op = "sra" -> Wrap(Signed(y) \div 2^i.imm)
        [] i.op = "lui" -> i.imm * 2^(W \div 2)
        [] i.op = "mfhi" -> m.r["hi"]
        [] i.op = "mflo" -> m.r["lo"]
        [] i.op = "lw" -> word
        [] i.op = "lwl" -> LoadLeft(Address(i, m.r), word, m.r[i.d])
        [] i.op = "lwr" -> LoadRight(Address(i, m.r), word, m.r[i.d])

Executed(i, m) ==
  CASE i.op \in MulDiv -> LET hl == HiLo(i.op, m.r[i.s], m.r[i.t])
                          IN  [m EXCEPT !.r["hi"] = hl.hi, !.r["lo"] = hl.lo]
    [] i.op = "mthi" -> [m EXCEPT !.r["hi"] = m.r[i.s]]
    [] i.op = "mtlo" -> [m EXCEPT !.r["lo"] = m.r[i.s]]
    [] i.op = "sw" -> [m EXCEPT !.mem[WordOf(Address(i, m.r))] = m.r[i.t]]
    [] OTHER -> Put(m, i.d, Result(i, m))

\* The link register is written with the branch, whether it is taken or not.
Linked(i, at, m) == CASE i.op \in {"jal", "bltzal", "bgezal"} -> Put(m, "ra", at + 2)
                      [] i.op = "jalr" -> Put(m, i.d, at + 2)
                      [] OTHER -> m

\* Where the next instruction but one is taken from.
NextPc(i, at, r) == CASE i.op \in Branches -> IF Taken(i, r) THEN i.imm ELSE at + 2
                      [] i.op \in {"j", "jal"} -> i.imm
                      [] i.op \in {"jr", "jalr"} -> r[i.s]
=============================================================================
