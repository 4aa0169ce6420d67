------------------------------ MODULE MCRunner ------------------------------
EXTENDS Runner

\* The image again, from 128 on.
LowAddresses == [a \in 128..154 |-> a - 128]

Op(op, d, s, t, imm) == [op |-> op, d |-> d, s |-> s, t |-> t, imm |-> imm]
Nop == Op("sll", "zero", "zero", "zero", 0)
Move(d, s) == Op("addu", d, s, "zero", 0)
Add(d, s, n) == Op("addiu", d, s, "zero", n % 16)
Jr(s) == Op("jr", "zero", s, "zero", 0)
Jal(a) == Op("jal", "zero", "zero", "zero", a)
Jalr(s) == Op("jalr", "ra", s, "zero", 0)
Jump(a) == Op("j", "zero", "zero", "zero", a)
Branch(op, s, t, a) == Op(op, "zero", s, t, a)

Start(a, b, t) ==
  [r |-> [g \in Regs |-> CASE g = "a" -> a [] g = "b" -> b [] g = "t" -> t [] g = "sp" -> 100 [] g = "ra" -> 90 [] OTHER -> 0],
   mem |-> [k \in 0..1 |-> 27 + 201 * k]]

\* 0 a function that calls and branches; 9 one that returns early, so that
\* the recompiler splits it at 14; 19 a function of the overlay.
Skeleton == <<Move("s", "ra"), Nop, Nop, Nop, Nop, Add("b", "b", 1), Move("ra", "s"), Jr("ra"), Add("b", "b", -1),
              Add("sp", "sp", -4), Branch("bgez", "a", "zero", 14), Add("sp", "sp", 4), Jr("ra"), Add("b", "b", 2),
              Add("a", "a", 1), Branch("blez", "a", "zero", 14), Nop, Jr("ra"), Add("b", "b", 3),
              Move("t", "ra"), Nop, Add("a", "a", 1), Move("ra", "t"), Nop, Add("b", "b", 1), Jr("ra"), Nop>>
Image == [a \in 0..(Len(Skeleton) - 1) |-> Skeleton[a + 1]]

Game(patch, mach) == [code |-> patch @@ Image, m |-> mach]

\* Calls of everything there is, and overlay code that calls, reads its own
\* address with a branch and link, and jumps back.
Calls == {Game((1 :> c) @@ (2 :> d) @@ (20 :> o) @@ (23 :> tail), Start(v, 1, t)) :
            c \in {Jal(9), Jal(14), Jal(19), Jal(80), Jalr("t")}, d \in {Nop, Add("a", "a", -1)},
            o \in {Jal(9), Branch("bgezal", "a", "zero", 14), Branch("bgezal", "a", "zero", 22)},
            tail \in {Nop, Jump(14), Jump(12), Branch("bltz", "a", "zero", 9), Branch("bne", "a", "b", 24)},
            v \in {1, 254}, t \in {9, 13, 19, 80}}
\* Jumps through a register.
Indirect == {Game((3 :> Jr("t")) @@ (4 :> d), Start(v, 1, t)) :
               d \in {Nop, Add("a", "a", -1)}, v \in {1, 254}, t \in {5, 9, 13, 14, 19, 80}}
\* Branches of every kind to every kind of place.
Branching == {Game((3 :> Branch(op, "a", "b", dest)) @@ (4 :> d), Start(v[1], v[2], 0)) :
                op \in Branches \ {"bltzal", "bgezal"}, dest \in {1, 4, 5, 8, 9, 13, 14, 16, 19},
                d \in {Nop, Add("a", "a", 1), Move("a", "b")}, v \in {<<0, 0>>, <<255, 3>>, <<3, 255>>}}
\* Every operation on signed and unsigned extremes, compiled and interpreted.
ThreeRegister == {"addu", "subu", "and", "or", "xor", "nor", "slt", "sltu", "sllv", "srlv", "srav"}
Immediate == {"addiu", "slti", "sltiu", "andi", "ori", "xori", "lui", "sll", "srl", "sra"}
Operations == {Op(o, d, "a", t, 0) : o \in ThreeRegister, d \in {"b"}, t \in {"b", "zero"}}
              \cup {Op(o, "b", s, "a", n) : o \in Immediate \ {"addiu"}, s \in {"a", "zero"}, n \in {0, 3, 7}}
              \cup {Op(o, "b", s, "a", n) : o \in {"addiu", "slti", "sltiu", "andi"}, s \in {"a", "zero"}, n \in {1, 15}}
              \cup {Op(o, "zero", "a", "b", 0) : o \in MulDiv \cup {"mthi", "mtlo"}}
              \cup {Op(o, "b", "sp", "a", n) : o \in {"lw", "sw"}, n \in {0, 4, 12}}
Straight(i, second, mach) == Game((0 :> i) @@ (1 :> Jr("ra")) @@ (2 :> second), mach)
InOverlay(i, second, mach) == Game((0 :> Jump(19)) @@ (19 :> i) @@ (20 :> Jr("ra")) @@ (21 :> second), mach)
Values == {<<0, 1>>, <<5, 254>>, <<127, 128>>, <<128, 255>>, <<255, 7>>}
Arithmetic == UNION {{Straight(i, Op(h, "t", "zero", "zero", 0), Start(v[1], v[2], 0)),
                      InOverlay(i, Op(h, "t", "zero", "zero", 0), Start(v[1], v[2], 0))} :
                       i \in Operations, h \in {"mfhi", "mflo"}, v \in Values}

\* Programs that break a convention: a branch in a delay slot, a compiled
\* branch and link that is taken, calls of no address, a function without an
\* end, an interpreted loop that is too long, a division by zero, a jump
\* through a register in a function with a frame; and a stack frame made in a
\* delay slot.
Broken ==
  {Game(q, Start(1, 1, 70)) :
     q \in {(1 :> Branch("beq", "a", "b", 5)) @@ (2 :> Jump(7)),
            (0 :> Jump(19)) @@ (20 :> Jump(22)) @@ (21 :> Jal(9)),
            3 :> Branch("bgezal", "a", "zero", 14),
            1 :> Jal(70), 1 :> Jalr("t"), 0 :> Jump(70), (0 :> Jump(10)) @@ (10 :> Jr("t")),
            (0 :> Jump(19)) @@ (19 :> Nop) @@ (20 :> Jalr("t")), (0 :> Jump(19)) @@ (19 :> Nop) @@ (20 :> Jr("t")),
            (17 :> Nop) @@ (0 :> Jump(14)), (1 :> Jal(9)) @@ (12 :> Nop) @@ (17 :> Nop),
            (0 :> Jump(19)) @@ (20 :> Jump(20)),
            5 :> Op("div", "zero", "a", "zero", 0),
            (0 :> Jump(9)) @@ (10 :> Jr("t")),
            (1 :> Jal(9)) @@ (9 :> Nop) @@ (11 :> Add("sp", "sp", -4))}}
\* Calls of function 9 by its KUSEG address.
Low == {Game(q, Start(1, 1, 137)) :
          q \in {1 :> Jalr("t"), 3 :> Jr("t"), (0 :> Jump(19)) @@ (19 :> Nop) @@ (20 :> Jalr("t"))}}
AllGames == Calls \cup Indirect \cup Branching \cup Arithmetic \cup Broken \cup Low

\* Unaligned loads.
UnalignedGames == {Straight(Op("lwl", "b", "sp", "zero", 3 + n), Op("lwr", "b", "sp", "zero", n), Start(0, 170, 0)) : n \in 0..3}

ASSUME AlignedAssumption == Games = AllGames => Aligned
=============================================================================
