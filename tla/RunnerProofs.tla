--------------------------- MODULE RunnerProofs ----------------------------
(***************************************************************************)
(* For every program that keeps to the conventions, with functions, jumps  *)
(* and delay slots wherever they are: the C stack is the calls the program *)
(* has not returned from, no branch is lost in translation, and, as long   *)
(* as it has no unaligned loads, what is executed is what the processor    *)
(* would execute.                                                          *)
(***************************************************************************)
EXTENDS Runner, FiniteSetTheorems, SequenceTheorems, WellFoundedInduction, TLAPS

\* Execution comes to p from where the control flow graph says: the block of
\* p is the first one, or follows another, and p is not behind its exit.
Reached(fn, p) ==
  p \in Body(dispatch, fn) =>
    LET b == BlockOf(dispatch, fn, p)
    IN  /\ b = fn \/ \E c \in Boundaries(dispatch, fn) : b \in Successors(dispatch, fn, c)
        /\ p = b \/ Exit(dispatch, fn, b) # p - 1

\* A frame of a program that keeps to the conventions.
Addresses == Int \cup Loaded \cup {Bios}
Frame == [kind : {"compiled", "interpreted", "kernel"}, fn : Addresses, at : Addresses,
          sink : {0}, guard : Nat]
Good(f) == /\ f \in Frame
           /\ f.kind = "compiled" => f.fn \in dispatch /\ Reached(f.fn, f.at)
           /\ f.kind = "interpreted" => f.at \in Loaded
           /\ f.kind = "kernel" => f.at = Bios

\* Registers and memory, whatever they hold.
Machine(x) == DOMAIN x = {"r", "mem"} /\ DOMAIN x.r = Regs

\* The frames below the top are at the addresses their callees return to.
Owed == stack # <<>> =>
          /\ owed \in Seq(Addresses \cup {Halt}) /\ Len(owed) = Len(stack)
          /\ owed[1] = Halt
          /\ \A n \in 1..(Len(stack) - 1) : owed[n + 1] = stack[n].at

StackInv == /\ stack \in Seq(Frame)
            /\ \A n \in 1..Len(stack) : Good(stack[n])
            /\ \A n \in 1..(Len(stack) - 1) : stack[n].at # Bios
            /\ Owed

\* All that is loaded is instructions, and functions start at addresses.
Translated == /\ dispatch \subseteq 0..ExeEnd
              /\ DOMAIN code = Loaded
              /\ \A a \in Loaded : IsInstruction(code[a])

Kept == StackInv /\ Machine(m) /\ m.r["zero"] = 0

CallInv == Translated /\ kept \in BOOLEAN /\ (kept => Kept)
----------------------------------------------------------------------------
(* Least and greatest elements. *)

\* A set of natural numbers that is not empty has a least element.
LEMMA MinIs ==
  ASSUME NEW S \in SUBSET Nat, S # {}
  PROVE  Min(S) \in S /\ \A y \in S : Min(S) <= y
<1>. DEFINE T == {0..x : x \in S}
<1>1. T \subseteq FiniteSubsetsOf(Nat) /\ T # {}
  <2>1. \A x \in S : 0..x \in SUBSET Nat /\ IsFiniteSet(0..x)
    BY FS_Interval
  <2>. QED  BY <2>1 DEF FiniteSubsetsOf
<1>2. PICK t \in T : \A u \in T : <<u, t>> \notin StrictSubsetOrdering(Nat)
  <2>. HIDE DEF T
  <2>. QED  BY <1>1, FS_StrictSubsetOrderingWellFounded, WFMin
<1>3. PICK x \in S : t = 0..x
  OBVIOUS
<1>4. \A y \in S : x <= y
  <2>. SUFFICES ASSUME NEW y \in S, y < x PROVE FALSE
    OBVIOUS
  <2>1. 0..y \in T /\ 0..y \subseteq 0..x /\ 0..y # 0..x
    <3>1. x \in 0..x /\ x \notin 0..y
      OBVIOUS
    <3>. QED  BY <3>1
  <2>2. <<0..y, 0..x>> \in StrictSubsetOrdering(Nat)
    BY <2>1 DEF StrictSubsetOrdering
  <2>. QED  BY <1>2, <1>3, <2>1, <2>2
<1>. QED  BY <1>4 DEF Min

\* One with an upper bound has a greatest element.
LEMMA MaxIs ==
  ASSUME NEW S \in SUBSET Nat, S # {}, NEW c \in Nat, \A y \in S : y <= c
  PROVE  Max(S) \in S /\ \A y \in S : y <= Max(S)
<1>. DEFINE T == {c - y : y \in S}
<1>1. T \in SUBSET Nat /\ T # {}
  <2>1. \A y \in S : c - y \in Nat
    OBVIOUS
  <2>2. PICK y \in S : TRUE
    OBVIOUS
  <2>3. c - y \in T
    OBVIOUS
  <2>. QED  BY <2>1, <2>3
<1>2. Min(T) \in T /\ \A u \in T : Min(T) <= u
  <2>. HIDE DEF T
  <2>. QED  BY <1>1, MinIs
<1>3. PICK x \in S : Min(T) = c - x
  BY <1>2
<1>4. \A y \in S : y <= x
  <2>. SUFFICES ASSUME NEW y \in S PROVE y <= x
    OBVIOUS
  <2>1. c - x <= c - y
    BY <1>2, <1>3
  <2>. QED  BY <2>1
<1>. QED  BY <1>4 DEF Max
----------------------------------------------------------------------------
(* Natural numbers and words. *)

\* Induction, for a set.
LEMMA EveryNat ==
  ASSUME NEW T, 0 \in T, \A n \in Nat : n \in T => n + 1 \in T
  PROVE  \A n \in Nat : n \in T
<1>. SUFFICES ASSUME NEW g \in Nat, g \notin T PROVE FALSE
  OBVIOUS
<1>. DEFINE S == {0..x : x \in Nat \ T}
<1>1. S \subseteq FiniteSubsetsOf(Nat) /\ S # {}
  <2>1. \A x \in Nat : 0..x \in SUBSET Nat /\ IsFiniteSet(0..x)
    BY FS_Interval
  <2>2. 0..g \in S
    OBVIOUS
  <2>. QED  BY <2>1, <2>2 DEF FiniteSubsetsOf
<1>2. PICK t \in S : \A u \in S : <<u, t>> \notin StrictSubsetOrdering(Nat)
  <2>. HIDE DEF S
  <2>. QED  BY <1>1, FS_StrictSubsetOrderingWellFounded, WFMin
<1>3. PICK x \in Nat \ T : t = 0..x
  OBVIOUS
<1>4. x - 1 \in Nat /\ x - 1 \notin T /\ (x - 1) + 1 = x
  BY <1>3
<1>5. 0..(x - 1) \in S /\ 0..(x - 1) \subseteq 0..x /\ x \in 0..x /\ x \notin 0..(x - 1)
  BY <1>4
<1>6. <<0..(x - 1), 0..x>> \in StrictSubsetOrdering(Nat)
  BY <1>5 DEF StrictSubsetOrdering
<1>. QED  BY <1>2, <1>3, <1>5, <1>6
\* A power of two counts subsets.
LEMMA PowerCounts ==
  ASSUME NEW n \in Nat
  PROVE  /\ IsFiniteSet(SUBSET (1..n)) /\ Cardinality(SUBSET (1..n)) = 2^n
         /\ 2^n \in Nat /\ 2^n > 0
<1>1. IsFiniteSet(1..n) /\ Cardinality(1..n) = n
  BY FS_Interval
<1>2. IsFiniteSet(SUBSET (1..n)) /\ Cardinality(SUBSET (1..n)) = 2^n
  BY <1>1, FS_SUBSET
<1>3. Cardinality(SUBSET (1..n)) \in Nat
  BY <1>2, FS_CardinalityType
<1>4. SUBSET (1..n) # {}
  OBVIOUS
<1>5. Cardinality(SUBSET (1..n)) # 0
  BY <1>2, <1>4, FS_EmptySet
<1>. QED  BY <1>2, <1>3, <1>5

\* One element more doubles them.
LEMMA PowerDoubles ==
  ASSUME NEW n \in Nat
  PROVE  2^(n + 1) = 2 * 2^n
<1>. DEFINE S == SUBSET (1..n)
            with == [A \in S |-> A \cup {n + 1}]
            T == {with[A] : A \in S}
<1>1. n + 1 \notin 1..n /\ 1..(n + 1) = (1..n) \cup {n + 1}
  OBVIOUS
<1>2. S \cap T = {}
  BY <1>1
<1>3. SUBSET (1..(n + 1)) = S \cup T
  <2>1. ASSUME NEW B \in SUBSET (1..(n + 1)), n + 1 \in B PROVE B \in T
    <3>1. B \ {n + 1} \in S /\ (B \ {n + 1}) \cup {n + 1} = B
      BY <1>1, <2>1
    <3>2. with[B \ {n + 1}] = B
      BY <3>1
    <3>. QED  BY <3>1, <3>2
  <2>2. ASSUME NEW B \in SUBSET (1..(n + 1)), n + 1 \notin B PROVE B \in S
    BY <1>1, <2>2
  <2>3. \A A \in S : with[A] \in SUBSET (1..(n + 1)) /\ A \in SUBSET (1..(n + 1))
    BY <1>1
  <2>4. S \subseteq SUBSET (1..(n + 1)) /\ T \subseteq SUBSET (1..(n + 1))
    BY <2>3
  <2>. HIDE DEF S, T
  <2>. QED  BY <2>1, <2>2, <2>4
<1>4. with \in Bijection(S, T)
  <2>1. with \in [S -> T]
    <3>1. DOMAIN with = S /\ \A A \in S : with[A] \in T
      OBVIOUS
    <3>2. with = [A \in S |-> with[A]]
      OBVIOUS
    <3>. HIDE DEF S, T, with
    <3>. QED  BY <3>1, <3>2
  <2>2. \A A, B \in S : with[A] = with[B] => A = B
    BY <1>1
  <2>3. \A B \in T : \E A \in S : with[A] = B
    OBVIOUS
  <2>. HIDE DEF with, S, T
  <2>. QED  BY <2>1, <2>2, <2>3 DEF Bijection, Injection, Surjection, IsInjective
<1>5. IsFiniteSet(S) /\ Cardinality(S) = 2^n /\ 2^n \in Nat
  BY PowerCounts
<1>6. IsFiniteSet(T) /\ Cardinality(T) = Cardinality(S)
  <2>. HIDE DEF with, S, T
  <2>1. ExistsBijection(S, T)
    BY <1>4 DEF ExistsBijection
  <2>. QED  BY <1>5, <2>1, FS_Bijection
<1>7. Cardinality(S \cup T) = Cardinality(S) + Cardinality(T)
  <2>. HIDE DEF S, T
  <2>1. Cardinality(S \cap T) = 0
    BY <1>2, FS_EmptySet
  <2>2. Cardinality(S \cup T) = Cardinality(S) + Cardinality(T) - Cardinality(S \cap T)
    BY <1>5, <1>6, FS_Union
  <2>. QED  BY <1>5, <1>6, <2>1, <2>2
<1>8. Cardinality(SUBSET (1..(n + 1))) = 2^(n + 1)
  <2>1. n + 1 \in Nat
    OBVIOUS
  <2>. QED  BY <2>1, PowerCounts
<1>. HIDE DEF S, T
<1>9. PICK k \in Nat : k = 2^n
  BY <1>5
<1>10. Cardinality(S \cup T) = 2 * k
  BY <1>5, <1>6, <1>7, <1>9
<1>. QED  BY <1>3, <1>8, <1>9, <1>10

\* Exponents add up.
LEMMA PowerAdds ==
  ASSUME NEW a \in Nat, NEW b \in Nat
  PROVE  2^(a + b) = 2^a * 2^b
<1>. DEFINE T == {n \in Nat : 2^(a + n) = 2^a * 2^n}
<1>1. 0 \in T
  <2>1. 2^0 = 1
    OBVIOUS
  <2>2. a + 0 = a
    OBVIOUS
  <2>3. PICK p \in Nat : p = 2^a
    BY PowerCounts
  <2>4. p = p * 1
    OBVIOUS
  <2>. QED  BY <2>1, <2>2, <2>3, <2>4
<1>2. ASSUME NEW n \in Nat, n \in T PROVE n + 1 \in T
  <2>1. 2^(a + (n + 1)) = 2 * 2^(a + n)
    <3>1. a + (n + 1) = (a + n) + 1 /\ a + n \in Nat
      OBVIOUS
    <3>. QED  BY <3>1, PowerDoubles
  <2>2. PICK p \in Nat, q \in Nat : p = 2^a /\ q = 2^n
    BY PowerCounts
  <2>3. 2^(a + n) = p * q /\ 2^(n + 1) = 2 * q
    BY <1>2, <2>2, PowerDoubles
  <2>4. 2 * (p * q) = p * (2 * q)
    BY <2>2
  <2>. QED  BY <2>1, <2>2, <2>3, <2>4
<1>. HIDE DEF T
<1>3. b \in T
  BY <1>1, <1>2, EveryNat
<1>. QED  BY <1>3 DEF T

\* Words are the remainders modulo 2^W.
LEMMA WordIs ==
  /\ W \in Nat /\ W > 0 /\ Lanes \subseteq Nat
  /\ 2^W \in Nat /\ 2^W > 1
  /\ 0 \in Word /\ 1 \in Word
  /\ \A x \in Int : Wrap(x) \in Word
  /\ \A x \in Word : Wrap(x) = x
<1>1. W \in Nat /\ W > 0
  BY WidthAssumption
<1>2. PICK p \in Nat : p = 2^W
  BY <1>1, PowerCounts
<1>3. p > 1
  <2>1. W - 1 \in Nat /\ (W - 1) + 1 = W
    BY <1>1
  <2>2. PICK q \in Nat : q = 2^(W - 1) /\ q > 0
    BY <2>1, PowerCounts
  <2>3. 2^((W - 1) + 1) = 2 * q
    BY <2>1, <2>2, PowerDoubles
  <2>4. p = 2 * q
    BY <1>2, <2>1, <2>3
  <2>. QED  BY <2>2, <2>4
<1>4. Word = 0..(p - 1) /\ \A x : Wrap(x) = x % p
  BY <1>2 DEF Word, Wrap
<1>5. \A x \in Int : x % p \in 0..(p - 1)
  BY <1>3
<1>6. \A x \in 0..(p - 1) : x % p = x
  BY <1>3
<1>7. 2^W \in Nat /\ 2^W > 1
  BY <1>2, <1>3
<1>8. 0 \in Word /\ 1 \in Word
  BY <1>3, <1>4
<1>9. Lanes \subseteq Nat
  BY <1>1 DEF Lanes
<1>10. (\A x \in Int : Wrap(x) \in Word) /\ (\A x \in Word : Wrap(x) = x)
  BY <1>4, <1>5, <1>6
<1>. QED  BY <1>1, <1>7, <1>8, <1>9, <1>10

\* The word of a set of bits is a sum.
Sums(v, S) == /\ DOMAIN v = 0..W /\ v[0] = 0
              /\ \A n \in 0..(W - 1) : v[n + 1] = v[n] + (IF n \in S THEN 2^n ELSE 0)

LEMMA OfBitsIs ==
  ASSUME NEW S
  PROVE  \E v \in [0..W -> Nat] : Sums(v, S) /\ OfBits(S) = v[W]
<1>. DEFINE bit(n) == IF n \in S THEN 2^n ELSE 0
            UpTo(f, n) == /\ f \in [0..n -> Nat] /\ f[0] = 0
                          /\ \A k \in 0..(n - 1) : f[k + 1] = f[k] + bit(k)
            R(f) == f = [n \in 0..W |-> IF n = 0 THEN 0 ELSE f[n - 1] + (IF n - 1 \in S THEN 2^(n - 1) ELSE 0)]
            value == CHOOSE f : R(f)
<1>0. \A n \in Nat : bit(n) \in Nat
  BY PowerCounts
<1>w. W \in Nat /\ W > 0
  BY WordIs
<1>1. \A n \in Nat : \E f : UpTo(f, n)
  <2>. DEFINE T == {n \in Nat : \E f : UpTo(f, n)}
  <2>. HIDE DEF bit
  <2>1. 0 \in T
    <3>1. UpTo([k \in 0..0 |-> 0], 0)
      OBVIOUS
    <3>. QED  BY <3>1
  <2>2. ASSUME NEW n \in Nat, n \in T PROVE n + 1 \in T
    <3>1. PICK f : UpTo(f, n)
      BY <2>2
    <3>. DEFINE h == [k \in 0..(n + 1) |-> IF k = n + 1 THEN f[n] + bit(n) ELSE f[k]]
    <3>2. h \in [0..(n + 1) -> Nat] /\ h[0] = 0
      BY <1>0, <3>1
    <3>3. \A k \in 0..n : h[k + 1] = h[k] + bit(k)
      BY <3>1
    <3>4. (n + 1) - 1 = n
      OBVIOUS
    <3>. HIDE DEF h
    <3>5. UpTo(h, n + 1)
      BY <3>2, <3>3, <3>4
    <3>. QED  BY <3>5
  <2>. HIDE DEF T
  <2>3. \A n \in Nat : n \in T
    BY <2>1, <2>2, EveryNat
  <2>. QED  BY <2>3 DEF T
<1>2. PICK f : UpTo(f, W)
  BY <1>1, <1>w
<1>3. R(f)
  <2>. HIDE DEF bit
  <2>1. \A n \in 0..W : n # 0 => n - 1 \in 0..(W - 1) /\ (n - 1) + 1 = n
    BY <1>w
  <2>2. \A n \in 0..W : f[n] = IF n = 0 THEN 0 ELSE f[n - 1] + bit(n - 1)
    BY <1>2, <2>1
  <2>3. f = [n \in 0..W |-> f[n]]
    BY <1>2
  <2>4. f = [n \in 0..W |-> IF n = 0 THEN 0 ELSE f[n - 1] + bit(n - 1)]
    BY <2>2, <2>3
  <2>. QED  BY <2>4 DEF bit
<1>4. R(value)
  <2>1. \E g : R(g)
    BY <1>3
  <2>. HIDE DEF R
  <2>. QED  BY <2>1
<1>5. OfBits(S) = value[W]
  BY DEF OfBits
<1>. HIDE DEF value
<1>6. DOMAIN value = 0..W /\ value[0] = 0
  BY <1>4, <1>w
<1>7. \A n \in 0..(W - 1) : value[n + 1] = value[n] + (IF n \in S THEN 2^n ELSE 0)
  <2>. SUFFICES ASSUME NEW n \in 0..(W - 1)
                PROVE  value[n + 1] = value[n] + (IF n \in S THEN 2^n ELSE 0)
    OBVIOUS
  <2>1. PICK k : k = n + 1
    OBVIOUS
  <2>2. k \in 0..W /\ k # 0 /\ k - 1 = n
    BY <1>w, <2>1
  <2>3. value[k] = value[k - 1] + (IF k - 1 \in S THEN 2^(k - 1) ELSE 0)
    BY <1>4, <2>2
  <2>. QED  BY <2>1, <2>2, <2>3
<1>8. \A n \in Nat : n <= W => value[n] \in Nat
  <2>. DEFINE T == {n \in Nat : n <= W => value[n] \in Nat}
  <2>1. 0 \in T
    BY <1>6
  <2>2. ASSUME NEW n \in Nat, n \in T PROVE n + 1 \in T
    <3>. SUFFICES ASSUME n + 1 <= W PROVE value[n + 1] \in Nat
      OBVIOUS
    <3>1. n \in 0..(W - 1) /\ value[n] \in Nat
      BY <1>w, <2>2
    <3>2. PICK b \in Nat : b = bit(n)
      BY <1>0
    <3>3. value[n + 1] = value[n] + b
      BY <1>7, <3>1, <3>2
    <3>. QED  BY <3>1, <3>3
  <2>. HIDE DEF T
  <2>3. \A n \in Nat : n \in T
    BY <2>1, <2>2, EveryNat
  <2>. QED  BY <2>3 DEF T
<1>9. value \in [0..W -> Nat]
  <2>1. \A n \in 0..W : value[n] \in Nat
    BY <1>8, <1>w
  <2>2. value = [n \in 0..W |-> value[n]]
    BY <1>4, <1>6
  <2>. QED  BY <2>1, <2>2
<1>. QED  BY <1>5, <1>6, <1>7, <1>9 DEF Sums

\* It has no more than W bits.
LEMMA OfBitsIsWord ==
  ASSUME NEW S
  PROVE  OfBits(S) \in Word
<1>1. PICK v \in [0..W -> Nat] : Sums(v, S) /\ OfBits(S) = v[W]
  BY OfBitsIs
<1>. DEFINE T == {n \in Nat : n <= W => v[n] < 2^n}
<1>w. W \in Nat
  BY WordIs
<1>2. 0 \in T
  <2>1. 2^0 = 1
    OBVIOUS
  <2>. QED  BY <1>1, <2>1 DEF Sums
<1>3. ASSUME NEW n \in Nat, n \in T PROVE n + 1 \in T
  <2>. SUFFICES ASSUME n + 1 <= W PROVE v[n + 1] < 2^(n + 1)
    OBVIOUS
  <2>1. PICK p \in Nat : p = 2^n
    BY PowerCounts
  <2>2. n \in 0..(W - 1) /\ n \in 0..W /\ v[n] < p
    BY <1>3, <1>w, <2>1
  <2>3. v[n + 1] = v[n] + p \/ v[n + 1] = v[n] + 0
    BY <1>1, <2>1, <2>2 DEF Sums
  <2>4. 2^(n + 1) = 2 * p
    BY <2>1, PowerDoubles
  <2>5. v[n] \in Nat
    BY <2>2
  <2>6. v[n + 1] < 2 * p
    BY <2>1, <2>2, <2>3, <2>5
  <2>. QED  BY <2>4, <2>6
<1>. HIDE DEF T
<1>4. W \in T
  BY <1>2, <1>3, <1>w, EveryNat
<1>5. v[W] < 2^W /\ v[W] \in Nat
  BY <1>4, <1>w DEF T
<1>6. PICK p \in Nat : p = 2^W
  BY WordIs
<1>. QED  BY <1>1, <1>5, <1>6 DEF Word

\* Division by a positive number.
LEMMA DivisionIs ==
  ASSUME NEW x \in Nat, NEW d \in Nat, d > 0
  PROVE  /\ x \div d \in Nat /\ x % d \in Nat /\ x % d < d
         /\ x = d * (x \div d) + (x % d)
         /\ x \div d <= x
         /\ \A q \in Nat, r \in Nat : x = d * q + r /\ r < d => x \div d = q /\ x % d = r
<1>1. PICK q \in Int, r \in Int : q = x \div d /\ r = x % d
  OBVIOUS
<1>2. x = d * q + r /\ r >= 0 /\ r < d
  BY <1>1
<1>3. q >= 0
  BY <1>2
<1>4. q <= x
  <2>1. d * q >= q
    BY <1>3
  <2>. QED  BY <1>2, <2>1
<1>5. ASSUME NEW u \in Nat, NEW v \in Nat, x = d * u + v, v < d PROVE u = q /\ v = r
  <2>1. d * (u - q) = r - v
    BY <1>2, <1>5
  <2>2. ~(u - q >= 1)
    <3>1. ASSUME u - q >= 1 PROVE d * (u - q) >= d
      BY <3>1
    <3>. QED  BY <1>2, <1>5, <2>1, <3>1
  <2>3. ~(u - q <= -1)
    <3>1. ASSUME u - q <= -1 PROVE d * (u - q) <= -d
      BY <3>1
    <3>. QED  BY <1>2, <1>5, <2>1, <3>1
  <2>4. u = q
    BY <2>2, <2>3
  <2>. QED  BY <1>2, <1>5, <2>4
<1>6. q \in Nat /\ r \in Nat
  BY <1>2, <1>3
<1>7. /\ x \div d \in Nat /\ x % d \in Nat /\ x % d < d
      /\ x = d * (x \div d) + (x % d) /\ x \div d <= x
  BY <1>1, <1>2, <1>4, <1>6
<1>8. \A u \in Nat, v \in Nat : x = d * u + v /\ v < d => x \div d = u /\ x % d = v
  BY <1>1, <1>5
<1>. QED  BY <1>7, <1>8

\* One more binary digit of a remainder.
LEMMA NextDigit ==
  ASSUME NEW x \in Nat, NEW d \in Nat, d > 0
  PROVE  x % (2 * d) = (x % d) + (IF (x \div d) % 2 = 1 THEN d ELSE 0)
<1>1. PICK q \in Nat, r \in Nat : q = x \div d /\ r = x % d
  BY DivisionIs
<1>2. x = d * q + r /\ r < d
  BY <1>1, DivisionIs
<1>3. PICK h \in Nat, b \in Nat : h = q \div 2 /\ b = q % 2 /\ q = 2 * h + b /\ b < 2
  BY DivisionIs
<1>4. d * q = 2 * d * h + d * b
  BY <1>3
<1>5. CASE b = 1
  <2>1. x = (2 * d) * h + (r + d) /\ r + d < 2 * d
    BY <1>2, <1>4, <1>5
  <2>2. x % (2 * d) = r + d
    <3>1. PICK e \in Nat : e = 2 * d /\ e > 0
      OBVIOUS
    <3>2. x = e * h + (r + d) /\ r + d < e /\ r + d \in Nat
      BY <2>1, <3>1
    <3>3. x % e = r + d
      BY <3>1, <3>2, DivisionIs
    <3>. QED  BY <3>1, <3>3
  <2>. QED  BY <1>1, <1>3, <1>5, <2>2
<1>6. CASE b = 0
  <2>1. x = (2 * d) * h + r /\ r < 2 * d
    BY <1>2, <1>4, <1>6
  <2>2. x % (2 * d) = r
    <3>1. PICK e \in Nat : e = 2 * d /\ e > 0
      OBVIOUS
    <3>2. x = e * h + r /\ r < e
      BY <2>1, <3>1
    <3>3. x % e = r
      BY <3>1, <3>2, DivisionIs
    <3>. QED  BY <3>1, <3>3
  <2>. QED  BY <1>1, <1>3, <1>6, <2>2
<1>. QED  BY <1>3, <1>5, <1>6

\* The bits of 2^k - 1 are the k lowest.
LEMMA LowMask ==
  ASSUME NEW k \in Nat, NEW n \in Nat
  PROVE  ((2^k - 1) \div 2^n) % 2 = 1 <=> n < k
<1>1. PICK p \in Nat, d \in Nat : p = 2^k /\ d = 2^n /\ p > 0 /\ d > 0
  BY PowerCounts
<1>2. CASE n < k
  <2>1. (k - n) - 1 \in Nat /\ ((k - n) - 1) + 1 = k - n /\ k - n \in Nat /\ n + (k - n) = k
    BY <1>2
  <2>2. PICK h \in Nat : h = 2^((k - n) - 1) /\ h > 0
    BY <2>1, PowerCounts
  <2>3. 2^(k - n) = 2 * h
    BY <2>1, <2>2, PowerDoubles
  <2>4. p = d * (2 * h)
    BY <1>1, <2>1, <2>3, PowerAdds
  <2>5. p - 1 = d * (2 * h - 1) + (d - 1)
    BY <2>4
  <2>6. (p - 1) \div d = 2 * h - 1
    <3>1. p - 1 \in Nat /\ 2 * h - 1 \in Nat /\ d - 1 \in Nat /\ d - 1 < d
      BY <1>1, <2>2
    <3>. QED  BY <1>1, <2>5, <3>1, DivisionIs
  <2>7. (2 * h - 1) % 2 = 1
    OBVIOUS
  <2>. QED  BY <1>1, <1>2, <2>6, <2>7
<1>3. CASE ~(n < k)
  <2>1. n - k \in Nat /\ k + (n - k) = n
    BY <1>3
  <2>2. PICK h \in Nat : h = 2^(n - k) /\ h > 0
    BY <2>1, PowerCounts
  <2>3. d = p * h
    BY <1>1, <2>1, <2>2, PowerAdds
  <2>4. p * h >= p
    BY <2>2
  <2>5. p - 1 = d * 0 + (p - 1) /\ p - 1 < d /\ p - 1 \in Nat
    BY <1>1, <2>3, <2>4
  <2>6. (p - 1) \div d = 0
    BY <1>1, <2>5, DivisionIs
  <2>. QED  BY <1>1, <1>3, <2>6
<1>. QED  BY <1>2, <1>3

\* Shift amounts: the C masks the register, the processor takes its low bits.
LEMMA ShiftAmount ==
  ASSUME NEW x \in Word
  PROVE  And(x, W - 1) = x % W
<1>. DEFINE S == Bits(x) \cap Bits(W - 1)
<1>1. PICK k \in 2..W : W = 2^k
  BY WidthAssumption
<1>2. x \in Nat /\ W \in Nat /\ k \in Nat /\ k <= W
  BY <1>1, WordIs DEF Word
<1>3. PICK v \in [0..W -> Nat] : Sums(v, S) /\ OfBits(S) = v[W]
  BY OfBitsIs
<1>4. \A n \in 0..(W - 1) : n \in S <=> (x \div 2^n) % 2 = 1 /\ n < k
  <2>. SUFFICES ASSUME NEW n \in 0..(W - 1)
                PROVE  n \in S <=> (x \div 2^n) % 2 = 1 /\ n < k
    OBVIOUS
  <2>1. ((W - 1) \div 2^n) % 2 = 1 <=> n < k
    BY <1>1, <1>2, LowMask
  <2>. QED  BY <2>1 DEF Bits, Lanes
<1>. HIDE DEF S
<1>. DEFINE T == {n \in Nat : n <= W => v[n] = x % 2^(IF n < k THEN n ELSE k)}
<1>5. 0 \in T
  <2>1. 2^0 = 1 /\ x % 1 = 0
    BY <1>2
  <2>. QED  BY <1>1, <1>3, <2>1 DEF Sums
<1>6. ASSUME NEW n \in Nat, n \in T PROVE n + 1 \in T
  <2>. SUFFICES ASSUME n + 1 <= W
                PROVE  v[n + 1] = x % 2^(IF n + 1 < k THEN n + 1 ELSE k)
    OBVIOUS
  <2>1. n \in 0..(W - 1) /\ n <= W
    BY <1>2
  <2>2. PICK d \in Nat : d = 2^n /\ d > 0
    BY PowerCounts
  <2>3. v[n + 1] = v[n] + (IF n \in S THEN d ELSE 0)
    BY <1>3, <2>1, <2>2 DEF Sums
  <2>4. CASE n < k
    <3>1. v[n] = x % d
      BY <1>6, <2>1, <2>2, <2>4
    <3>2. n \in S <=> (x \div d) % 2 = 1
      BY <1>4, <2>1, <2>2, <2>4
    <3>3. v[n + 1] = x % (2 * d)
      BY <1>2, <2>2, <2>3, <3>1, <3>2, NextDigit
    <3>4. 2^(n + 1) = 2 * d
      BY <2>2, PowerDoubles
    <3>5. (IF n + 1 < k THEN n + 1 ELSE k) = n + 1
      BY <1>2, <2>4
    <3>. QED  BY <3>3, <3>4, <3>5
  <2>5. CASE ~(n < k)
    <3>1. n \notin S
      BY <1>4, <2>1, <2>5
    <3>2. PICK c : c = x % 2^k
      OBVIOUS
    <3>3. v[n] = c
      BY <1>6, <2>1, <2>5, <3>2
    <3>4. v[n] \in Nat
      BY <1>2, <2>1
    <3>5. v[n + 1] = c
      BY <2>3, <3>1, <3>3, <3>4
    <3>6. (IF n + 1 < k THEN n + 1 ELSE k) = k
      BY <1>2, <2>5
    <3>. QED  BY <3>2, <3>5, <3>6
  <2>. QED  BY <2>4, <2>5
<1>. HIDE DEF T
<1>7. W \in T
  BY <1>2, <1>5, <1>6, EveryNat
<1>8. v[W] = x % 2^(IF W < k THEN W ELSE k)
  BY <1>2, <1>7 DEF T
<1>9. (IF W < k THEN W ELSE k) = k
  BY <1>2
<1>. QED  BY <1>1, <1>3, <1>8, <1>9 DEF And, S

\* Two half words make a word.
LEMMA HalfIs ==
  ASSUME NEW h \in 0..(2^(W \div 2) - 1)
  PROVE  /\ h \in Nat /\ SignExtended(h) \in Int
         /\ h * 2^(W \div 2) \in Word /\ h \in Word
<1>1. PICK k \in 2..W : W = 2^k
  BY WidthAssumption
<1>2. PICK w \in Nat : w = 2^(k - 1) /\ w > 0
  <2>1. k - 1 \in Nat
    BY WordIs
  <2>. QED  BY <2>1, PowerCounts
<1>3. W = 2 * w
  <2>1. k - 1 \in Nat /\ (k - 1) + 1 = k
    BY WordIs
  <2>2. 2^((k - 1) + 1) = 2 * w
    BY <1>2, <2>1, PowerDoubles
  <2>. QED  BY <1>1, <2>1, <2>2
<1>4. W \div 2 = w
  BY <1>3
<1>5. PICK b \in Nat : b = 2^w /\ b > 0
  BY PowerCounts
<1>6. 2^W = b * b
  <2>1. w + w = W
    BY <1>3
  <2>. QED  BY <1>5, <2>1, PowerAdds
<1>7. h \in Nat /\ h <= b - 1 /\ h * b \in Nat
  BY <1>4, <1>5
<1>8. h * b <= b * b - 1 /\ h <= b * b - 1
  <2>1. h * b <= (b - 1) * b
    BY <1>7
  <2>2. (b - 1) * b = b * b - b
    OBVIOUS
  <2>3. b <= b * b
    BY <1>5
  <2>. QED  BY <1>5, <1>7, <2>1, <2>2, <2>3
<1>9. SignExtended(h) \in Int
  <2>1. 2^(w - 1) \in Int /\ w - 1 \in Nat
    BY <1>2, PowerCounts
  <2>. QED  BY <1>4, <1>5, <1>7 DEF SignExtended
<1>. QED  BY <1>4, <1>5, <1>6, <1>7, <1>8, <1>9 DEF Word

\* Instructions name registers, and their immediate fields are words.
LEMMA InstructionIs ==
  ASSUME NEW i, IsInstruction(i)
  PROVE  /\ i.d \in General /\ i.s \in General /\ i.t \in General
         /\ i.d \in Regs /\ i.s \in Regs /\ i.t \in Regs
         /\ i.imm \in Word /\ i.imm \in Nat
         /\ ~IsControlFlow(i) => /\ i.imm \in 0..(2^(W \div 2) - 1)
                                /\ i.op \in MulDiv \cup WithResult \cup {"mthi", "mtlo", "sw"}
<1>1. {i.d, i.s, i.t} \subseteq General /\ General \subseteq Regs
  BY DEF IsInstruction, Regs
<1>2. CASE IsControlFlow(i)
  <2>1. i.imm \in Word
    BY <1>2 DEF IsInstruction, IsControlFlow
  <2>. QED  BY <1>1, <1>2, <2>1, WordIs DEF Word
<1>3. CASE ~IsControlFlow(i)
  <2>1. /\ i.imm \in 0..(2^(W \div 2) - 1)
        /\ i.op \in MulDiv \cup WithResult \cup {"mthi", "mtlo", "sw"}
    BY <1>3 DEF IsInstruction, IsControlFlow
  <2>2. i.imm \in Word /\ i.imm \in Nat
    BY <2>1, HalfIs
  <2>. QED  BY <1>1, <1>3, <2>1, <2>2
<1>. QED  BY <1>2, <1>3
----------------------------------------------------------------------------
(* Basic blocks, for any starts of functions. *)

\* A function ends behind its last instruction, within the executable.
LEMMA EndIs ==
  ASSUME NEW starts \in SUBSET Nat, NEW fn \in Nat
  PROVE  /\ End(starts, fn) \in Nat /\ End(starts, fn) <= ExeEnd
         /\ End(starts, fn) # ExeEnd => End(starts, fn) \in starts
         /\ Body(starts, fn) \subseteq Exe
<1>. DEFINE S == {s \in starts : s > fn} \cup {ExeEnd}
<1>1. S \in SUBSET Nat /\ ExeEnd \in S
  BY ExeAssumption
<1>. HIDE DEF S
<1>2. Min(S) \in S /\ \A y \in S : Min(S) <= y
  BY <1>1, MinIs
<1>3. End(starts, fn) = Min(S)
  BY DEF End, S
<1>4. End(starts, fn) \in Nat /\ End(starts, fn) <= ExeEnd
      /\ (End(starts, fn) # ExeEnd => End(starts, fn) \in starts)
  BY <1>1, <1>2, <1>3 DEF S
<1>5. Body(starts, fn) \subseteq Exe
  BY <1>4, ExeAssumption DEF Body, Exe
<1>. QED  BY <1>4, <1>5

\* Blocks start in the function; the targets of its branches do, and what
\* follows their delay slots.
LEMMA BoundariesAre ==
  ASSUME NEW starts \in SUBSET Nat, NEW fn \in Nat, NEW p \in Body(starts, fn)
  PROVE  /\ Boundaries(starts, fn) \subseteq Body(starts, fn)
         /\ fn \in Boundaries(starts, fn)
         /\ IsControlFlow(code[p]) =>
              \A t \in Target(p) \cup {p + 2} : t \in Body(starts, fn) => t \in Boundaries(starts, fn)
<1>1. End(starts, fn) \in Nat
  BY EndIs
<1>2. fn \in Body(starts, fn)
  BY <1>1 DEF Body
<1>. QED  BY <1>2 DEF Boundaries

\* The block of an instruction starts at the last boundary up to it.
LEMMA BlockIs ==
  ASSUME NEW starts \in SUBSET Nat, NEW fn \in Nat, NEW p \in Body(starts, fn)
  PROVE  /\ BlockOf(starts, fn, p) \in Boundaries(starts, fn)
         /\ BlockOf(starts, fn, p) <= p
         /\ \A b \in Boundaries(starts, fn) : b <= p => b <= BlockOf(starts, fn, p)
<1>. DEFINE S == {b \in Boundaries(starts, fn) : b <= p}
<1>1. End(starts, fn) \in Nat
  BY EndIs
<1>2. p \in Nat /\ fn <= p /\ Body(starts, fn) \subseteq Nat
  BY <1>1 DEF Body
<1>3. S \in SUBSET Nat /\ S # {} /\ \A b \in S : b <= p
  BY <1>2, BoundariesAre
<1>. HIDE DEF S
<1>4. Max(S) \in S /\ \A b \in S : b <= Max(S)
  BY <1>2, <1>3, MaxIs
<1>. QED  BY <1>4 DEF BlockOf, S

\* A block goes on to the instruction before the next boundary, or the last.
LEMMA LastIs ==
  ASSUME NEW starts \in SUBSET Nat, NEW fn \in Nat, NEW p \in Body(starts, fn),
         NEW b \in Boundaries(starts, fn), b = BlockOf(starts, fn, p)
  PROVE  /\ LastOf(starts, fn, b) \in Body(starts, fn) /\ p <= LastOf(starts, fn, b)
         /\ \A c \in Boundaries(starts, fn) : c > b => c > LastOf(starts, fn, b)
         /\ \/ LastOf(starts, fn, b) + 1 \in Boundaries(starts, fn)
            \/ LastOf(starts, fn, b) + 1 = End(starts, fn)
<1>. DEFINE e == End(starts, fn)
            S == {s \in Boundaries(starts, fn) \cup {e} : s > b}
<1>1. e \in Nat
  BY EndIs
<1>2. /\ p \in Nat /\ b \in Nat /\ b <= p /\ p < e /\ fn <= b
      /\ Boundaries(starts, fn) \subseteq Nat
      /\ \A c \in Boundaries(starts, fn) : c < e
  BY <1>1, BoundariesAre, BlockIs DEF Body
<1>3. S \in SUBSET Nat /\ e \in S
  BY <1>1, <1>2
<1>4. Min(S) \in S /\ \A s \in S : Min(S) <= s
  <2>. HIDE DEF S
  <2>. QED  BY <1>3, MinIs
<1>5. LastOf(starts, fn, b) = Min(S) - 1
  BY DEF LastOf
<1>6. PICK k \in S : k = Min(S)
  BY <1>4
<1>7. k \in Nat /\ k > b /\ k <= e /\ k - 1 \in Nat /\ (k - 1) + 1 = k
  BY <1>1, <1>2, <1>3, <1>4, <1>6
<1>8. k > p
  <2>1. CASE k = e
    BY <1>2, <2>1
  <2>2. CASE k \in Boundaries(starts, fn)
    <3>1. k <= p => k <= b
      BY <2>2, BlockIs
    <3>. QED  BY <1>2, <1>7, <3>1
  <2>. QED  BY <1>6, <2>1, <2>2
<1>9. k - 1 \in Body(starts, fn) /\ p <= k - 1
  BY <1>1, <1>2, <1>7, <1>8 DEF Body
<1>10. \A c \in Boundaries(starts, fn) : c > b => c > k - 1
  BY <1>2, <1>4, <1>6, <1>7
<1>11. k \in Boundaries(starts, fn) \/ k = e
  BY <1>6
<1>. QED  BY <1>5, <1>6, <1>7, <1>9, <1>10, <1>11

\* A block's exit is a branch in it.
LEMMA ExitIs ==
  ASSUME NEW starts \in SUBSET Nat, NEW fn \in Nat, NEW p \in Body(starts, fn),
         NEW b \in Boundaries(starts, fn), b = BlockOf(starts, fn, p),
         NEW l \in Body(starts, fn), l = LastOf(starts, fn, b)
  PROVE  /\ Exit(starts, fn, b) # NoExit => IsControlFlow(code[Exit(starts, fn, b)])
         /\ IsControlFlow(code[l]) => Exit(starts, fn, b) = l
         /\ ~IsControlFlow(code[l]) /\ l > b /\ IsControlFlow(code[l - 1]) => Exit(starts, fn, b) = l - 1
         /\ ~IsControlFlow(code[l]) /\ ~(l > b /\ IsControlFlow(code[l - 1])) => Exit(starts, fn, b) = NoExit
  BY DEF Exit

\* A branch whose delay slot is no branch is the exit of its block.
LEMMA BranchEndsItsBlock ==
  ASSUME NEW starts \in SUBSET Nat, NEW fn \in Nat, NEW p \in Body(starts, fn),
         IsControlFlow(code[p]), ~IsControlFlow(code[p + 1])
  PROVE  EndsItsBlock(starts, fn, p)
<1>1. PICK b \in Boundaries(starts, fn) : b = BlockOf(starts, fn, p)
  BY BlockIs
<1>2. PICK l \in Body(starts, fn) : l = LastOf(starts, fn, b)
  BY <1>1, LastIs
<1>3. End(starts, fn) \in Nat
  BY EndIs
<1>4. p \in Nat /\ l \in Nat /\ b \in Nat /\ b <= p /\ p <= l /\ l < End(starts, fn) /\ fn <= p
  BY <1>1, <1>2, <1>3, BlockIs, BoundariesAre, LastIs DEF Body
<1>5. ~(p + 2 <= l)
  <2>. SUFFICES ASSUME p + 2 <= l PROVE FALSE
    OBVIOUS
  <2>1. p + 2 \in Body(starts, fn)
    BY <1>3, <1>4 DEF Body
  <2>2. p + 2 \in Boundaries(starts, fn)
    BY <2>1, BoundariesAre
  <2>3. p + 2 > b
    BY <1>4
  <2>4. p + 2 > l
    BY <1>1, <1>2, <2>2, <2>3, LastIs
  <2>. QED  BY <1>4, <2>4
<1>6. l = p \/ (l = p + 1 /\ l > b /\ l - 1 = p)
  BY <1>4, <1>5
<1>7. Exit(starts, fn, b) = p
  BY <1>1, <1>2, <1>6, ExitIs
<1>. QED  BY <1>1, <1>7 DEF EndsItsBlock

\* A boundary is the block it starts.
LEMMA BoundaryBlock ==
  ASSUME NEW starts \in SUBSET Nat, NEW fn \in Nat, NEW p \in Boundaries(starts, fn),
         p \in Body(starts, fn)
  PROVE  BlockOf(starts, fn, p) = p
<1>1. p \in Int /\ Boundaries(starts, fn) \subseteq Int
  BY BoundariesAre DEF Body
<1>2. p <= p
  BY <1>1
<1>. QED  BY <1>1, <1>2, BlockIs

\* A block of one function is no other's: what execution falls into.
LEMMA NextIsReached ==
  ASSUME NEW starts \in SUBSET Nat, NEW fn \in Nat, NEW p \in Body(starts, fn),
         ~IsControlFlow(code[p]), p + 1 \in Body(starts, fn), p + 1 \notin Boundaries(starts, fn)
  PROVE  BlockOf(starts, fn, p + 1) = BlockOf(starts, fn, p)
<1>1. BlockOf(starts, fn, p + 1) \in Boundaries(starts, fn) /\ BlockOf(starts, fn, p) \in Boundaries(starts, fn)
  BY BlockIs
<1>2. p \in Int /\ Boundaries(starts, fn) \subseteq Int
  BY BoundariesAre DEF Body
<1>3. BlockOf(starts, fn, p + 1) <= p
  <2>1. BlockOf(starts, fn, p + 1) <= p + 1 /\ BlockOf(starts, fn, p + 1) # p + 1
    BY <1>1, BlockIs
  <2>. QED  BY <1>1, <1>2, <2>1
<1>4. BlockOf(starts, fn, p + 1) <= BlockOf(starts, fn, p)
  BY <1>1, <1>3, BlockIs
<1>5. BlockOf(starts, fn, p) <= BlockOf(starts, fn, p + 1)
  <2>1. BlockOf(starts, fn, p) <= p
    BY BlockIs
  <2>2. BlockOf(starts, fn, p) <= p + 1
    BY <1>1, <1>2, <2>1
  <2>. QED  BY <1>1, <2>2, BlockIs
<1>. QED  BY <1>1, <1>2, <1>4, <1>5

\* Behind a plain instruction that is no delay slot of the exit, a block that
\* is over has no exit.
LEMMA NoExitBehind ==
  ASSUME NEW starts \in SUBSET Nat, NEW fn \in Nat, NEW p \in Body(starts, fn),
         ~IsControlFlow(code[p]), p = LastOf(starts, fn, BlockOf(starts, fn, p)),
         p = BlockOf(starts, fn, p) \/ Exit(starts, fn, BlockOf(starts, fn, p)) # p - 1
  PROVE  Exit(starts, fn, BlockOf(starts, fn, p)) = NoExit
<1>1. PICK b \in Boundaries(starts, fn) : b = BlockOf(starts, fn, p)
  BY BlockIs
<1>2. p = LastOf(starts, fn, b)
  BY <1>1
<1>3. IsControlFlow(code[p - 1]) /\ p > b => Exit(starts, fn, b) = p - 1
  BY <1>1, <1>2, ExitIs
<1>4. p \in Int /\ b \in Int
  BY <1>1, BoundariesAre DEF Body
<1>5. ~(p > b /\ IsControlFlow(code[p - 1]))
  BY <1>1, <1>3, <1>4
<1>6. Exit(starts, fn, b) = NoExit
  BY <1>1, <1>2, <1>5, ExitIs
<1>. QED  BY <1>1, <1>6
----------------------------------------------------------------------------
(* Where execution comes to in a function. *)

\* Functions start at addresses of instructions, or end the executable.
LEMMA StartsAre ==
  ASSUME Translated
  PROVE  dispatch \in SUBSET Nat /\ Bios \notin dispatch
<1>1. 0..ExeEnd \subseteq 0..(ExeEnd + 1) /\ 0..ExeEnd \subseteq Nat
  BY ExeAssumption
<1>. QED  BY <1>1, AddressAssumption DEF Translated

\* A function is entered at its first block.
LEMMA EntryReached ==
  ASSUME Translated, NEW fn \in dispatch
  PROVE  Reached(fn, fn)
<1>1. ASSUME fn \in Body(dispatch, fn) PROVE BlockOf(dispatch, fn, fn) = fn
  <2>1. fn \in Boundaries(dispatch, fn)
    BY <1>1, StartsAre, BoundariesAre
  <2>. QED  BY <1>1, <2>1, StartsAre, BoundaryBlock
<1>. QED  BY <1>1 DEF Reached

\* The exit of a block leads to its target and behind its delay slot.
LEMMA JumpReached ==
  ASSUME Translated, NEW fn \in dispatch, NEW p \in Body(dispatch, fn), NEW t,
         IsControlFlow(code[p]), EndsItsBlock(dispatch, fn, p),
         \/ code[p].op \in Branches \cup {"j"} /\ t = code[p].imm
         \/ code[p].op \in Branches \cup {"jal", "jalr"} /\ t = p + 2
  PROVE  Reached(fn, t)
<1>1. SUFFICES ASSUME t \in Body(dispatch, fn) PROVE Reached(fn, t)
  BY DEF Reached
<1>. DEFINE b == BlockOf(dispatch, fn, p)
<1>2. fn \in Nat /\ dispatch \in SUBSET Nat
  BY StartsAre
<1>3. t \in Boundaries(dispatch, fn)
  BY <1>1, <1>2, BoundariesAre DEF Target
<1>4. BlockOf(dispatch, fn, t) = t
  BY <1>1, <1>2, <1>3, BoundaryBlock
<1>5. b \in Boundaries(dispatch, fn) /\ Exit(dispatch, fn, b) = p
  BY <1>2, BlockIs DEF EndsItsBlock
<1>6. p # NoExit
  <2>1. End(dispatch, fn) \in Nat
    BY <1>2, EndIs
  <2>2. p \in Nat
    BY <1>2, <2>1 DEF Body
  <2>. QED  BY <2>2 DEF NoExit
<1>. HIDE DEF b
<1>7. t \in Successors(dispatch, fn, b)
  BY <1>3, <1>5, <1>6 DEF Successors, Branches
<1>. QED  BY <1>4, <1>5, <1>7 DEF Reached

\* A statement leads to the next one, in its block or in the block it falls
\* into, and out of the function only where the next one is called.
LEMMA StatementReached ==
  ASSUME Translated, NEW fn \in dispatch, NEW p \in Body(dispatch, fn),
         ~IsControlFlow(code[p]), Reached(fn, p)
  PROVE  /\ Reached(fn, p + 1)
         /\ p + 1 = End(dispatch, fn) /\ p + 1 # ExeEnd => FallsThrough(dispatch, fn)
<1>1. fn \in Nat /\ dispatch \in SUBSET Nat
  BY StartsAre
<1>2. PICK b \in Boundaries(dispatch, fn) : b = BlockOf(dispatch, fn, p)
  BY <1>1, BlockIs
<1>3. PICK l \in Body(dispatch, fn) : l = LastOf(dispatch, fn, b)
  BY <1>1, <1>2, LastIs
<1>4. End(dispatch, fn) \in Nat
  BY <1>1, EndIs
<1>5. p \in Nat /\ l \in Nat /\ b \in Nat /\ b <= p /\ p <= l /\ p < End(dispatch, fn)
      /\ l < End(dispatch, fn)
  BY <1>1, <1>2, <1>3, <1>4, BlockIs, BoundariesAre, LastIs DEF Body
<1>6. /\ b = fn \/ \E c \in Boundaries(dispatch, fn) : b \in Successors(dispatch, fn, c)
      /\ p = b \/ Exit(dispatch, fn, b) # p - 1
  BY <1>2 DEF Reached
<1>7. p = l => Exit(dispatch, fn, b) = NoExit
  BY <1>1, <1>2, <1>3, <1>6, NoExitBehind
<1>8. ASSUME p + 1 \in Body(dispatch, fn), p + 1 \in Boundaries(dispatch, fn)
      PROVE  Reached(fn, p + 1)
  <2>1. BlockOf(dispatch, fn, p + 1) = p + 1
    BY <1>1, <1>8, BoundaryBlock
  <2>2. p = l
    <3>1. p + 1 > b
      BY <1>5
    <3>2. p + 1 > l
      BY <1>1, <1>2, <1>3, <1>8, <3>1, LastIs
    <3>. QED  BY <1>5, <3>2
  <2>3. p + 1 \in Successors(dispatch, fn, b)
    BY <1>3, <1>7, <1>8, <2>2 DEF Successors
  <2>. QED  BY <2>1, <2>3 DEF Reached
<1>9. ASSUME p + 1 \in Body(dispatch, fn), p + 1 \notin Boundaries(dispatch, fn)
      PROVE  Reached(fn, p + 1)
  <2>1. BlockOf(dispatch, fn, p + 1) = b
    BY <1>1, <1>2, <1>9, NextIsReached
  <2>2. Exit(dispatch, fn, b) # p
    <3>1. NoExit # p
      BY <1>5 DEF NoExit
    <3>2. Exit(dispatch, fn, b) # NoExit => IsControlFlow(code[Exit(dispatch, fn, b)])
      BY <1>1, <1>2, <1>3, ExitIs
    <3>. QED  BY <3>1, <3>2
  <2>3. (p + 1) - 1 = p
    BY <1>5
  <2>. QED  BY <1>6, <2>1, <2>2, <2>3 DEF Reached
<1>10. Reached(fn, p + 1)
  BY <1>8, <1>9 DEF Reached
<1>11. ASSUME p + 1 = End(dispatch, fn), p + 1 # ExeEnd
       PROVE  FallsThrough(dispatch, fn)
  <2>1. Max(Boundaries(dispatch, fn)) = b
    <3>1. \A c \in Boundaries(dispatch, fn) : c <= p
      <4>1. \A c \in Body(dispatch, fn) : c <= p
        BY <1>4, <1>5, <1>11 DEF Body
      <4>. QED  BY <1>1, <4>1, BoundariesAre
    <3>2. {c \in Boundaries(dispatch, fn) : c <= p} = Boundaries(dispatch, fn)
      BY <3>1
    <3>. QED  BY <1>2, <3>2 DEF BlockOf
  <2>2. p = l
    BY <1>4, <1>5, <1>11
  <2>3. End(dispatch, fn) \in dispatch
    BY <1>1, <1>11, EndIs
  <2>. QED  BY <1>6, <1>7, <2>1, <2>2, <2>3 DEF FallsThrough
<1>. QED  BY <1>10, <1>11
----------------------------------------------------------------------------
(* The C stack. *)

\* The program does not change, nor what was made of it.
LEMMA GoodStays ==
  ASSUME UNCHANGED <<code, dispatch>>, NEW f
  PROVE  Good(f)' <=> Good(f)
<1>1. ASSUME NEW fn, NEW p PROVE Reached(fn, p)' <=> Reached(fn, p)
  BY DEF Reached, Body, End, BlockOf, Boundaries, Target, IsControlFlow, Exit, LastOf, Successors
<1>. QED  BY <1>1 DEF Good

\* All but the last element.
LEMMA FrontIs ==
  ASSUME NEW S, NEW s \in Seq(S), s # <<>>
  PROVE  /\ Len(s) \in Nat /\ Len(s) > 0
         /\ Front(s) \in Seq(S) /\ Len(Front(s)) = Len(s) - 1
         /\ \A n \in 1..(Len(s) - 1) : Front(s)[n] = s[n]
<1>1. PICK k \in Nat : k = Len(s)
  OBVIOUS
<1>2. k > 0 /\ \A i \in 1..(k - 1) : s[i] \in S
  BY <1>1
<1>. DEFINE t == SubSeq(s, 1, k - 1)
<1>3. /\ t \in Seq(S) /\ Len(t) = IF 1 <= k - 1 THEN (k - 1) - 1 + 1 ELSE 0
      /\ \A i \in 1..((k - 1) - 1 + 1) : t[i] = s[1 + i - 1]
  <2>1. \A i \in 1..(k - 1) : s[i] \in S
    BY <1>2
  <2>. QED  BY <2>1, SubSeqProperties
<1>4. Front(s) = t
  BY <1>1 DEF Front
<1>. HIDE DEF t
<1>. QED  BY <1>1, <1>2, <1>3, <1>4

\* One element more.
LEMMA AppendIs ==
  ASSUME NEW S, NEW s \in Seq(S), NEW e \in S
  PROVE  /\ Append(s, e) \in Seq(S) /\ Len(Append(s, e)) = Len(s) + 1
         /\ \A n \in 1..Len(s) : Append(s, e)[n] = s[n]
         /\ Append(s, e)[Len(s) + 1] = e
  OBVIOUS

\* The last element changed.
LEMMA ResumeIs ==
  ASSUME stack \in Seq(Frame), stack # <<>>, NEW f \in Frame
  PROVE  /\ Resume(f) \in Seq(Frame) /\ Len(Resume(f)) = Len(stack)
         /\ \A n \in 1..(Len(stack) - 1) : Resume(f)[n] = stack[n]
         /\ Resume(f)[Len(stack)] = f
         /\ Len(stack) \in Nat /\ Len(stack) > 0
<1>1. /\ Len(stack) \in Nat /\ Len(stack) > 0
      /\ Front(stack) \in Seq(Frame) /\ Len(Front(stack)) = Len(stack) - 1
      /\ \A n \in 1..(Len(stack) - 1) : Front(stack)[n] = stack[n]
  BY FrontIs
<1>2. /\ Append(Front(stack), f) \in Seq(Frame) /\ Len(Append(Front(stack), f)) = Len(Front(stack)) + 1
      /\ \A n \in 1..Len(Front(stack)) : Append(Front(stack), f)[n] = Front(stack)[n]
      /\ Append(Front(stack), f)[Len(Front(stack)) + 1] = f
  BY <1>1, AppendIs
<1>. QED  BY <1>1, <1>2 DEF Resume

\* A frame that goes on, or is replaced by a tail call.
LEMMA ReplaceTop ==
  ASSUME StackInv, stack # <<>>, NEW f, Good(f), stack' = Resume(f),
         UNCHANGED <<code, dispatch, owed>>
  PROVE  StackInv'
<1>1. f \in Frame /\ stack \in Seq(Frame)
  BY DEF Good, StackInv
<1>2. /\ stack' \in Seq(Frame) /\ Len(stack') = Len(stack)
      /\ \A n \in 1..(Len(stack) - 1) : stack'[n] = stack[n]
      /\ stack'[Len(stack)] = f
      /\ Len(stack) \in Nat /\ Len(stack) > 0
  BY <1>1, ResumeIs
<1>3. ASSUME NEW n \in 1..Len(stack') PROVE Good(stack'[n])
  BY <1>2 DEF StackInv
<1>4. ASSUME NEW n \in 1..Len(stack') PROVE Good(stack[n])'
  <2>1. PICK g : g = stack'[n]
    OBVIOUS
  <2>2. Good(g)'
    BY <1>3, <2>1, GoodStays
  <2>. QED  BY <2>1, <2>2
<1>5. \A n \in 1..(Len(stack') - 1) : stack'[n].at # Bios
  BY <1>2 DEF StackInv
<1>6. Owed'
  BY <1>2 DEF StackInv, Owed
<1>. QED  BY <1>2, <1>4, <1>5, <1>6 DEF StackInv

\* A call.
LEMMA PushTop ==
  ASSUME StackInv, stack # <<>>, NEW f, Good(f), f.at # Bios, NEW g, Good(g),
         stack' = Append(Resume(f), g), owed' = Append(owed, f.at), UNCHANGED <<code, dispatch>>
  PROVE  StackInv'
<1>1. f \in Frame /\ g \in Frame /\ stack \in Seq(Frame) /\ f.at \in Addresses \cup {Halt}
  BY DEF Good, StackInv, Frame
<1>2. /\ Resume(f) \in Seq(Frame) /\ Len(Resume(f)) = Len(stack)
      /\ \A n \in 1..(Len(stack) - 1) : Resume(f)[n] = stack[n]
      /\ Resume(f)[Len(stack)] = f
      /\ Len(stack) \in Nat /\ Len(stack) > 0
  BY <1>1, ResumeIs
<1>3. /\ stack' \in Seq(Frame) /\ Len(stack') = Len(stack) + 1
      /\ \A n \in 1..Len(stack) : stack'[n] = Resume(f)[n]
      /\ stack'[Len(stack) + 1] = g
  BY <1>1, <1>2, AppendIs
<1>4. /\ \A n \in 1..(Len(stack) - 1) : stack'[n] = stack[n]
      /\ stack'[Len(stack)] = f
  BY <1>2, <1>3
<1>5. ASSUME NEW n \in 1..Len(stack') PROVE Good(stack'[n])
  BY <1>2, <1>3, <1>4 DEF StackInv
<1>6. ASSUME NEW n \in 1..Len(stack') PROVE Good(stack[n])'
  <2>1. PICK h : h = stack'[n]
    OBVIOUS
  <2>2. Good(h)'
    BY <1>5, <2>1, GoodStays
  <2>. QED  BY <2>1, <2>2
<1>7. \A n \in 1..(Len(stack') - 1) : stack'[n].at # Bios
  BY <1>2, <1>3, <1>4 DEF StackInv
<1>8. /\ owed \in Seq(Addresses \cup {Halt}) /\ Len(owed) = Len(stack) /\ owed[1] = Halt
      /\ \A n \in 1..(Len(stack) - 1) : owed[n + 1] = stack[n].at
  BY DEF StackInv, Owed
<1>9. /\ owed' \in Seq(Addresses \cup {Halt}) /\ Len(owed') = Len(owed) + 1
      /\ \A n \in 1..Len(owed) : owed'[n] = owed[n]
      /\ owed'[Len(owed) + 1] = f.at
  BY <1>1, <1>8, AppendIs
<1>10. owed'[1] = Halt
  BY <1>2, <1>8, <1>9
<1>11. \A n \in 1..(Len(stack') - 1) : owed'[n + 1] = stack'[n].at
  BY <1>2, <1>3, <1>4, <1>8, <1>9
<1>12. Owed'
  BY <1>3, <1>8, <1>9, <1>10, <1>11 DEF Owed
<1>. QED  BY <1>3, <1>6, <1>7, <1>12 DEF StackInv

\* A return.
LEMMA PopTop ==
  ASSUME StackInv, stack # <<>>, stack' = Front(stack), Returning, UNCHANGED <<code, dispatch>>
  PROVE  StackInv'
<1>1. stack \in Seq(Frame)
  BY DEF StackInv
<1>2. /\ Len(stack) \in Nat /\ Len(stack) > 0
      /\ stack' \in Seq(Frame) /\ Len(stack') = Len(stack) - 1
      /\ \A n \in 1..(Len(stack) - 1) : stack'[n] = stack[n]
  BY <1>1, FrontIs
<1>3. ASSUME NEW n \in 1..Len(stack') PROVE Good(stack'[n])
  BY <1>2 DEF StackInv
<1>4. ASSUME NEW n \in 1..Len(stack') PROVE Good(stack[n])'
  <2>1. PICK g : g = stack'[n]
    OBVIOUS
  <2>2. Good(g)'
    BY <1>3, <2>1, GoodStays
  <2>. QED  BY <2>1, <2>2
<1>5. \A n \in 1..(Len(stack') - 1) : stack'[n].at # Bios
  BY <1>2 DEF StackInv
<1>6. /\ owed \in Seq(Addresses \cup {Halt}) /\ Len(owed) = Len(stack) /\ owed[1] = Halt
      /\ \A n \in 1..(Len(stack) - 1) : owed[n + 1] = stack[n].at
  BY DEF StackInv, Owed
<1>7. owed # <<>> /\ owed' = Front(owed)
  BY <1>2, <1>6 DEF Returning
<1>8. /\ owed' \in Seq(Addresses \cup {Halt}) /\ Len(owed') = Len(owed) - 1
      /\ \A n \in 1..(Len(owed) - 1) : owed'[n] = owed[n]
  BY <1>6, <1>7, FrontIs
<1>9. ASSUME stack' # <<>> PROVE Len(stack') > 0
  BY <1>2, <1>9
<1>10. stack' # <<>> => owed'[1] = Halt
  BY <1>2, <1>6, <1>8, <1>9
<1>11. \A n \in 1..(Len(stack') - 1) : owed'[n + 1] = stack'[n].at
  BY <1>2, <1>6, <1>8
<1>12. Owed'
  BY <1>2, <1>6, <1>8, <1>10, <1>11 DEF Owed
<1>. QED  BY <1>2, <1>4, <1>5, <1>12 DEF StackInv

\* The stack is not empty, and its top frame is a good one.
LEMMA TopIs ==
  ASSUME StackInv, stack # <<>>
  PROVE  Good(Top) /\ Top \in Frame
<1>1. Len(stack) \in 1..Len(stack)
  BY FrontIs DEF StackInv
<1>. QED  BY <1>1 DEF StackInv, Top, Last, Good

\* What a return goes to is no entry of the kernel.
LEMMA ReturnIs ==
  ASSUME StackInv, stack # <<>>
  PROVE  Last(owed) # Bios
<1>1. stack \in Seq(Frame) /\ Len(stack) \in Nat /\ Len(stack) > 0
  BY FrontIs DEF StackInv
<1>2. /\ Len(owed) = Len(stack) /\ owed[1] = Halt
      /\ \A n \in 1..(Len(stack) - 1) : owed[n + 1] = stack[n].at /\ stack[n].at # Bios
  BY DEF StackInv, Owed
<1>3. CASE Len(stack) = 1
  BY <1>2, <1>3, AddressAssumption DEF Last
<1>4. CASE Len(stack) # 1
  <2>1. PICK k \in Nat : k + 1 = Len(stack) /\ k \in 1..(Len(stack) - 1)
    <3>1. PICK n \in Nat : n = Len(stack)
      BY <1>1
    <3>2. n - 1 \in Nat /\ (n - 1) + 1 = n /\ n - 1 \in 1..(n - 1)
      BY <1>1, <1>4, <3>1
    <3>. QED  BY <3>1, <3>2
  <2>. QED  BY <1>2, <2>1 DEF Last
<1>. QED  BY <1>3, <1>4
----------------------------------------------------------------------------
(* Registers and memory keep their shape. *)

LEMMA SetRegister ==
  ASSUME NEW x, Machine(x), NEW d, NEW v
  PROVE  /\ Machine([x EXCEPT !.r[d] = v])
         /\ \A e \in Regs : e # d => [x EXCEPT !.r[d] = v].r[e] = x.r[e]
         /\ d \in Regs => [x EXCEPT !.r[d] = v].r[d] = v
  BY DEF Machine

LEMMA SetHiLo ==
  ASSUME NEW x, Machine(x), NEW u, NEW v
  PROVE  Machine([x EXCEPT !.r["lo"] = u, !.r["hi"] = v])
  BY DEF Machine

LEMMA SetMemory ==
  ASSUME NEW x, Machine(x), NEW a, NEW v
  PROVE  Machine([x EXCEPT !.mem[a] = v])
  BY DEF Machine

LEMMA ElsewhereMachine ==
  ASSUME NEW i, ~HasResult(i), NEW x, Machine(x)
  PROVE  Machine(Elsewhere(i, x))
<1>1. CASE i.op \in {"mult", "multu"}
  BY <1>1, SetHiLo DEF Elsewhere, Multiplied
<1>2. CASE i.op \in {"div", "divu"}
  BY <1>2, SetHiLo DEF Elsewhere, Divided
<1>3. CASE i.op = "mthi"
  BY <1>3, SetRegister DEF Elsewhere
<1>4. CASE i.op = "mtlo"
  BY <1>4, SetRegister DEF Elsewhere
<1>5. CASE i.op = "sw"
  BY <1>5, SetMemory DEF Elsewhere
<1>. QED  BY <1>1, <1>2, <1>3, <1>4, <1>5 DEF HasResult, MulDiv

LEMMA EmittedMachine ==
  ASSUME NEW i, NEW x, Machine(x)
  PROVE  Machine(Emitted(i, x))
<1>1. CASE i.op \in {"div", "divu"} /\ x.r[i.t] = 0
  <2>1. ~HasResult(i) /\ i.op # "addiu"
    BY <1>1 DEF HasResult, MulDiv
  <2>2. Machine(ZeroDivided(i, x))
    BY SetHiLo DEF ZeroDivided
  <2>. QED  BY <1>1, <2>1, <2>2 DEF Emitted
<1>2. CASE i.op = "addiu" /\ i.s = "zero"
  <2>1. HasResult(i) /\ i.op \notin {"div", "divu"}
    BY <1>2 DEF HasResult, MulDiv
  <2>. QED  BY <1>2, <2>1, SetRegister DEF Emitted
<1>3. CASE ~(i.op = "addiu" /\ i.s = "zero") /\ HasResult(i)
  <2>1. i.op \notin {"div", "divu"}
    BY <1>3 DEF HasResult, MulDiv
  <2>. QED  BY <1>3, <2>1, SetRegister DEF Emitted
<1>4. CASE ~HasResult(i) /\ ~(i.op \in {"div", "divu"} /\ x.r[i.t] = 0)
  <2>1. i.op # "addiu"
    BY <1>4 DEF HasResult, MulDiv
  <2>. QED  BY <1>4, <2>1, ElsewhereMachine DEF Emitted
<1>. QED  BY <1>1, <1>2, <1>3, <1>4

LEMMA RunMachine ==
  ASSUME NEW i, NEW s, Machine(s.m)
  PROVE  Machine(Run(i, s).m)
<1>. DEFINE n == [s.m EXCEPT !.r["zero"] = s.sink]
            after == CASE i.op \in {"div", "divu"} /\ n.r[i.t] = 0 -> n
                       [] HasResult(i) -> IF i.op \in {"lw", "lwl", "lwr"} /\ i.d = "zero" THEN n
                                          ELSE [n EXCEPT !.r[i.d] = CResult(i, n)]
                       [] ~HasResult(i) /\ ~(i.op \in {"div", "divu"} /\ n.r[i.t] = 0) -> Elsewhere(i, n)
<1>1. Machine(n)
  BY SetRegister
<1>2. Machine(after)
  <2>. HIDE DEF n
  <2>1. CASE i.op \in {"div", "divu"} /\ n.r[i.t] = 0
    <3>1. ~HasResult(i)
      BY <2>1 DEF HasResult, MulDiv
    <3>. QED  BY <1>1, <2>1, <3>1
  <2>2. CASE HasResult(i)
    <3>1. i.op \notin {"div", "divu"}
      BY <2>2 DEF HasResult, MulDiv
    <3>. QED  BY <1>1, <2>2, <3>1, SetRegister
  <2>3. CASE ~HasResult(i) /\ ~(i.op \in {"div", "divu"} /\ n.r[i.t] = 0)
    BY <1>1, <2>3, ElsewhereMachine
  <2>. QED  BY <2>1, <2>2, <2>3
<1>3. Run(i, s) = [m |-> [after EXCEPT !.r["zero"] = 0], sink |-> after.r["zero"]]
  BY DEF Run
<1>. HIDE DEF after
<1>4. Run(i, s).m = [after EXCEPT !.r["zero"] = 0]
  BY <1>3
<1>. QED  BY <1>2, <1>4, SetRegister
----------------------------------------------------------------------------
(* The steps of a program that keeps to the conventions. *)

\* Nothing but the dispatch of Init says what is compiled.
LEMMA TranslatedStays ==
  ASSUME Translated, UNCHANGED <<code, dispatch>>
  PROVE  Translated'
  BY DEF Translated

\* What an address in KSEG0 enters.
LEMMA NamedIs ==
  ASSUME NEW a, Named(a)
  PROVE  /\ Callable(a) /\ Kseg0(a) = a
         /\ Entered(a) = (IF a \in dispatch THEN Compiled(a) ELSE IF a = Bios THEN Kernel ELSE Interpreted(a))
<1>1. Kseg0(a) = a
  BY KusegAssumption DEF Named, Kseg0
<1>. QED  BY <1>1 DEF Named, Callable, Entered

\* What call_by_address enters.
LEMMA EnteredGood ==
  ASSUME Translated, NEW a, Named(a)
  PROVE  Good(Entered(a))
<1>1. Bios \notin dispatch /\ dispatch \subseteq Int
  BY StartsAre
<1>2. CASE a \in dispatch
  <2>1. Entered(a) = Compiled(a)
    BY <1>2, NamedIs
  <2>2. Reached(a, a)
    BY <1>2, EntryReached
  <2>. QED  BY <1>1, <1>2, <2>1, <2>2 DEF Compiled, Good, Frame, Addresses
<1>3. CASE a = Bios
  <2>1. Entered(a) = Kernel
    BY <1>1, <1>3, NamedIs
  <2>. QED  BY <2>1 DEF Kernel, Good, Frame, Addresses
<1>4. CASE a \notin dispatch /\ a # Bios
  <2>1. Entered(a) = Interpreted(a)
    BY <1>4, NamedIs
  <2>2. a \in Loaded
    BY <1>4 DEF Named
  <2>. QED  BY <2>1, <2>2 DEF Interpreted, Good, Frame, Addresses
<1>. QED  BY <1>2, <1>3, <1>4

\* A compiled frame at an instruction of its function.
LEMMA CompiledIs ==
  ASSUME Translated, StackInv, InFunction
  PROVE  /\ stack # <<>> /\ Top \in Frame /\ Top.kind = "compiled" /\ Top.fn \in dispatch
         /\ Top.at \in Body(dispatch, Top.fn) /\ Top.at \in Exe /\ Top.at \in Nat
         /\ Reached(Top.fn, Top.at)
         /\ code[Top.at].imm \in Nat
         /\ Top.at + 2 # Bios
<1>1. stack # <<>> /\ Top.kind = "compiled" /\ Top.at \in Body(dispatch, Top.fn)
  BY DEF InFunction, Doing
<1>2. Top \in Frame /\ Top.fn \in dispatch /\ Reached(Top.fn, Top.at)
  BY <1>1, TopIs DEF Good
<1>3. Top.at \in Exe
  BY <1>1, <1>2, StartsAre, EndIs
<1>4. Top.at \in Nat /\ Top.at + 2 \in 0..(ExeEnd + 1)
  BY <1>3, ExeAssumption DEF Exe
<1>5. code[Top.at].imm \in Nat
  <2>1. IsInstruction(code[Top.at])
    BY <1>3 DEF Translated, Loaded
  <2>. QED  BY <2>1, InstructionIs
<1>. QED  BY <1>1, <1>2, <1>3, <1>4, <1>5, AddressAssumption

\* It goes on where the control flow leads.
LEMMA MovedGood ==
  ASSUME Translated, StackInv, InFunction, NEW a \in Int, Reached(Top.fn, a)
  PROVE  Good([Top EXCEPT !.at = a]) /\ [Top EXCEPT !.at = a].at = a
  BY CompiledIs DEF Good, Frame, Addresses

LEMMA SlotMachine ==
  ASSUME Machine(m), NEW p
  PROVE  Machine(DelaySlot(p))
  BY EmittedMachine DEF DelaySlot

LEMMA StatementKept ==
  ASSUME Translated, Kept, kept', Statement
  PROVE  Kept'
<1>. DEFINE p == Top.at
            fn == Top.fn
<1>1. /\ InFunction /\ ~IsControlFlow(code[p]) /\ m' = Emitted(code[p], m)
      /\ NoZero /\ p + 1 # ExeEnd /\ UNCHANGED <<code, dispatch, owed>>
      /\ stack' = IF p + 1 = End(dispatch, fn) => FallsThrough(dispatch, fn)
                  THEN Resume([Top EXCEPT !.at = p + 1]) ELSE Front(stack)
  BY DEF Statement
<1>2. StackInv /\ Machine(m)
  BY DEF Kept
<1>3. /\ stack # <<>> /\ fn \in dispatch /\ p \in Body(dispatch, fn) /\ p \in Nat /\ Reached(fn, p)
  BY <1>1, <1>2, CompiledIs
<1>4. Reached(fn, p + 1) /\ (p + 1 = End(dispatch, fn) => FallsThrough(dispatch, fn))
  BY <1>1, <1>3, StatementReached
<1>5. PICK f : f = [Top EXCEPT !.at = p + 1]
  OBVIOUS
<1>6. Good(f)
  BY <1>1, <1>2, <1>3, <1>4, <1>5, MovedGood
<1>7. StackInv'
  BY <1>1, <1>2, <1>3, <1>4, <1>5, <1>6, ReplaceTop
<1>8. Machine(m)'
  <2>1. Machine(m')
    BY <1>1, <1>2, EmittedMachine
  <2>. QED  BY <2>1 DEF Machine
<1>. QED  BY <1>1, <1>7, <1>8 DEF Kept, NoZero

\* Every branch of a program without branches in delay slots is translated.
LEMMA NothingDropped ==
  ASSUME Translated, Kept, kept', Dropped
  PROVE  FALSE
<1>1. /\ InFunction /\ IsControlFlow(code[Top.at]) /\ ~EndsItsBlock(dispatch, Top.fn, Top.at)
      /\ ~IsControlFlow(code[Top.at + 1])
  BY DEF Dropped, Conventional
<1>2. Top.fn \in dispatch /\ Top.at \in Body(dispatch, Top.fn)
  BY <1>1, CompiledIs DEF Kept
<1>. QED  BY <1>1, <1>2, StartsAre, BranchEndsItsBlock

\* What all jumps of compiled functions have in common.
LEMMA JumpingIs ==
  ASSUME Translated, Kept, NEW ops \in SUBSET (Branches \cup Jumps), Jumping(ops)
  PROVE  /\ StackInv /\ Machine(m) /\ InFunction /\ UNCHANGED <<code, dispatch>>
         /\ stack # <<>> /\ Top \in Frame /\ Top.fn \in dispatch
         /\ Top.at \in Body(dispatch, Top.fn) /\ Top.at \in Nat /\ Top.at + 2 # Bios
         /\ IsControlFlow(code[Top.at]) /\ EndsItsBlock(dispatch, Top.fn, Top.at)
         /\ code[Top.at].op \in ops /\ code[Top.at].imm \in Nat
<1>1. /\ StackInv /\ Machine(m) /\ InFunction /\ UNCHANGED <<code, dispatch>>
      /\ code[Top.at].op \in ops /\ EndsItsBlock(dispatch, Top.fn, Top.at)
  BY DEF Kept, Jumping, Stays
<1>2. IsControlFlow(code[Top.at])
  BY <1>1 DEF IsControlFlow
<1>. QED  BY <1>1, <1>2, CompiledIs

LEMMA BranchKept ==
  ASSUME Translated, Kept, kept', CompiledBranch
  PROVE  Kept'
<1>. DEFINE p == Top.at
            i == code[p]
            t == IF Taken(i, m.r) THEN i.imm ELSE p + 2
<1>1. /\ Jumping(Branches) /\ NoZero /\ owed' = owed
      /\ m' = IF i.op \in Linking THEN [DelaySlot(p) EXCEPT !.r["ra"] = p + 2] ELSE DelaySlot(p)
      /\ stack' = Resume([Top EXCEPT !.at = t])
  BY DEF CompiledBranch, Keeping
<1>2. /\ StackInv /\ Machine(m) /\ InFunction /\ UNCHANGED <<code, dispatch>> /\ stack # <<>>
      /\ Top.fn \in dispatch /\ p \in Body(dispatch, Top.fn) /\ p \in Nat
      /\ IsControlFlow(i) /\ EndsItsBlock(dispatch, Top.fn, p) /\ i.op \in Branches /\ i.imm \in Nat
  BY <1>1, JumpingIs
<1>3. Reached(Top.fn, i.imm) /\ Reached(Top.fn, p + 2)
  <2>1. i.op \in Branches \cup {"j"} /\ i.op \in Branches \cup {"jal", "jalr"}
    BY <1>2
  <2>. QED  BY <1>2, <2>1, JumpReached
<1>4. t \in Int /\ Reached(Top.fn, t)
  BY <1>2, <1>3
<1>5. PICK f : f = [Top EXCEPT !.at = t]
  OBVIOUS
<1>. HIDE DEF t
<1>6. Good(f)
  BY <1>2, <1>4, <1>5, MovedGood
<1>7. StackInv'
  BY <1>1, <1>2, <1>5, <1>6, ReplaceTop
<1>8. Machine(m)'
  <2>1. Machine(m')
    BY <1>1, <1>2, SlotMachine, SetRegister
  <2>. QED  BY <2>1 DEF Machine
<1>. QED  BY <1>1, <1>7, <1>8 DEF Kept, NoZero

LEMMA JumpKept ==
  ASSUME Translated, Kept, kept', CompiledJump
  PROVE  Kept'
<1>. DEFINE p == Top.at
<1>1. /\ Jumping({"j"}) /\ NoZero /\ owed' = owed /\ m' = DelaySlot(p)
      /\ stack' = Resume([Top EXCEPT !.at = code[p].imm])
  BY DEF CompiledJump, Keeping
<1>2. /\ StackInv /\ Machine(m) /\ InFunction /\ UNCHANGED <<code, dispatch>> /\ stack # <<>>
      /\ Top.fn \in dispatch /\ p \in Body(dispatch, Top.fn) /\ p \in Nat
      /\ IsControlFlow(code[p]) /\ EndsItsBlock(dispatch, Top.fn, p) /\ code[p].op = "j"
      /\ code[p].imm \in Nat
  BY <1>1, JumpingIs DEF Jumps
<1>3. Reached(Top.fn, code[p].imm)
  BY <1>2, JumpReached
<1>4. PICK f : f = [Top EXCEPT !.at = code[p].imm]
  OBVIOUS
<1>5. Good(f)
  BY <1>2, <1>3, <1>4, MovedGood
<1>6. StackInv'
  BY <1>1, <1>2, <1>4, <1>5, ReplaceTop
<1>7. Machine(m)'
  <2>1. Machine(m')
    BY <1>1, <1>2, SlotMachine
  <2>. QED  BY <2>1 DEF Machine
<1>. QED  BY <1>1, <1>6, <1>7 DEF Kept, NoZero

LEMMA ReturnKept ==
  ASSUME Translated, Kept, kept', CompiledReturn
  PROVE  Kept'
<1>1. /\ Jumping({"jr"}) /\ NoZero /\ Returning /\ m' = DelaySlot(Top.at) /\ stack' = Front(stack)
  BY DEF CompiledReturn, Keeping
<1>2. StackInv /\ Machine(m) /\ UNCHANGED <<code, dispatch>> /\ stack # <<>>
  BY <1>1, JumpingIs DEF Jumps
<1>3. StackInv'
  BY <1>1, <1>2, PopTop
<1>4. Machine(m)'
  <2>1. Machine(m')
    BY <1>1, <1>2, SlotMachine
  <2>. QED  BY <2>1 DEF Machine
<1>. QED  BY <1>1, <1>3, <1>4 DEF Kept, NoZero

\* Both kinds of call go on behind the delay slot.
LEMMA CallPushes ==
  ASSUME Translated, Kept, Jumping({"jal"}) \/ Jumping({"jalr"}), NEW a, Named(a),
         stack' = CallFrom([Top EXCEPT !.at = @ + 2], a), Owing(Top.at + 2)
  PROVE  StackInv'
<1>. DEFINE p == Top.at
<1>1. /\ StackInv /\ InFunction /\ UNCHANGED <<code, dispatch>> /\ stack # <<>>
      /\ Top.fn \in dispatch /\ p \in Body(dispatch, Top.fn) /\ p \in Nat /\ p + 2 # Bios
      /\ IsControlFlow(code[p]) /\ EndsItsBlock(dispatch, Top.fn, p) /\ code[p].op \in {"jal", "jalr"}
  BY JumpingIs DEF Jumps
<1>2. Reached(Top.fn, p + 2)
  BY <1>1, JumpReached
<1>3. PICK f : f = [Top EXCEPT !.at = p + 2]
  OBVIOUS
<1>4. Good(f) /\ f.at = p + 2
  <2>1. p + 2 \in Int
    BY <1>1
  <2>. QED  BY <1>1, <1>2, <1>3, <2>1, MovedGood
<1>5. PICK g : g = Entered(a)
  OBVIOUS
<1>6. Good(g)
  BY <1>5, EnteredGood
<1>7. stack' = Append(Resume(f), g)
  BY <1>3, <1>5, NamedIs DEF CallFrom
<1>8. owed' = Append(owed, f.at)
  BY <1>4 DEF Owing
<1>. QED  BY <1>1, <1>4, <1>6, <1>7, <1>8, PushTop

LEMMA CallKept ==
  ASSUME Translated, Kept, kept', CompiledCall
  PROVE  Kept'
<1>1. /\ Jumping({"jal"}) /\ NoZero /\ Owing(Top.at + 2) /\ Named(code[Top.at].imm)
      /\ m' = [DelaySlot(Top.at) EXCEPT !.r["ra"] = Top.at + 2]
      /\ stack' = CallFrom([Top EXCEPT !.at = @ + 2], code[Top.at].imm)
  BY DEF CompiledCall, Keeping
<1>2. PICK a : a = code[Top.at].imm
  OBVIOUS
<1>3. StackInv'
  BY <1>1, <1>2, CallPushes
<1>4. Machine(m)'
  <2>1. Machine(m')
    BY <1>1, SlotMachine, SetRegister DEF Kept
  <2>. QED  BY <2>1 DEF Machine
<1>. QED  BY <1>1, <1>3, <1>4 DEF Kept, NoZero

LEMMA CallRegisterKept ==
  ASSUME Translated, Kept, kept', CompiledCallRegister
  PROVE  Kept'
<1>1. PICK a : a = m'.r[code[Top.at].s]
  OBVIOUS
<1>2. /\ Jumping({"jalr"}) /\ NoZero /\ Owing(Top.at + 2) /\ Named(a)
      /\ m' = [DelaySlot(Top.at) EXCEPT !.r[code[Top.at].d] = Top.at + 2]
      /\ stack' = CallFrom([Top EXCEPT !.at = @ + 2], a)
  BY <1>1 DEF CompiledCallRegister, Keeping
<1>3. StackInv'
  BY <1>2, CallPushes
<1>4. Machine(m)'
  <2>1. Machine(m')
    BY <1>2, SlotMachine, SetRegister DEF Kept
  <2>. QED  BY <2>1 DEF Machine
<1>. QED  BY <1>2, <1>3, <1>4 DEF Kept, NoZero

\* A jump that no function of the caller's contains ends the caller.
LEMMA TailKept ==
  ASSUME Translated, StackInv, stack # <<>>, NEW a, Named(a), stack' = TailCall(a),
         UNCHANGED <<code, dispatch, owed>>
  PROVE  StackInv'
<1>1. PICK g : g = Entered(a)
  OBVIOUS
<1>2. Good(g)
  BY <1>1, EnteredGood
<1>3. stack' = Resume(g)
  BY <1>1, NamedIs DEF TailCall
<1>. QED  BY <1>2, <1>3, ReplaceTop

LEMMA JumpRegisterKept ==
  ASSUME Translated, Kept, kept', CompiledJumpRegister
  PROVE  Kept'
<1>1. PICK a : a = m'.r[code[Top.at].s]
  OBVIOUS
<1>2. /\ Jumping({"jr"}) /\ NoZero /\ owed' = owed /\ Named(a)
      /\ m' = DelaySlot(Top.at) /\ stack' = TailCall(a)
  BY <1>1 DEF CompiledJumpRegister, Keeping
<1>3. StackInv /\ Machine(m) /\ UNCHANGED <<code, dispatch>> /\ stack # <<>>
  BY <1>2, JumpingIs DEF Jumps
<1>4. StackInv'
  BY <1>2, <1>3, TailKept
<1>5. Machine(m)'
  <2>1. Machine(m')
    BY <1>2, <1>3, SlotMachine
  <2>. QED  BY <2>1 DEF Machine
<1>. QED  BY <1>2, <1>4, <1>5 DEF Kept, NoZero

LEMMA OtherPieceKept ==
  ASSUME Translated, Kept, kept', ToOtherPiece
  PROVE  Kept'
<1>1. PICK a : a = Top.at
  OBVIOUS
<1>2. stack # <<>> /\ stack' = TailCall(a) /\ Named(a) /\ m' = m /\ UNCHANGED <<code, dispatch, owed>>
  BY <1>1 DEF ToOtherPiece, Doing
<1>3. StackInv'
  BY <1>2, TailKept DEF Kept
<1>. QED  BY <1>2, <1>3 DEF Kept, Machine

LEMMA KernelKept ==
  ASSUME Kept, kept', KernelCall
  PROVE  Kept'
<1>1. /\ stack # <<>> /\ stack' = Front(stack) /\ Returning /\ UNCHANGED <<code, dispatch>>
      /\ m' = [m EXCEPT !.r["a"] = 1]
  BY DEF KernelCall, Doing, Stays
<1>2. StackInv'
  BY <1>1, PopTop DEF Kept
<1>3. Machine(m') /\ m'.r["zero"] = 0
  <2>1. "zero" \in Regs /\ "zero" # "a" /\ Machine(m) /\ m.r["zero"] = 0
    BY DEF Kept, Regs, General
  <2>2. Machine([m EXCEPT !.r["a"] = 1])
    BY <2>1, SetRegister
  <2>3. [m EXCEPT !.r["a"] = 1].r["zero"] = m.r["zero"]
    BY <2>1, SetRegister
  <2>. QED  BY <1>1, <2>1, <2>2, <2>3
<1>. QED  BY <1>2, <1>3 DEF Kept, Machine

\* A function that takes its frame down behind a jump has left them.
LEMMA NothingLeaves ==
  ASSUME Kept, Leave
  PROVE  FALSE
<1>1. stack # <<>> /\ Top.kind = "leaving"
  BY DEF Leave, Doing
<1>2. Top \in Frame
  BY <1>1, TopIs DEF Kept
<1>. QED  BY <1>1, <1>2 DEF Frame
----------------------------------------------------------------------------
(* The interpreter. *)

\* Whatever frame comes to the place of the top one, NoZero sees its sink.
LEMMA SinkIsZero ==
  ASSUME stack \in Seq(Frame), stack # <<>>, NoZero, NEW f, NEW g,
         stack' = Resume(f) \/ stack' = Append(Resume(f), g)
  PROVE  f.sink = 0
<1>. DEFINE S == Frame \cup {f, g}
<1>1. /\ Len(stack) \in Nat /\ Len(stack) > 0
      /\ Front(stack) \in Seq(Frame) /\ Len(Front(stack)) = Len(stack) - 1
  BY FrontIs
<1>2. Front(stack) \in Seq(S) /\ f \in S /\ g \in S
  <2>1. Seq(Frame) \subseteq Seq(S)
    OBVIOUS
  <2>. QED  BY <1>1, <2>1
<1>. HIDE DEF S
<1>3. Resume(f) \in Seq(S) /\ Len(Resume(f)) = Len(stack) /\ Resume(f)[Len(stack)] = f
  BY <1>1, <1>2, AppendIs DEF Resume
<1>4. /\ Append(Resume(f), g) \in Seq(S) /\ Len(Append(Resume(f), g)) = Len(stack) + 1
      /\ Append(Resume(f), g)[Len(stack)] = f
  <2>1. /\ Append(Resume(f), g) \in Seq(S) /\ Len(Append(Resume(f), g)) = Len(Resume(f)) + 1
        /\ \A n \in 1..Len(Resume(f)) : Append(Resume(f), g)[n] = Resume(f)[n]
    BY <1>2, <1>3, AppendIs
  <2>. QED  BY <1>1, <1>3, <2>1
<1>5. Len(stack) \in DOMAIN stack' /\ stack'[Len(stack)] = f
  BY <1>1, <1>3, <1>4
<1>. QED  BY <1>5 DEF NoZero

\* The kernel's entries are no loaded code.
LEMMA BiosIsApart == Bios \notin Loaded
<1>1. Exe \subseteq 0..(ExeEnd + 1)
  BY ExeAssumption DEF Exe
<1>. QED  BY <1>1, AddressAssumption DEF Loaded

\* An activation of the interpreter at an instruction.
LEMMA InterpretedIs ==
  ASSUME Translated, Kept, Interpreting
  PROVE  /\ StackInv /\ Machine(m) /\ m.r["zero"] = 0 /\ stack # <<>> /\ stack \in Seq(Frame)
         /\ UNCHANGED <<code, dispatch>>
         /\ Top \in Frame /\ Top.kind = "interpreted" /\ Top.at \in Loaded /\ Top.sink = 0
         /\ code[Top.at].s \in Regs
<1>1. StackInv /\ Machine(m) /\ m.r["zero"] = 0 /\ stack # <<>> /\ stack \in Seq(Frame)
      /\ Top.kind = "interpreted" /\ UNCHANGED <<code, dispatch>>
  BY DEF Kept, StackInv, Interpreting, Doing, Stays
<1>2. Top \in Frame /\ Top.at \in Loaded
  BY <1>1, TopIs DEF Good
<1>3. code[Top.at].s \in Regs
  <2>1. IsInstruction(code[Top.at])
    BY <1>2 DEF Translated
  <2>. QED  BY <2>1, InstructionIs
<1>. QED  BY <1>1, <1>2, <1>3 DEF Frame

LEMMA AdvancedGood ==
  ASSUME Top \in Frame, Top.kind = "interpreted", NEW a \in Loaded, NEW b
  PROVE  /\ Good(Advanced(a, 0)) /\ Advanced(a, 0).at = a
         /\ Good([Advanced(b, 0) EXCEPT !.at = a])
<1>1. Top.guard + 1 \in Nat
  BY DEF Frame
<1>. QED  BY <1>1 DEF Advanced, Good, Frame, Addresses

LEMMA PlainKept ==
  ASSUME Translated, Kept, kept', InterpretPlain
  PROVE  Kept'
<1>. DEFINE s == Run(code[Top.at], Here)
<1>1. /\ Interpreting /\ m' = s.m /\ stack' = Resume(Advanced(Top.at + 1, s.sink))
      /\ NoZero /\ Top.at + 1 \in Loaded /\ owed' = owed
  BY DEF InterpretPlain
<1>2. /\ StackInv /\ Machine(m) /\ stack # <<>> /\ stack \in Seq(Frame) /\ UNCHANGED <<code, dispatch>>
      /\ Top \in Frame /\ Top.kind = "interpreted"
  BY <1>1, InterpretedIs
<1>. HIDE DEF s
<1>3. PICK f : f = Advanced(Top.at + 1, s.sink)
  OBVIOUS
<1>4. f.sink = 0
  BY <1>1, <1>2, <1>3, SinkIsZero
<1>5. s.sink = 0
  BY <1>2, <1>3, <1>4 DEF Advanced, Frame
<1>6. Good(f)
  BY <1>1, <1>2, <1>3, <1>5, AdvancedGood
<1>7. StackInv'
  BY <1>1, <1>2, <1>3, <1>6, ReplaceTop
<1>8. Machine(m)'
  <2>1. Machine(Here.m)
    BY <1>2 DEF Here
  <2>2. Machine(m')
    BY <1>1, <2>1, RunMachine DEF s
  <2>. QED  BY <2>2 DEF Machine
<1>. QED  BY <1>1, <1>7, <1>8 DEF Kept, NoZero

\* Before the delay slot the link is all that is written.
LEMMA WrittenIs ==
  ASSUME Machine(m), m.r["zero"] = 0, Top.sink = 0, NEW i, i.op \in Linking => Link(i) # "zero"
  PROVE  /\ Machine(Written(i).m) /\ Written(i).sink = 0
         /\ \A e \in Regs : (i.op \in Linking => e # Link(i)) => Written(i).m.r[e] = m.r[e]
<1>1. CASE i.op \notin Linking
  <2>1. Written(i) = [m |-> m, sink |-> 0]
    BY <1>1 DEF Written, LinkSet, Here
  <2>. QED  BY <1>1, <2>1
<1>2. CASE i.op \in Linking
  <2>. DEFINE x == [m EXCEPT !.r["zero"] = 0]
              n == [x EXCEPT !.r[Link(i)] = Top.at + 2]
              y == [n EXCEPT !.r["zero"] = 0]
  <2>1. "zero" \in Regs
    BY DEF Regs, General
  <2>2. Machine(x) /\ \A e \in Regs : x.r[e] = m.r[e]
    BY <2>1, SetRegister
  <2>3. Machine(n) /\ (\A e \in Regs : e # Link(i) => n.r[e] = x.r[e])
    <3>. HIDE DEF x
    <3>. QED  BY <2>2, SetRegister
  <2>4. Machine(y) /\ (\A e \in Regs : e # "zero" => y.r[e] = n.r[e]) /\ y.r["zero"] = 0
    <3>. HIDE DEF n
    <3>1. Machine(n) /\ "zero" \in Regs
      BY <2>1, <2>3
    <3>2. Machine(y)
      BY <3>1, SetRegister
    <3>3. y.r["zero"] = 0
      BY <3>1 DEF Machine
    <3>4. \A e \in Regs : e # "zero" => y.r[e] = n.r[e]
      BY <3>1, SetRegister
    <3>. QED  BY <3>2, <3>3, <3>4
  <2>5. [m EXCEPT !.r["zero"] = Top.sink, !.r[Link(i)] = Top.at + 2] = n
    BY DEF Machine
  <2>6. Written(i).m = y /\ Written(i).sink = n.r["zero"]
    BY <1>2, <2>5 DEF Written, LinkSet, Here
  <2>. HIDE DEF x, n, y
  <2>. QED  BY <1>2, <2>1, <2>2, <2>3, <2>4, <2>6
<1>. QED  BY <1>1, <1>2

\* The registers a jump reads are those of the program.
LEMMA JumpReads ==
  ASSUME Machine(m), m.r["zero"] = 0, Top.sink = 0, NEW i, i.s \in Regs,
         i.op \in Linking => Link(i) \notin {i.s, "zero"}
  PROVE  [Written(i).m.r EXCEPT !["zero"] = Written(i).sink][i.s] = m.r[i.s]
<1>1. /\ Machine(Written(i).m) /\ Written(i).sink = 0 /\ Written(i).m.r[i.s] = m.r[i.s]
  BY WrittenIs
<1>. QED  BY <1>1 DEF Machine

\* is_link is set for the calls of the program, and for no others.
LEMMA CallsAreCalls ==
  ASSUME Machine(m), m.r["zero"] = 0, Top.sink = 0, NEW i, i.s \in Regs,
         i.op \in Linking => Link(i) \notin {i.s, "zero"}
  PROVE  IsCall(i) <=> ProgramCalls(i)
<1>1. CASE i.op \in Linking /\ i.op \in Branches
  <2>. DEFINE x == [Written(i).m.r EXCEPT !["zero"] = Written(i).sink]
  <2>1. x[i.s] = m.r[i.s]
    BY JumpReads
  <2>2. GoesTo(i) = IF Taken(i, x) THEN i.imm ELSE Top.at + 2
    BY <1>1 DEF GoesTo, NextPc, Branches
  <2>3. i.op = "bltzal" \/ i.op = "bgezal"
    BY <1>1 DEF Linking, Branches
  <2>. HIDE DEF x
  <2>4. Taken(i, x) <=> Taken(i, m.r)
    BY <2>1, <2>3 DEF Taken
  <2>. QED  BY <1>1, <2>2, <2>4 DEF IsCall, ProgramCalls
<1>2. CASE ~(i.op \in Linking /\ i.op \in Branches)
  BY <1>2 DEF IsCall, ProgramCalls
<1>. QED  BY <1>1, <1>2

\* jr $ra goes to the address in ra.
LEMMA ReturnGoes ==
  ASSUME Machine(m), m.r["zero"] = 0, Top.sink = 0, NEW i, IsReturn(i)
  PROVE  GoesTo(i) = m.r["ra"] /\ ~IsCall(i) /\ ~ProgramCalls(i)
<1>1. i.op = "jr" /\ i.s = "ra" /\ i.op \notin Linking /\ i.s \in Regs /\ i.op \notin Branches
  BY DEF IsReturn, Linking, Regs, General, Branches
<1>2. [Written(i).m.r EXCEPT !["zero"] = Written(i).sink][i.s] = m.r[i.s]
  BY <1>1, JumpReads
<1>. QED  BY <1>1, <1>2 DEF GoesTo, NextPc, IsCall, ProgramCalls

LEMMA InterpretJumpKept ==
  ASSUME Translated, Kept, kept', InterpretJump
  PROVE  Kept'
<1>. DEFINE p == Top.at
            i == code[p]
            next == Advanced(p + 2, Slot(i).sink)
<1>1. PICK a : a = GoesTo(i)
  OBVIOUS
<1>2. /\ Interpreting /\ IsControlFlow(i) /\ m' = Slot(i).m
      /\ IF ProgramCalls(i) THEN Owing(p + 2) ELSE IF IsReturn(i) THEN Returning ELSE owed' = owed
      /\ Conventional(i, code[p + 1]) /\ NoZero /\ Plausible(a)
      /\ IF IsReturn(i) THEN ReturnsHome ELSE Named(a)
      /\ IsCall(i) => p + 2 \in Loaded
  BY <1>1 DEF InterpretJump
<1>3. \/ /\ ~Plausible(a)
         /\ stack' = IF IsCall(i) THEN Resume(next) ELSE Front(stack)
      \/ /\ Plausible(a) /\ IsReturn(i) /\ a # Bios
         /\ stack' = Front(stack)
      \/ /\ Plausible(a) /\ IsCall(i)
         /\ stack' = CallFrom(next, a)
      \/ /\ Plausible(a) /\ ~IsCall(i) /\ (IsReturn(i) => a = Bios)
         /\ stack' = IF a = Bios \/ (a # p + 2 /\ a \in dispatch) THEN TailCall(a)
                     ELSE Resume([next EXCEPT !.at = a])
  BY <1>1 DEF InterpretJump
<1>4. /\ StackInv /\ Machine(m) /\ m.r["zero"] = 0 /\ stack # <<>> /\ stack \in Seq(Frame)
      /\ UNCHANGED <<code, dispatch>>
      /\ Top \in Frame /\ Top.kind = "interpreted" /\ p \in Loaded /\ Top.sink = 0
      /\ i.s \in Regs
  BY <1>2, InterpretedIs
<1>5. ~IsControlFlow(code[p + 1]) /\ (i.op \in Linking => Link(i) \notin {i.s, "zero"})
  BY <1>2 DEF Conventional
<1>6. IsCall(i) <=> ProgramCalls(i)
  BY <1>4, <1>5, CallsAreCalls
<1>7. ASSUME IsReturn(i) PROVE a # Bios /\ ~ProgramCalls(i)
  <2>1. a = m.r["ra"] /\ ~ProgramCalls(i)
    BY <1>1, <1>4, <1>7, ReturnGoes
  <2>2. m.r["ra"] = Last(owed)
    BY <1>2, <1>7 DEF ReturnsHome
  <2>. QED  BY <1>4, <2>1, <2>2, ReturnIs
<1>8. Machine(m)'
  <2>1. Machine(Written(i).m)
    BY <1>4, <1>5, WrittenIs
  <2>2. Slot(i) = Run(code[p + 1], Written(i))
    BY <1>5 DEF Slot
  <2>3. Machine(m')
    BY <1>2, <2>1, <2>2, RunMachine
  <2>. QED  BY <2>3 DEF Machine
<1>9. PICK k : k = Slot(i).sink
  OBVIOUS
<1>10. PICK f : f = Advanced(p + 2, k)
  OBVIOUS
<1>11. next = f /\ f.sink = k
  BY <1>4, <1>9, <1>10 DEF Advanced, Frame
<1>. HIDE DEF i, next
\* A return to the caller.
<1>12. ASSUME IsReturn(i) PROVE StackInv'
  <2>1. stack' = Front(stack) /\ Returning
    BY <1>2, <1>3, <1>6, <1>7, <1>12
  <2>. QED  BY <1>4, <2>1, PopTop
\* A call: the frame goes on behind the delay slot.
<1>13. ASSUME IsCall(i) PROVE StackInv'
  <2>1. ~IsReturn(i) /\ Named(a) /\ p + 2 \in Loaded /\ owed' = Append(owed, p + 2)
    BY <1>2, <1>6, <1>7, <1>13 DEF Owing
  <2>2. PICK g : g = Entered(a)
    OBVIOUS
  <2>3. stack' = Append(Resume(f), g)
    BY <1>2, <1>3, <1>11, <1>13, <2>1, <2>2, NamedIs DEF CallFrom
  <2>4. k = 0
    BY <1>2, <1>4, <1>11, <2>3, SinkIsZero
  <2>5. Good(f) /\ f.at = p + 2
    BY <1>4, <1>10, <2>1, <2>4, AdvancedGood
  <2>6. f.at # Bios /\ Good(g) /\ owed' = Append(owed, f.at)
    BY <2>1, <2>2, <2>5, EnteredGood, BiosIsApart
  <2>. QED  BY <1>4, <2>3, <2>5, <2>6, PushTop
\* A jump, into compiled code or the kernel a tail call.
<1>14. ASSUME ~IsReturn(i) /\ ~IsCall(i) PROVE StackInv'
  <2>1. /\ Named(a) /\ owed' = owed
        /\ stack' = IF a = Bios \/ (a # p + 2 /\ a \in dispatch) THEN TailCall(a)
                    ELSE Resume([next EXCEPT !.at = a])
    BY <1>2, <1>3, <1>6, <1>14
  <2>2. CASE a = Bios \/ (a # p + 2 /\ a \in dispatch)
    BY <1>4, <2>1, <2>2, TailKept
  <2>3. CASE ~(a = Bios \/ (a # p + 2 /\ a \in dispatch))
    <3>1. a \in Loaded
      BY <2>1, <2>3 DEF Named
    <3>2. PICK g : g = [f EXCEPT !.at = a]
      OBVIOUS
    <3>3. stack' = Resume(g)
      BY <1>11, <2>1, <2>3, <3>2
    <3>4. g.sink = k
      BY <1>4, <1>10, <3>2 DEF Advanced, Frame
    <3>5. k = 0
      BY <1>2, <1>4, <3>3, <3>4, SinkIsZero
    <3>6. Good(g)
      BY <1>4, <1>10, <3>1, <3>2, <3>5, AdvancedGood
    <3>. QED  BY <1>4, <2>1, <3>3, <3>6, ReplaceTop
  <2>. QED  BY <2>2, <2>3
<1>15. StackInv'
  BY <1>12, <1>13, <1>14
<1>. QED  BY <1>2, <1>8, <1>15 DEF Kept, NoZero
----------------------------------------------------------------------------
\* What FunctionStarts finds are addresses up to the end of the executable.
LEMMA FunctionStartsAre ==
  ASSUME \A a \in Exe : code[a].imm \in Nat
  PROVE  FunctionStarts \subseteq 0..ExeEnd /\ 0 \in FunctionStarts
<1>1. ASSUME NEW ret \in Exe PROVE FunctionStart(ret) \in 0..ExeEnd
  <2>. DEFINE first == IF ret < MaxSearch THEN 0 ELSE ret - MaxSearch
              Starts(p) == IsPrologue(code[p]) /\ (p = 0 \/ ~IsControlFlow(code[p - 1]))
              stops == {p \in first..(ret - 1) : Starts(p) \/ IsReturn(code[p])}
  <2>1. ret \in Nat /\ ret < ExeEnd /\ ExeEnd \in Nat /\ first \in 0..ExeEnd
    BY ExeAssumption, SearchAssumption DEF Exe
  <2>2. stops \subseteq 0..(ret - 1)
    BY <2>1
  <2>3. FunctionStart(ret) = IF stops = {} THEN first
                             ELSE IF IsReturn(code[Max(stops)]) THEN Max(stops) + 2 ELSE Max(stops)
    BY DEF FunctionStart
  <2>. HIDE DEF first, stops
  <2>4. CASE stops = {}
    BY <2>1, <2>3, <2>4
  <2>5. CASE stops # {}
    <3>1. \A y \in 0..(ret - 1) : y \in Nat /\ y <= ret
      BY <2>1
    <3>2. stops \in SUBSET Nat /\ \A y \in stops : y <= ret
      BY <2>2, <3>1
    <3>3. Max(stops) \in stops
      BY <2>1, <2>5, <3>2, MaxIs
    <3>4. Max(stops) \in 0..(ret - 1)
      BY <2>2, <3>3
    <3>5. Max(stops) \in 0..ExeEnd /\ Max(stops) + 2 \in 0..ExeEnd
      BY <2>1, <3>4
    <3>. QED  BY <2>3, <2>5, <3>5
  <2>. QED  BY <2>4, <2>5
<1>2. Exe \subseteq 0..ExeEnd /\ Forced \subseteq Exe
  BY ExeAssumption DEF Exe
<1>. QED  BY <1>1, <1>2, EntryAssumption DEF FunctionStarts

\* The first function is on the stack, and owes the return to Halt.
LEMMA CallInit == Init => CallInv
<1>. SUFFICES ASSUME Init PROVE CallInv
  OBVIOUS
<1>1. PICK g \in Games : code = g.code /\ m = g.m
  BY DEF Init
<1>2. /\ DOMAIN code = Loaded /\ \A a \in Loaded : IsInstruction(code[a])
      /\ m \in Machines /\ m.r["zero"] = 0
  BY <1>1, GamesAssumption
<1>3. Translated
  <2>1. \A a \in Exe : code[a].imm \in Nat
    BY <1>2, InstructionIs DEF Loaded
  <2>2. dispatch \subseteq 0..ExeEnd
    BY <2>1, FunctionStartsAre DEF Init
  <2>. QED  BY <1>2, <2>2 DEF Translated
<1>4. Machine(m)
  BY <1>2 DEF Machine, Machines
<1>5. stack = <<Compiled(0)>> /\ owed = <<Halt>>
  BY DEF Init
<1>6. Good(Compiled(0))
  <2>1. 0 \in dispatch
    <3>1. \A a \in Exe : code[a].imm \in Nat
      BY <1>2, InstructionIs DEF Loaded
    <3>. QED  BY <3>1, FunctionStartsAre DEF Init
  <2>2. Reached(0, 0)
    BY <1>3, <2>1, EntryReached
  <2>. QED  BY <2>1, <2>2 DEF Compiled, Good, Frame, Addresses
<1>7. StackInv
  <2>1. PICK f : f = Compiled(0)
    OBVIOUS
  <2>2. f \in Frame /\ stack = <<f>> /\ Good(f)
    BY <1>5, <1>6, <2>1 DEF Good
  <2>3. stack \in Seq(Frame) /\ Len(stack) = 1 /\ stack[1] = f
    BY <2>2
  <2>4. owed \in Seq(Addresses \cup {Halt}) /\ Len(owed) = 1 /\ owed[1] = Halt
    BY <1>5
  <2>5. Owed
    BY <2>3, <2>4 DEF Owed
  <2>. QED  BY <2>2, <2>3, <2>5 DEF StackInv
<1>. QED  BY <1>2, <1>3, <1>4, <1>7 DEF CallInv, Kept, Init

\* Once the conventions are broken they stay broken.
LEMMA KeptBefore ==
  ASSUME Next, kept \in BOOLEAN
  PROVE  kept' \in BOOLEAN /\ (kept' => kept)
<1>1. CASE Statement
  BY <1>1 DEF Statement
<1>2. CASE Dropped
  BY <1>2 DEF Dropped
<1>3. CASE CompiledBranch
  BY <1>3 DEF CompiledBranch, Keeping
<1>4. CASE CompiledJump
  BY <1>4 DEF CompiledJump, Keeping
<1>5. CASE CompiledReturn
  BY <1>5 DEF CompiledReturn, Keeping
<1>6. CASE CompiledCall
  BY <1>6 DEF CompiledCall, Keeping
<1>7. CASE CompiledCallRegister
  BY <1>7 DEF CompiledCallRegister, Keeping
<1>8. CASE CompiledJumpRegister
  BY <1>8 DEF CompiledJumpRegister, Keeping
<1>9. CASE Leave
  BY <1>9 DEF Leave
<1>10. CASE ToOtherPiece
  BY <1>10 DEF ToOtherPiece
<1>11. CASE KernelCall
  BY <1>11 DEF KernelCall
<1>12. CASE InterpretPlain
  BY <1>12 DEF InterpretPlain
<1>13. CASE InterpretJump
  BY <1>13 DEF InterpretJump
<1>14. CASE GuardHit
  BY <1>14 DEF GuardHit
<1>15. CASE Halted
  BY <1>15 DEF Halted, vars
<1>. QED  BY <1>1, <1>2, <1>3, <1>4, <1>5, <1>6, <1>7, <1>8, <1>9, <1>10, <1>11, <1>12,
            <1>13, <1>14, <1>15 DEF Next

\* The code and the compiled functions are what they were made.
LEMMA ProgramStays ==
  ASSUME Next
  PROVE  UNCHANGED <<code, dispatch>>
  BY DEF Next, Statement, Dropped, CompiledBranch, CompiledJump, CompiledReturn, CompiledCall,
         CompiledCallRegister, CompiledJumpRegister, Leave, ToOtherPiece, KernelCall, InterpretPlain,
         InterpretJump, GuardHit, Halted, Jumping, Interpreting, Stays, vars

\* Nothing happens: the state is as good as it was.
LEMMA NothingMoves ==
  ASSUME UNCHANGED vars, Kept
  PROVE  Kept'
<1>1. /\ code' = code /\ dispatch' = dispatch /\ m' = m /\ stack' = stack /\ owed' = owed
  BY DEF vars
<1>2. \A n \in 1..Len(stack) : Good(stack[n])'
  BY <1>1, GoodStays DEF Kept, StackInv
<1>3. StackInv'
  <2>1. Owed'
    BY <1>1 DEF Kept, StackInv, Owed
  <2>2. \A n \in 1..Len(stack') : Good(stack[n])'
    BY <1>1, <1>2
  <2>. QED  BY <1>1, <2>1, <2>2 DEF Kept, StackInv
<1>. QED  BY <1>1, <1>3 DEF Kept, Machine

\* A step of a program that keeps to the conventions.
LEMMA KeptStep ==
  ASSUME Translated, Kept, kept', Next
  PROVE  Kept'
<1>1. CASE Statement
  BY <1>1, StatementKept
<1>2. CASE Dropped
  BY <1>2, NothingDropped
<1>3. CASE CompiledBranch
  BY <1>3, BranchKept
<1>4. CASE CompiledJump
  BY <1>4, JumpKept
<1>5. CASE CompiledReturn
  BY <1>5, ReturnKept
<1>6. CASE CompiledCall
  BY <1>6, CallKept
<1>7. CASE CompiledCallRegister
  BY <1>7, CallRegisterKept
<1>8. CASE CompiledJumpRegister
  BY <1>8, JumpRegisterKept
<1>9. CASE Leave
  BY <1>9, NothingLeaves
<1>10. CASE ToOtherPiece
  BY <1>10, OtherPieceKept
<1>11. CASE KernelCall
  BY <1>11, KernelKept
<1>12. CASE InterpretPlain
  BY <1>12, PlainKept
<1>13. CASE InterpretJump
  BY <1>13, InterpretJumpKept
<1>14. CASE GuardHit
  BY <1>14 DEF GuardHit
<1>15. CASE Halted
  BY <1>15, NothingMoves DEF Halted
<1>. QED  BY <1>1, <1>2, <1>3, <1>4, <1>5, <1>6, <1>7, <1>8, <1>9, <1>10, <1>11, <1>12,
            <1>13, <1>14, <1>15 DEF Next

LEMMA CallStep == CallInv /\ [Next]_vars => CallInv'
<1>. SUFFICES ASSUME CallInv, [Next]_vars PROVE CallInv'
  OBVIOUS
<1>1. CASE UNCHANGED vars
  <2>1. UNCHANGED <<code, dispatch, kept>>
    BY <1>1 DEF vars
  <2>2. Kept => Kept'
    BY <1>1, NothingMoves
  <2>. QED  BY <2>1, <2>2, TranslatedStays DEF CallInv
<1>2. CASE Next
  <2>1. UNCHANGED <<code, dispatch>>
    BY <1>2, ProgramStays
  <2>2. kept' \in BOOLEAN /\ (kept' => kept)
    BY <1>2, KeptBefore DEF CallInv
  <2>3. ASSUME kept' PROVE Kept'
    BY <1>2, <2>2, <2>3, KeptStep DEF CallInv
  <2>. QED  BY <2>1, <2>2, <2>3, TranslatedStays DEF CallInv
<1>. QED  BY <1>1, <1>2

LEMMA CallInductive == Spec => []CallInv
<1>1. Init => CallInv
  BY CallInit
<1>2. CallInv /\ [Next]_vars => CallInv'
  BY CallStep
<1>. QED  BY <1>1, <1>2, PTL DEF Spec

\* The C stack is the calls the program has not returned from, in order,
\* whatever the program, its functions and the pieces the recompiler made of
\* them (code_generator.cpp 940-1200, runtime.c 1740-1820): as long as it
\* keeps to the conventions, every return comes back behind its own call.
THEOREM CallsAlwaysComeBack == Spec => []CallsComeBack
<1>1. CallInv => CallsComeBack
  <2>. SUFFICES ASSUME CallInv, kept, stack # <<>>
                PROVE  owed = <<Halt>> \o [n \in 1..(Len(stack) - 1) |-> stack[n].at]
    BY DEF CallsComeBack
  <2>1. /\ stack \in Seq(Frame) /\ owed \in Seq(Addresses \cup {Halt}) /\ Len(owed) = Len(stack)
        /\ owed[1] = Halt
        /\ \A n \in 1..(Len(stack) - 1) : owed[n + 1] = stack[n].at
    BY DEF CallInv, Kept, StackInv, Owed
  <2>2. Len(stack) \in Nat /\ Len(stack) > 0
    BY <2>1, FrontIs
  <2>. DEFINE below == [n \in 1..(Len(stack) - 1) |-> stack[n].at]
              T == Addresses \cup {Halt}
  <2>3. below \in Seq(T) /\ Len(below) = Len(stack) - 1
    <3>1. \A n \in 1..(Len(stack) - 1) : stack[n].at \in T
      BY <2>1, <2>2 DEF Frame
    <3>2. Len(stack) - 1 \in Nat
      BY <2>2
    <3>. QED  BY <3>1, <3>2
  <2>4. <<Halt>> \in Seq(T) /\ Len(<<Halt>>) = 1
    OBVIOUS
  <2>5. \A n \in 1..(Len(stack) - 1) : below[n] = stack[n].at
    OBVIOUS
  <2>. HIDE DEF below, T
  <2>6. PICK both : both = <<Halt>> \o below
    OBVIOUS
  <2>7. both \in Seq(T) /\ Len(both) = Len(stack)
    BY <2>2, <2>3, <2>4, <2>6, ConcatProperties
  <2>8. \A n \in 1..Len(stack) : both[n] = owed[n]
    <3>. SUFFICES ASSUME NEW n \in 1..Len(stack) PROVE both[n] = owed[n]
      OBVIOUS
    <3>1. CASE n = 1
      BY <3>1, <2>1, <2>2, <2>3, <2>4, <2>6, ConcatProperties
    <3>2. CASE n # 1
      <4>1. n - 1 \in 1..(Len(stack) - 1) /\ (n - 1) + 1 = n
        BY <2>2, <3>2
      <4>2. both[n] = below[n - 1]
        BY <2>2, <2>3, <2>4, <2>6, <3>2, ConcatProperties
      <4>. QED  BY <2>1, <2>5, <4>1, <4>2
    <3>. QED  BY <3>1, <3>2
  <2>9. owed \in Seq(T)
    BY <2>1 DEF T
  <2>10. both = owed
    BY <2>1, <2>7, <2>8, <2>9, SeqEqual
  <2>. QED  BY <2>6, <2>10 DEF below
<1>. QED  BY <1>1, CallInductive, PTL

\* Whatever branches into whatever, each branch of a function whose delay slot
\* is no branch is the end of a basic block, and is translated
\* (code_generator.cpp 862); also in programs that break the conventions.
THEOREM BranchesAlwaysTranslated == Spec => []BranchesTranslated
<1>1. CallInv => BranchesTranslated
  <2>1. CallInv => dispatch \in SUBSET Nat
    BY StartsAre DEF CallInv
  <2>. QED  BY <2>1, BranchEndsItsBlock DEF BranchesTranslated
<1>. QED  BY <1>1, CallInductive, PTL
----------------------------------------------------------------------------
(* What the instructions compute. *)

LEMMA MachineIs ==
  ASSUME NEW x \in Machines
  PROVE  /\ Machine(x) /\ \A e \in Regs : x.r[e] \in Word
         /\ \A k \in 0..1 : x.mem[k] \in Word
  BY DEF Machines, Machine

LEMMA PutMachine ==
  ASSUME NEW x \in Machines, NEW d \in Regs, NEW v \in Word
  PROVE  [x EXCEPT !.r[d] = v] \in Machines
  BY DEF Machines

LEMMA StoreMachine ==
  ASSUME NEW x \in Machines, NEW k \in 0..1, NEW v \in Word
  PROVE  [x EXCEPT !.mem[k] = v] \in Machines
  BY DEF Machines

\* Words as signed numbers.
LEMMA SignedIs ==
  ASSUME NEW x \in Word
  PROVE  x \in Nat /\ Signed(x) \in Int
<1>1. x \in Nat /\ 2^W \in Int
  BY WordIs DEF Word
<1>. QED  BY <1>1 DEF Signed

LEMMA AddressIs ==
  ASSUME NEW x \in Word, NEW h \in 0..(2^(W \div 2) - 1)
  PROVE  WordOf(Wrap(x + SignExtended(h))) \in 0..1
<1>1. x + SignExtended(h) \in Int
  BY HalfIs, SignedIs
<1>2. PICK a \in Nat : a = Wrap(x + SignExtended(h))
  BY <1>1, WordIs DEF Word
<1>3. (a \div 4) % 2 \in 0..1
  OBVIOUS
<1>. QED  BY <1>2, <1>3 DEF WordOf

LEMMA Divisors ==
  ASSUME NEW n \in Nat
  PROVE  /\ 2^n \in Nat /\ 2^n > 0
         /\ \A x \in Int : x * 2^n \in Int /\ x \div 2^n \in Int
         /\ \A x \in Word : x \div 2^n \in Word
<1>1. PICK p \in Nat : p = 2^n /\ p > 0
  BY PowerCounts
<1>2. \A x \in Int : x * p \in Int /\ x \div p \in Int
  BY <1>1
<1>3. ASSUME NEW x \in Word PROVE x \div p \in Word
  <2>1. PICK q \in Nat : q = 2^W
    BY WordIs
  <2>2. x \in Nat /\ x <= q - 1
    BY <2>1 DEF Word
  <2>3. x \div p \in Nat /\ x \div p <= x
    BY <1>1, <2>2, DivisionIs
  <2>. QED  BY <2>1, <2>2, <2>3 DEF Word
<1>. QED  BY <1>1, <1>2, <1>3

\* The C expressions are words, and what the processor computes, except for
\* the unaligned loads.
LEMMA CResultIs ==
  ASSUME NEW i, IsInstruction(i), i.op \in WithResult, NEW x \in Machines
  PROVE  /\ CResult(i, x) \in Word
         /\ i.op \notin {"lwl", "lwr"} => CResult(i, x) = Result(i, x)
<1>. DEFINE u == x.r[i.s]
            v == x.r[i.t]
            n == And(u, W - 1)
            a == Wrap(u + SignExtended(i.imm))
<1>1. /\ i.s \in Regs /\ i.t \in Regs /\ i.d \in Regs
      /\ i.imm \in 0..(2^(W \div 2) - 1) /\ i.imm \in Nat /\ i.imm \in Word
  <2>1. ~IsControlFlow(i)
    BY DEF IsControlFlow, WithResult, Branches, Jumps
  <2>. QED  BY <2>1, InstructionIs
<1>2. u \in Word /\ v \in Word /\ u \in Nat /\ v \in Nat /\ Signed(u) \in Int /\ Signed(v) \in Int
  BY <1>1, MachineIs, SignedIs
<1>3. SignExtended(i.imm) \in Int /\ i.imm * 2^(W \div 2) \in Word
  BY <1>1, HalfIs
<1>4. n = u % W /\ u % W \in Nat
  <2>1. n = u % W
    BY <1>2, ShiftAmount
  <2>. QED  BY <1>2, <2>1, WordIs
<1>5. "hi" \in Regs /\ "lo" \in Regs
  BY DEF Regs
<1>6. x.mem[WordOf(a)] \in Word
  BY <1>1, <1>2, AddressIs, MachineIs
<1>7. CASE i.op \in {"addu", "subu", "addiu"}
  <2>1. Wrap(u + v) \in Word /\ Wrap(u - v) \in Word /\ Wrap(u + SignExtended(i.imm)) \in Word
    BY <1>2, <1>3, WordIs
  <2>. HIDE DEF u, v
  <2>. QED  BY <1>7, <2>1 DEF CResult, Result, u, v
<1>8. CASE i.op \in {"and", "or", "xor", "andi", "ori", "xori"}
  <2>1. \A y, z : And(y, z) \in Word /\ Or(y, z) \in Word /\ Xor(y, z) \in Word
    BY OfBitsIsWord DEF And, Or, Xor
  <2>. QED  BY <1>8, <2>1 DEF CResult, Result
<1>9. CASE i.op = "nor"
  <2>1. PICK w \in Word : w = Or(u, v)
    BY OfBitsIsWord DEF Or
  <2>2. PICK p \in Nat : p = 2^W
    BY WordIs
  <2>3. Not(w) \in Word
    BY <2>2 DEF Not, Word
  <2>. QED  BY <1>9, <2>1, <2>3 DEF CResult, Result
<1>10. CASE i.op \in {"slt", "sltu", "slti", "sltiu"}
  <2>1. \A b : Flag(b) \in {0, 1}
    BY DEF Flag
  <2>2. {0, 1} \subseteq Word
    BY WordIs
  <2>3. \A b : Flag(b) \in Word
    BY <2>1, <2>2
  <2>. QED  BY <1>10, <2>3 DEF CResult, Result
<1>11. CASE i.op \in {"sllv", "srlv", "srav"}
  <2>1. /\ Wrap(v * 2^(u % W)) \in Word /\ v \div 2^(u % W) \in Word
        /\ Wrap(Signed(v) \div 2^(u % W)) \in Word
    BY <1>2, <1>4, Divisors, WordIs
  <2>. HIDE DEF u, v, n
  <2>. QED  BY <1>4, <1>11, <2>1 DEF CResult, Result, u, v, n
<1>12. CASE i.op \in {"sll", "srl", "sra"}
  <2>1. /\ Wrap(v * 2^i.imm) \in Word /\ v \div 2^i.imm \in Word
        /\ Wrap(Signed(v) \div 2^i.imm) \in Word
    BY <1>1, <1>2, Divisors, WordIs
  <2>. QED  BY <1>12, <2>1 DEF CResult, Result
<1>13. CASE i.op = "lui"
  BY <1>3, <1>13, WordIs DEF CResult, Result
<1>14. CASE i.op \in {"mfhi", "mflo"}
  BY <1>5, <1>14, MachineIs DEF CResult, Result
<1>15. CASE i.op = "lw"
  BY <1>6, <1>15 DEF CResult, Result, Address
<1>16. CASE i.op \in {"lwl", "lwr"}
  <2>1. \A y, z, o : MaskedLeft(y, z, o) \in Word /\ MaskedRight(y, z, o) \in Word
    BY OfBitsIsWord DEF MaskedLeft, MaskedRight
  <2>. QED  BY <1>16, <2>1 DEF CResult
<1>. QED  BY <1>7, <1>8, <1>9, <1>10, <1>11, <1>12, <1>13, <1>14, <1>15, <1>16 DEF WithResult

\* Division is exact where it is defined.
LEMMA QuotientIs ==
  ASSUME NEW x \in Word, NEW y \in Word, y # 0
  PROVE  /\ Quotient(x, y) = x \div y /\ Remainder(x, y) = x % y
         /\ x \div y \in Word /\ x % y \in Word
         /\ Quotient(Signed(x), Signed(y)) \in Int /\ Remainder(Signed(x), Signed(y)) \in Int
<1>1. PICK p \in Nat : p = 2^W
  BY WordIs
<1>2. x \in Nat /\ y \in Nat /\ y > 0 /\ x <= p - 1 /\ y <= p - 1
  BY <1>1 DEF Word
<1>3. PICK q \in Nat, r \in Nat : q = x \div y /\ r = x % y /\ x = y * q + r /\ r < y /\ q <= x
  BY <1>2, DivisionIs
<1>4. Quotient(x, y) = q /\ Remainder(x, y) = r
  <2>1. Magnitude(x) = x /\ Magnitude(y) = y /\ ~(x < 0) /\ ~(y < 0)
    BY <1>2 DEF Magnitude
  <2>2. Quotient(x, y) = q
    BY <1>3, <2>1 DEF Quotient
  <2>3. Remainder(x, y) = x - y * q
    BY <2>2 DEF Remainder
  <2>. QED  BY <1>2, <1>3, <2>2, <2>3
<1>5. q \in Word /\ r \in Word
  BY <1>1, <1>2, <1>3 DEF Word
<1>6. PICK a \in Int, b \in Int : a = Signed(x) /\ b = Signed(y) /\ b # 0
  <2>1. Signed(y) # 0
    BY <1>1, <1>2 DEF Signed
  <2>. QED  BY <2>1, SignedIs
<1>7. Quotient(a, b) \in Int /\ Remainder(a, b) \in Int
  <2>1. PICK c \in Nat, d \in Nat : c = Magnitude(a) /\ d = Magnitude(b) /\ d > 0
    BY <1>6 DEF Magnitude
  <2>2. PICK e \in Nat : e = c \div d
    BY <2>1, DivisionIs
  <2>3. Quotient(a, b) = e \/ Quotient(a, b) = -e
    BY <2>1, <2>2 DEF Quotient
  <2>4. PICK f \in Int : f = Quotient(a, b)
    BY <2>2, <2>3
  <2>5. Remainder(a, b) = a - b * f
    BY <2>4 DEF Remainder
  <2>. QED  BY <1>6, <2>4, <2>5
<1>. QED  BY <1>3, <1>4, <1>5, <1>6, <1>7

\* The halves of a product.
LEMMA ProductIs ==
  ASSUME NEW p \in Int
  PROVE  Wrap(p) \in Word /\ Wrap(p \div 2^W) \in Word
<1>1. p \div 2^W \in Int
  BY WordIs, Divisors
<1>. QED  BY <1>1, WordIs

LEMMA ElsewhereIs ==
  ASSUME NEW i, IsInstruction(i), i.op \in MulDiv \cup {"mthi", "mtlo", "sw"},
         NEW x \in Machines, i.op \in {"div", "divu"} => x.r[i.t] # 0
  PROVE  /\ Elsewhere(i, x) \in Machines
         /\ Elsewhere(i, x) = Executed(i, x)
<1>1. /\ i.s \in Regs /\ i.t \in Regs /\ i.imm \in 0..(2^(W \div 2) - 1)
  <2>1. ~IsControlFlow(i)
    BY DEF IsControlFlow, MulDiv, Branches, Jumps
  <2>. QED  BY <2>1, InstructionIs
<1>2. PICK u \in Word, v \in Word : u = x.r[i.s] /\ v = x.r[i.t]
  BY <1>1, MachineIs
<1>3. u \in Nat /\ v \in Nat /\ Signed(u) \in Int /\ Signed(v) \in Int
  BY SignedIs
<1>4. "hi" \in Regs /\ "lo" \in Regs /\ "hi" # "lo"
  BY DEF Regs
<1>5. CASE i.op \in {"mult", "multu"}
  <2>1. PICK p \in Int : p = IF i.op = "mult" THEN Signed(u) * Signed(v) ELSE u * v
    BY <1>3
  <2>2. PICK q \in Word, r \in Word : q = Wrap(p) /\ r = Wrap(p \div 2^W)
    BY ProductIs
  <2>3. Elsewhere(i, x) = [x EXCEPT !.r["lo"] = q, !.r["hi"] = r]
    BY <1>2, <1>5, <2>1, <2>2 DEF Elsewhere, Multiplied, Product
  <2>4. Executed(i, x) = [x EXCEPT !.r["hi"] = r, !.r["lo"] = q]
    <3>1. HiLo(i.op, u, v) = [hi |-> r, lo |-> q]
      BY <1>5, <2>1, <2>2 DEF HiLo
    <3>. QED  BY <1>2, <1>5, <3>1 DEF Executed, MulDiv
  <2>5. /\ [x EXCEPT !.r["lo"] = q, !.r["hi"] = r] \in Machines
        /\ [x EXCEPT !.r["hi"] = r, !.r["lo"] = q] = [x EXCEPT !.r["lo"] = q, !.r["hi"] = r]
    BY <1>4 DEF Machines
  <2>. QED  BY <2>3, <2>4, <2>5
<1>6. CASE i.op = "div"
  <2>1. PICK q \in Word, r \in Word : /\ q = Wrap(Quotient(Signed(u), Signed(v)))
                                      /\ r = Wrap(Remainder(Signed(u), Signed(v)))
    BY <1>2, <1>6, QuotientIs, WordIs
  <2>2. Elsewhere(i, x) = [x EXCEPT !.r["lo"] = q, !.r["hi"] = r]
    BY <1>2, <1>6, <2>1 DEF Elsewhere, Divided
  <2>3. Executed(i, x) = [x EXCEPT !.r["hi"] = r, !.r["lo"] = q]
    <3>1. HiLo(i.op, u, v) = [hi |-> r, lo |-> q]
      BY <1>6, <2>1 DEF HiLo
    <3>2. i.op \in {"div", "divu"}
      BY <1>6
    <3>. QED  BY <1>2, <3>1, <3>2 DEF Executed, MulDiv
  <2>4. /\ [x EXCEPT !.r["lo"] = q, !.r["hi"] = r] \in Machines
        /\ [x EXCEPT !.r["hi"] = r, !.r["lo"] = q] = [x EXCEPT !.r["lo"] = q, !.r["hi"] = r]
    BY <1>4 DEF Machines
  <2>. QED  BY <2>2, <2>3, <2>4
<1>7. CASE i.op = "divu"
  <2>1. PICK q \in Word, r \in Word : /\ q = u \div v /\ r = u % v
                                      /\ q = Wrap(Quotient(u, v)) /\ r = Wrap(Remainder(u, v))
    BY <1>2, <1>7, QuotientIs, WordIs
  <2>2. Elsewhere(i, x) = [x EXCEPT !.r["lo"] = q, !.r["hi"] = r]
    BY <1>2, <1>7, <2>1 DEF Elsewhere, Divided
  <2>3. Executed(i, x) = [x EXCEPT !.r["hi"] = r, !.r["lo"] = q]
    <3>1. HiLo(i.op, u, v) = [hi |-> r, lo |-> q]
      BY <1>7, <2>1 DEF HiLo
    <3>2. i.op \in {"div", "divu"}
      BY <1>7
    <3>. QED  BY <1>2, <3>1, <3>2 DEF Executed, MulDiv
  <2>4. /\ [x EXCEPT !.r["lo"] = q, !.r["hi"] = r] \in Machines
        /\ [x EXCEPT !.r["hi"] = r, !.r["lo"] = q] = [x EXCEPT !.r["lo"] = q, !.r["hi"] = r]
    BY <1>4 DEF Machines
  <2>. QED  BY <2>2, <2>3, <2>4
<1>8. CASE i.op \in {"mthi", "mtlo"}
  BY <1>2, <1>4, <1>8, PutMachine DEF Elsewhere, Executed, MulDiv
<1>9. CASE i.op = "sw"
  <2>1. WordOf(Wrap(x.r[i.s] + SignExtended(i.imm))) \in 0..1
    BY <1>1, <1>2, AddressIs
  <2>. QED  BY <1>2, <1>9, <2>1, StoreMachine DEF Elsewhere, Executed, MulDiv, Address
<1>. QED  BY <1>5, <1>6, <1>7, <1>8, <1>9 DEF MulDiv

\* What the recompiler emits for an instruction that is no branch does what
\* the instruction does; a constant for $zero has to be zero.
LEMMA EmittedIs ==
  ASSUME NEW i, IsInstruction(i), ~IsControlFlow(i), NEW x \in Machines,
         x.r["zero"] = 0, i.op \in {"div", "divu"} => x.r[i.t] # 0
  PROVE  /\ Emitted(i, x) \in Machines
         /\ ~Unaligned(i) /\ Emitted(i, x).r["zero"] = 0 => Emitted(i, x) = Executed(i, x)
<1>1. /\ i.d \in Regs /\ i.imm \in 0..(2^(W \div 2) - 1) /\ "zero" \in Regs
      /\ i.op \in MulDiv \cup WithResult \cup {"mthi", "mtlo", "sw"}
  BY InstructionIs DEF Regs, General
<1>2. CASE i.op \in WithResult
  <2>1. HasResult(i) /\ i.op \notin MulDiv \cup {"mthi", "mtlo", "sw"} /\ i.op \notin {"div", "divu"}
    BY <1>2 DEF HasResult, MulDiv, WithResult
  <2>2. PICK c \in Word : c = CResult(i, x) /\ (~Unaligned(i) => c = Result(i, x))
    BY <1>2, CResultIs DEF Unaligned
  <2>3. Executed(i, x) = Put(x, i.d, Result(i, x))
    BY <2>1 DEF Executed
  <2>4. CASE i.op = "addiu" /\ i.s = "zero"
    <3>1. c = Wrap(SignExtended(i.imm))
      <4>1. c = Wrap(0 + SignExtended(i.imm))
        BY <2>2, <2>4 DEF CResult
      <4>. QED  BY <1>1, <4>1, HalfIs
    <3>2. Emitted(i, x) = [x EXCEPT !.r[i.d] = c]
      BY <2>1, <2>4, <3>1 DEF Emitted
    <3>3. [x EXCEPT !.r[i.d] = c] \in Machines
      BY <1>1, PutMachine
    <3>4. ASSUME i.d = "zero", [x EXCEPT !.r[i.d] = c].r["zero"] = 0 PROVE [x EXCEPT !.r[i.d] = c] = x
      BY <1>1, <3>4 DEF Machines
    <3>5. ~Unaligned(i)
      BY <2>4 DEF Unaligned
    <3>. QED  BY <2>2, <2>3, <3>2, <3>3, <3>4, <3>5 DEF Put
  <2>5. CASE ~(i.op = "addiu" /\ i.s = "zero")
    <3>1. Emitted(i, x) = IF i.d = "zero" THEN x ELSE [x EXCEPT !.r[i.d] = c]
      BY <2>1, <2>2, <2>5 DEF Emitted
    <3>2. Emitted(i, x) = Put(x, i.d, c)
      BY <3>1 DEF Put
    <3>3. Emitted(i, x) \in Machines
      BY <1>1, <3>1, PutMachine
    <3>. QED  BY <2>2, <2>3, <3>2, <3>3
  <2>. QED  BY <2>4, <2>5
<1>3. CASE i.op \in MulDiv \cup {"mthi", "mtlo", "sw"}
  <2>1. ~HasResult(i) /\ i.op # "addiu"
    BY <1>3 DEF HasResult, MulDiv
  <2>2. Emitted(i, x) = Elsewhere(i, x)
    BY <2>1 DEF Emitted
  <2>. QED  BY <1>3, <2>2, ElsewhereIs
<1>. QED  BY <1>1, <1>2, <1>3

\* So does the interpreter.
LEMMA RunIs ==
  ASSUME NEW i, IsInstruction(i), ~IsControlFlow(i), NEW x \in Machines,
         x.r["zero"] = 0, i.op \in {"div", "divu"} => x.r[i.t] # 0
  PROVE  /\ Run(i, [m |-> x, sink |-> 0]).m \in Machines
         /\ ~Unaligned(i) => Run(i, [m |-> x, sink |-> 0]).m = Executed(i, x)
<1>. DEFINE n == [x EXCEPT !.r["zero"] = 0]
            after == CASE i.op \in {"div", "divu"} /\ x.r[i.t] = 0 -> x
                       [] HasResult(i) -> IF i.op \in {"lw", "lwl", "lwr"} /\ i.d = "zero" THEN x
                                          ELSE [x EXCEPT !.r[i.d] = CResult(i, x)]
                       [] ~HasResult(i) /\ ~(i.op \in {"div", "divu"} /\ x.r[i.t] = 0) -> Elsewhere(i, x)
<1>1. /\ i.d \in Regs /\ "zero" \in Regs
      /\ i.op \in MulDiv \cup WithResult \cup {"mthi", "mtlo", "sw"}
  BY InstructionIs DEF Regs, General
<1>2. n = x
  BY <1>1 DEF Machines
<1>3. Run(i, [m |-> x, sink |-> 0]).m = [after EXCEPT !.r["zero"] = 0]
  <2>1. [m |-> x, sink |-> 0].m = x /\ [m |-> x, sink |-> 0].sink = 0
    OBVIOUS
  <2>. QED  BY <1>2, <2>1 DEF Run
<1>4. \A y \in Machines : y.r["zero"] = 0 => [y EXCEPT !.r["zero"] = 0] = y
  BY <1>1 DEF Machines
<1>5. CASE i.op \in WithResult
  <2>1. HasResult(i) /\ i.op \notin MulDiv \cup {"mthi", "mtlo", "sw"} /\ i.op \notin {"div", "divu"}
    BY <1>5 DEF HasResult, MulDiv, WithResult
  <2>2. PICK c \in Word : c = CResult(i, x) /\ (~Unaligned(i) => c = Result(i, x))
    BY <1>5, CResultIs DEF Unaligned
  <2>3. Executed(i, x) = Put(x, i.d, Result(i, x))
    BY <2>1 DEF Executed
  <2>4. after = IF i.op \in {"lw", "lwl", "lwr"} /\ i.d = "zero" THEN x ELSE [x EXCEPT !.r[i.d] = c]
    BY <2>1, <2>2
  <2>. HIDE DEF after
  <2>5. CASE i.d = "zero"
    <3>1. [[x EXCEPT !.r["zero"] = c] EXCEPT !.r["zero"] = 0] = x
      BY <1>1 DEF Machines
    <3>2. [after EXCEPT !.r["zero"] = 0] = x
      BY <1>2, <2>4, <2>5, <3>1
    <3>. QED  BY <1>3, <2>3, <2>5, <3>2 DEF Put
  <2>6. CASE i.d # "zero"
    <3>1. PICK y : y = [x EXCEPT !.r[i.d] = c]
      OBVIOUS
    <3>2. y \in Machines /\ y.r["zero"] = 0
      BY <1>1, <2>6, <3>1 DEF Machines
    <3>3. after = y /\ Put(x, i.d, c) = y
      BY <2>4, <2>6, <3>1 DEF Put
    <3>. QED  BY <1>3, <1>4, <2>2, <2>3, <3>2, <3>3
  <2>. QED  BY <2>5, <2>6
<1>6. CASE i.op \in MulDiv \cup {"mthi", "mtlo", "sw"}
  <2>1. ~HasResult(i)
    BY <1>6 DEF HasResult
  <2>2. after = Elsewhere(i, x)
    BY <2>1
  <2>3. PICK y \in Machines : y = Elsewhere(i, x) /\ y = Executed(i, x)
    BY <1>6, ElsewhereIs
  <2>4. y.r["zero"] = 0
    <3>1. "zero" # "hi" /\ "zero" # "lo"
      OBVIOUS
    <3>. QED  BY <1>1, <1>6, <2>3, <3>1 DEF Elsewhere, Multiplied, Divided, MulDiv, Machines
  <2>. HIDE DEF after
  <2>. QED  BY <1>3, <1>4, <2>2, <2>3, <2>4
<1>. QED  BY <1>1, <1>5, <1>6

\* A register the instruction does not name may be written before or after it.
LEMMA LinkCommutes ==
  ASSUME NEW i, IsInstruction(i), ~IsControlFlow(i), NEW x \in Machines, NEW l \in General, NEW v \in Word,
         l \notin {i.d, i.s, i.t}, i.op \in {"div", "divu"} => x.r[i.t] # 0
  PROVE  Executed(i, [x EXCEPT !.r[l] = v]) = [Executed(i, x) EXCEPT !.r[l] = v]
<1>1. /\ i.d \in Regs /\ i.s \in Regs /\ i.t \in Regs /\ l \in Regs
      /\ "hi" \in Regs /\ "lo" \in Regs /\ l # "hi" /\ l # "lo"
      /\ i.op \in MulDiv \cup WithResult \cup {"mthi", "mtlo", "sw"}
  BY InstructionIs DEF Regs, General
<1>2. PICK y \in Machines : y = [x EXCEPT !.r[l] = v]
  BY <1>1, PutMachine
<1>3. y.mem = x.mem /\ \A e \in Regs : e # l => y.r[e] = x.r[e]
  BY <1>1, <1>2 DEF Machines
<1>4. /\ y.r[i.s] = x.r[i.s] /\ y.r[i.t] = x.r[i.t] /\ y.r[i.d] = x.r[i.d]
      /\ y.r["hi"] = x.r["hi"] /\ y.r["lo"] = x.r["lo"]
  BY <1>1, <1>3
<1>5. CASE i.op \in MulDiv
  <2>1. PICK h, k : h = HiLo(i.op, x.r[i.s], x.r[i.t]).hi /\ k = HiLo(i.op, x.r[i.s], x.r[i.t]).lo
    OBVIOUS
  <2>2. Executed(i, x) = [x EXCEPT !.r["hi"] = h, !.r["lo"] = k]
    BY <1>5, <2>1 DEF Executed, MulDiv
  <2>3. Executed(i, y) = [y EXCEPT !.r["hi"] = h, !.r["lo"] = k]
    BY <1>4, <1>5, <2>1 DEF Executed, MulDiv
  <2>4. [y EXCEPT !.r["hi"] = h, !.r["lo"] = k] = [[x EXCEPT !.r["hi"] = h, !.r["lo"] = k] EXCEPT !.r[l] = v]
    BY <1>1, <1>2 DEF Machines
  <2>. QED  BY <1>2, <2>2, <2>3, <2>4
<1>6. CASE i.op \in {"mthi", "mtlo"}
  <2>1. PICK e \in {"hi", "lo"} : \A z : Executed(i, z) = [z EXCEPT !.r[e] = z.r[i.s]]
    BY <1>6 DEF Executed, MulDiv
  <2>2. [y EXCEPT !.r[e] = x.r[i.s]] = [[x EXCEPT !.r[e] = x.r[i.s]] EXCEPT !.r[l] = v]
    BY <1>1, <1>2 DEF Machines
  <2>. QED  BY <1>2, <1>4, <2>1, <2>2
<1>7. CASE i.op = "sw"
  <2>1. \A z : Executed(i, z) = [z EXCEPT !.mem[WordOf(Address(i, z.r))] = z.r[i.t]]
    BY <1>7 DEF Executed, MulDiv
  <2>2. PICK k : k = WordOf(Address(i, x.r)) /\ k = WordOf(Address(i, y.r))
    BY <1>4 DEF Address
  <2>3. [y EXCEPT !.mem[k] = x.r[i.t]] = [[x EXCEPT !.mem[k] = x.r[i.t]] EXCEPT !.r[l] = v]
    BY <1>1, <1>2 DEF Machines
  <2>4. Executed(i, x) = [x EXCEPT !.mem[k] = x.r[i.t]]
    BY <2>1, <2>2
  <2>5. Executed(i, y) = [y EXCEPT !.mem[k] = x.r[i.t]]
    BY <1>4, <2>1, <2>2
  <2>. QED  BY <1>2, <2>3, <2>4, <2>5
<1>8. CASE i.op \in WithResult
  <2>1. i.op \notin MulDiv \cup {"mthi", "mtlo", "sw"}
    BY <1>8 DEF MulDiv, WithResult
  <2>2. \A z : Executed(i, z) = Put(z, i.d, Result(i, z))
    BY <2>1 DEF Executed
  <2>3. PICK c : c = Result(i, x) /\ c = Result(i, y)
    BY <1>3, <1>4 DEF Result, Address
  <2>4. [y EXCEPT !.r[i.d] = c] = [[x EXCEPT !.r[i.d] = c] EXCEPT !.r[l] = v]
    BY <1>1, <1>2 DEF Machines
  <2>5. Put(y, i.d, c) = [Put(x, i.d, c) EXCEPT !.r[l] = v]
    BY <1>2, <2>4 DEF Put
  <2>. QED  BY <1>2, <2>2, <2>3, <2>5
<1>. QED  BY <1>1, <1>5, <1>6, <1>7, <1>8
----------------------------------------------------------------------------
(* The processor at the address execution is at. *)

LEMMA ProcessorIs ==
  /\ \A i, x : Processor!Executed(i, x) = Executed(i, x)
  /\ \A i, a, x : Processor!Linked(i, a, x) = Linked(i, a, x)
  /\ \A i, a, r : Processor!NextPc(i, a, r) = NextPc(i, a, r)
  /\ \A i : Processor!IsControlFlow(i) = IsControlFlow(i)
<1>1. \A i, x : Processor!Executed(i, x) = Executed(i, x)
  BY DEF Processor!Executed, Executed, Processor!Result, Result, Processor!Wrap, Wrap,
         Processor!Put, Put, Processor!Signed, Signed, Processor!SignExtended, SignExtended,
         Processor!And, And, Processor!Or, Or, Processor!Xor, Xor, Processor!Not, Not,
         Processor!Flag, Flag, Processor!Quotient, Quotient, Processor!Remainder, Remainder,
         Processor!Magnitude, Magnitude, Processor!HiLo, HiLo, Processor!LoadLeft, LoadLeft,
         Processor!LoadRight, LoadRight, Processor!Bits, Bits, Processor!Lanes, Lanes,
         Processor!OfBits, OfBits, Processor!WordOf, WordOf, Processor!ByteOf, ByteOf,
         Processor!Address, Address, Processor!MulDiv, MulDiv
<1>2. \A i, a, x : Processor!Linked(i, a, x) = Linked(i, a, x)
  BY DEF Processor!Linked, Linked, Processor!Put, Put
<1>3. \A i, a, r : Processor!NextPc(i, a, r) = NextPc(i, a, r)
  BY DEF Processor!NextPc, NextPc, Processor!Branches, Branches, Processor!Taken, Taken,
         Processor!Signed, Signed
<1>4. \A i : Processor!IsControlFlow(i) = IsControlFlow(i)
  BY DEF Processor!IsControlFlow, IsControlFlow, Processor!Branches, Branches, Processor!Jumps, Jumps
<1>. QED  BY <1>1, <1>2, <1>3, <1>4

\* Words in all places of the machine.
Small(f) == f.at \in Word /\ f.guard \in 0..MaxGuard
Typed == m \in Machines /\ \A n \in 1..Len(stack) : Small(stack[n])

\* The processor runs the instruction at a, and comes to b.
Does(a, b) ==
  \/ a = Bios /\ m' = [m EXCEPT !.r["a"] = 1] /\ b = m.r["ra"]
  \/ a \in Loaded /\ ~IsControlFlow(code[a]) /\ m' = Executed(code[a], m) /\ b = a + 1
  \/ /\ a \in Loaded /\ IsControlFlow(code[a])
     /\ m' = Executed(code[a + 1], Linked(code[a], a, m)) /\ b = NextPc(code[a], a, m.r)

\* The program that runs has no unaligned loads.
AlignedCode == \A a \in Loaded : ~Unaligned(code[a])
Follows == AlignedCode => Does(At(stack), At(stack')) \/ UNCHANGED <<m, At(stack)>>

LEMMA AddressWords ==
  /\ Loaded \subseteq Word /\ Bios \in Word /\ Halt \in Word
  /\ \A p \in Exe : p + 1 \in Word /\ p + 2 \in Word
<1>1. Exe \subseteq 0..(ExeEnd + 1) /\ \A p \in Exe : p + 1 \in 0..(ExeEnd + 1) /\ p + 2 \in 0..(ExeEnd + 1)
  BY ExeAssumption DEF Exe
<1>. QED  BY <1>1, AddressAssumption DEF Loaded

\* Execution is at the top frame.
LEMMA AtIs ==
  ASSUME NEW s \in Seq(Frame)
  PROVE  At(s) = IF s = <<>> THEN Halt ELSE Last(s).at
<1>1. PICK k \in Nat : k = Len(s)
  OBVIOUS
<1>2. {n \in DOMAIN s : s[n].kind # "leaving"} = 1..k
  <2>1. \A n \in 1..k : s[n] \in Frame
    BY <1>1
  <2>2. DOMAIN s = 1..k
    BY <1>1
  <2>. QED  BY <2>1, <2>2 DEF Frame
<1>3. At(s) = IF 1..k = {} THEN Halt ELSE s[Max(1..k)].at
  BY <1>2 DEF At
<1>4. CASE s = <<>>
  BY <1>1, <1>3, <1>4
<1>5. CASE s # <<>>
  <2>1. k > 0 /\ k \in 1..k
    BY <1>1, <1>5
  <2>2. Max(1..k) \in 1..k /\ k <= Max(1..k)
    <3>1. 1..k \in SUBSET Nat /\ \A y \in 1..k : y <= k
      OBVIOUS
    <3>. QED  BY <2>1, <3>1, MaxIs
  <2>3. Max(1..k) = k
    BY <2>2
  <2>. QED  BY <1>1, <1>3, <1>5, <2>1, <2>3 DEF Last
<1>. QED  BY <1>4, <1>5

LEMMA TopSmall ==
  ASSUME StackInv, stack # <<>>, Typed
  PROVE  Small(Top) /\ At(stack) = Top.at
<1>1. Len(stack) \in 1..Len(stack) /\ stack \in Seq(Frame)
  BY FrontIs DEF StackInv
<1>. QED  BY <1>1, AtIs DEF Typed, Top, Last

\* A frame went on, or was replaced.
LEMMA NextFrame ==
  ASSUME StackInv, stack # <<>>, StackInv', NEW f, stack' = Resume(f), Typed
  PROVE  /\ At(stack') = f.at
         /\ m' \in Machines /\ Small(f) => Typed'
<1>. DEFINE S == Frame \cup {f}
<1>1. /\ Len(stack) \in Nat /\ Len(stack) > 0
      /\ Front(stack) \in Seq(Frame) /\ Len(Front(stack)) = Len(stack) - 1
      /\ \A n \in 1..(Len(stack) - 1) : Front(stack)[n] = stack[n]
  BY FrontIs DEF StackInv
<1>2. Front(stack) \in Seq(S) /\ f \in S
  <2>1. Seq(Frame) \subseteq Seq(S)
    OBVIOUS
  <2>. QED  BY <1>1, <2>1
<1>. HIDE DEF S
<1>3. /\ Len(stack') = Len(stack) /\ stack'[Len(stack)] = f
      /\ \A n \in 1..(Len(stack) - 1) : stack'[n] = stack[n]
  BY <1>1, <1>2, AppendIs DEF Resume
<1>4. stack' \in Seq(Frame) /\ stack' # <<>>
  BY <1>1, <1>3 DEF StackInv
<1>5. At(stack') = f.at
  BY <1>3, <1>4, AtIs DEF Last
<1>6. ASSUME m' \in Machines, Small(f) PROVE Typed'
  <2>1. \A n \in 1..Len(stack') : Small(stack'[n])
    BY <1>1, <1>3, <1>6 DEF Typed
  <2>. QED  BY <1>6, <2>1 DEF Typed, Small
<1>. QED  BY <1>5, <1>6

\* A frame called another.
LEMMA NewFrame ==
  ASSUME StackInv, stack # <<>>, StackInv', NEW f, NEW g, stack' = Append(Resume(f), g), Typed
  PROVE  /\ At(stack') = g.at
         /\ m' \in Machines /\ Small(f) /\ Small(g) => Typed'
<1>. DEFINE S == Frame \cup {f, g}
<1>1. /\ Len(stack) \in Nat /\ Len(stack) > 0
      /\ Front(stack) \in Seq(Frame) /\ Len(Front(stack)) = Len(stack) - 1
      /\ \A n \in 1..(Len(stack) - 1) : Front(stack)[n] = stack[n]
  BY FrontIs DEF StackInv
<1>2. Front(stack) \in Seq(S) /\ f \in S /\ g \in S
  <2>1. Seq(Frame) \subseteq Seq(S)
    OBVIOUS
  <2>. QED  BY <1>1, <2>1
<1>. HIDE DEF S
<1>3. /\ Resume(f) \in Seq(S) /\ Len(Resume(f)) = Len(stack) /\ Resume(f)[Len(stack)] = f
      /\ \A n \in 1..(Len(stack) - 1) : Resume(f)[n] = stack[n]
  BY <1>1, <1>2, AppendIs DEF Resume
<1>4. /\ Len(stack') = Len(stack) + 1 /\ stack'[Len(stack) + 1] = g
      /\ \A n \in 1..Len(stack) : stack'[n] = Resume(f)[n]
  BY <1>2, <1>3, AppendIs
<1>5. stack' \in Seq(Frame) /\ stack' # <<>>
  BY <1>1, <1>4 DEF StackInv
<1>6. At(stack') = g.at
  BY <1>4, <1>5, AtIs DEF Last
<1>7. ASSUME m' \in Machines, Small(f), Small(g) PROVE Typed'
  <2>1. \A n \in 1..Len(stack') : Small(stack'[n])
    BY <1>1, <1>3, <1>4, <1>7 DEF Typed
  <2>. QED  BY <1>7, <2>1 DEF Typed, Small
<1>. QED  BY <1>6, <1>7

\* The top frame returned, to the last call that is owed one.
LEMMA LastFrame ==
  ASSUME StackInv, stack # <<>>, StackInv', stack' = Front(stack), Typed
  PROVE  /\ At(stack') = Last(owed)
         /\ m' \in Machines => Typed'
<1>1. /\ Len(stack) \in Nat /\ Len(stack) > 0
      /\ stack' \in Seq(Frame) /\ Len(stack') = Len(stack) - 1
      /\ \A n \in 1..(Len(stack) - 1) : stack'[n] = stack[n]
  BY FrontIs DEF StackInv
<1>2. /\ Len(owed) = Len(stack) /\ owed[1] = Halt
      /\ \A n \in 1..(Len(stack) - 1) : owed[n + 1] = stack[n].at
  BY DEF StackInv, Owed
<1>3. At(stack') = Last(owed)
  <2>1. CASE Len(stack) = 1
    <3>1. stack' = <<>>
      BY <1>1, <2>1
    <3>. QED  BY <1>1, <1>2, <2>1, <3>1, AtIs DEF Last
  <2>2. CASE Len(stack) # 1
    <3>1. PICK k \in Nat : k + 1 = Len(stack) /\ k > 0
      <4>1. PICK n \in Nat : n = Len(stack)
        BY <1>1
      <4>2. n - 1 \in Nat /\ (n - 1) + 1 = n /\ n - 1 > 0
        BY <1>1, <2>2, <4>1
      <4>. QED  BY <4>1, <4>2
    <3>2. k \in 1..(Len(stack) - 1) /\ Len(stack') = k /\ stack' # <<>>
      BY <1>1, <3>1
    <3>3. At(stack') = stack'[k].at
      BY <1>1, <3>2, AtIs DEF Last
    <3>4. stack'[k].at = owed[k + 1]
      BY <1>1, <1>2, <3>2
    <3>. QED  BY <1>2, <3>1, <3>3, <3>4 DEF Last
  <2>. QED  BY <2>1, <2>2
<1>4. ASSUME m' \in Machines PROVE Typed'
  <2>1. \A n \in 1..Len(stack') : Small(stack'[n])
    BY <1>1 DEF Typed
  <2>. QED  BY <1>4, <2>1 DEF Typed, Small
<1>. QED  BY <1>3, <1>4

\* A delay slot of a compiled jump.
LEMMA SlotIs ==
  ASSUME Translated, Kept, Typed, NEW p \in Exe, p + 1 \in Exe, Conventional(code[p], code[p + 1])
  PROVE  /\ DelaySlot(p) \in Machines
         /\ AlignedCode /\ DelaySlot(p).r["zero"] = 0 => DelaySlot(p) = Executed(code[p + 1], m)
<1>1. /\ IsInstruction(code[p + 1]) /\ ~IsControlFlow(code[p + 1])
      /\ code[p + 1].op \in {"div", "divu"} => m.r[code[p + 1].t] # 0
      /\ m \in Machines /\ m.r["zero"] = 0 /\ (AlignedCode => ~Unaligned(code[p + 1]))
  BY DEF Translated, Loaded, Conventional, Divides, Typed, Kept, AlignedCode
<1>2. DelaySlot(p) = Emitted(code[p + 1], m)
  BY DEF DelaySlot
<1>. QED  BY <1>1, <1>2, EmittedIs

\* With the link behind it.
LEMMA LinkedSlotIs ==
  ASSUME Translated, Kept, Typed, NEW p \in Exe, p + 1 \in Exe, Conventional(code[p], code[p + 1]),
         code[p].op \in Linking, m' = [DelaySlot(p) EXCEPT !.r[Link(code[p])] = p + 2], NoZero
  PROVE  /\ m' \in Machines
         /\ AlignedCode => m' = Executed(code[p + 1], Linked(code[p], p, m))
<1>0. PICK i, j : i = code[p] /\ j = code[p + 1]
  OBVIOUS
<1>1. PICK l \in General : l = Link(i) /\ l \notin {j.d, j.s, j.t, "zero"}
  <2>1. IsInstruction(i)
    BY <1>0 DEF Translated, Loaded
  <2>2. i.d \in General
    BY <2>1, InstructionIs
  <2>3. Link(i) \in General
    BY <1>0, <2>2 DEF Link, Linking, General
  <2>. QED  BY <1>0, <2>3 DEF Conventional
<1>2. PICK v \in Word : v = p + 2
  BY AddressWords
<1>3. /\ IsInstruction(j) /\ ~IsControlFlow(j) /\ (j.op \in {"div", "divu"} => m.r[j.t] # 0)
      /\ m \in Machines /\ l \in Regs /\ "zero" \in Regs
  BY <1>0 DEF General, Translated, Loaded, Conventional, Divides, Typed, Regs
<1>4. PICK x \in Machines : x = DelaySlot(p) /\ (AlignedCode /\ x.r["zero"] = 0 => x = Executed(j, m))
  BY <1>0, SlotIs
<1>5. m' = [x EXCEPT !.r[l] = v]
  BY <1>0, <1>1, <1>2, <1>4
<1>6. m' \in Machines /\ m'.r["zero"] = x.r["zero"]
  <2>1. [x EXCEPT !.r[l] = v] \in Machines
    BY <1>3, PutMachine
  <2>2. l # "zero"
    BY <1>1
  <2>3. [x EXCEPT !.r[l] = v].r["zero"] = x.r["zero"]
    BY <1>3, <2>2 DEF Machines
  <2>. QED  BY <1>5, <2>1, <2>3
<1>7. x.r["zero"] = 0
  BY <1>6 DEF NoZero
<1>8. Linked(i, p, m) = [m EXCEPT !.r[l] = v]
  BY <1>0, <1>1, <1>2 DEF Linked, Linking, Link, Put
<1>9. Executed(j, [m EXCEPT !.r[l] = v]) = [Executed(j, m) EXCEPT !.r[l] = v]
  BY <1>1, <1>3, LinkCommutes
<1>. QED  BY <1>0, <1>2, <1>4, <1>5, <1>6, <1>7, <1>8, <1>9

LEMMA StatementDoes ==
  ASSUME Translated, Kept, Typed, kept', Statement, Kept'
  PROVE  Typed' /\ Follows
<1>. DEFINE p == Top.at
            fn == Top.fn
<1>1. /\ InFunction /\ ~IsControlFlow(code[p]) /\ m' = Emitted(code[p], m) /\ Divides(code[p])
      /\ NoZero /\ p + 1 # ExeEnd
      /\ stack' = IF p + 1 = End(dispatch, fn) => FallsThrough(dispatch, fn)
                  THEN Resume([Top EXCEPT !.at = p + 1]) ELSE Front(stack)
  BY DEF Statement
<1>2. StackInv /\ StackInv' /\ m.r["zero"] = 0 /\ m \in Machines
  BY DEF Kept, Typed
<1>3. /\ stack # <<>> /\ fn \in dispatch /\ p \in Body(dispatch, fn) /\ p \in Nat /\ Reached(fn, p)
      /\ p \in Exe /\ Top \in Frame
  BY <1>1, <1>2, CompiledIs
<1>4. p + 1 = End(dispatch, fn) => FallsThrough(dispatch, fn)
  BY <1>1, <1>3, StatementReached
<1>5. PICK f : f = [Top EXCEPT !.at = p + 1]
  OBVIOUS
<1>6. Small(f) /\ f.at = p + 1
  <2>1. Small(Top) /\ p + 1 \in Word
    BY <1>2, <1>3, TopSmall, AddressWords
  <2>. QED  BY <1>3, <1>5, <2>1 DEF Small, Frame
<1>7. At(stack) = p /\ At(stack') = p + 1 /\ (m' \in Machines => Typed')
  BY <1>1, <1>2, <1>3, <1>4, <1>5, <1>6, NextFrame, TopSmall
<1>8. IsInstruction(code[p]) /\ (AlignedCode => ~Unaligned(code[p])) /\ p \in Loaded
  BY <1>3 DEF Translated, Loaded, AlignedCode
<1>9. /\ m' \in Machines
      /\ AlignedCode => m' = Executed(code[p], m)
  <2>1. /\ Emitted(code[p], m) \in Machines
        /\ AlignedCode /\ Emitted(code[p], m).r["zero"] = 0 => Emitted(code[p], m) = Executed(code[p], m)
    BY <1>1, <1>2, <1>8, EmittedIs DEF Divides
  <2>. QED  BY <1>1, <2>1 DEF NoZero
<1>. QED  BY <1>1, <1>7, <1>8, <1>9 DEF Follows, Does

\* What all jumps of compiled functions have in common.
LEMMA KeepingIs ==
  ASSUME Translated, Kept, Typed, Kept', NEW ops \in SUBSET (Branches \cup Jumps), Jumping(ops), Keeping
  PROVE  /\ StackInv /\ StackInv' /\ m \in Machines /\ m.r["zero"] = 0 /\ NoZero
         /\ stack # <<>> /\ Top \in Frame /\ Small(Top) /\ At(stack) = Top.at
         /\ Top.at \in Exe /\ Top.at \in Loaded /\ Top.at + 1 \in Exe /\ Top.at + 2 \in Word
         /\ IsInstruction(code[Top.at]) /\ IsControlFlow(code[Top.at]) /\ code[Top.at].op \in ops
         /\ code[Top.at].imm \in Word /\ code[Top.at].s \in General
         /\ Conventional(code[Top.at], code[Top.at + 1])
<1>1. StackInv /\ StackInv' /\ InFunction /\ m \in Machines /\ m.r["zero"] = 0 /\ NoZero
      /\ Top.at + 1 \in Exe /\ Conventional(code[Top.at], code[Top.at + 1])
  BY DEF Kept, Typed, Jumping, Keeping
<1>2. /\ stack # <<>> /\ Top \in Frame /\ Top.at \in Exe
      /\ IsControlFlow(code[Top.at]) /\ code[Top.at].op \in ops
  BY <1>1, JumpingIs, CompiledIs
<1>3. Small(Top) /\ At(stack) = Top.at /\ Top.at + 2 \in Word /\ Top.at \in Loaded
  BY <1>1, <1>2, TopSmall, AddressWords DEF Loaded
<1>4. IsInstruction(code[Top.at])
  BY <1>3 DEF Translated
<1>. QED  BY <1>1, <1>2, <1>3, <1>4, InstructionIs

\* A frame that goes on elsewhere, and one that is entered.
LEMMA MovedSmall ==
  ASSUME Top \in Frame, Small(Top), NEW a \in Word
  PROVE  Small([Top EXCEPT !.at = a]) /\ [Top EXCEPT !.at = a].at = a
  BY DEF Small, Frame

LEMMA EnteredSmall ==
  ASSUME NEW a, Named(a)
  PROVE  Small(Entered(a)) /\ Entered(a).at = a
<1>1. a \in Word /\ 0 \in 0..MaxGuard
  BY AddressWords, GuardAssumption DEF Named
<1>2. Entered(a) = Compiled(a) \/ (a = Bios /\ Entered(a) = Kernel) \/ Entered(a) = Interpreted(a)
  BY NamedIs
<1>. QED  BY <1>1, <1>2 DEF Compiled, Kernel, Interpreted, Small

\* An instruction writes only the register it names.
LEMMA EmittedElse ==
  ASSUME NEW i, NEW x \in Machines, NEW l \in General, l # i.d
  PROVE  Emitted(i, x).r[l] = x.r[l]
<1>1. l \in Regs /\ l # "hi" /\ l # "lo" /\ Machine(x)
  BY MachineIs DEF Regs, General
<1>2. \A d, v : d # l => [x EXCEPT !.r[d] = v].r[l] = x.r[l]
  BY <1>1, SetRegister
<1>3. CASE i.op \in {"div", "divu"} /\ x.r[i.t] = 0
  <2>1. ~HasResult(i) /\ i.op # "addiu"
    BY <1>3 DEF HasResult, MulDiv
  <2>2. ZeroDivided(i, x).r[l] = x.r[l]
    BY <1>1 DEF ZeroDivided, Machine
  <2>. QED  BY <1>3, <2>1, <2>2 DEF Emitted
<1>4. CASE i.op = "addiu" /\ i.s = "zero"
  <2>1. HasResult(i) /\ i.op \notin {"div", "divu"}
    BY <1>4 DEF HasResult, MulDiv
  <2>. QED  BY <1>2, <1>4, <2>1 DEF Emitted
<1>5. CASE ~(i.op = "addiu" /\ i.s = "zero") /\ HasResult(i)
  <2>1. i.op \notin {"div", "divu"}
    BY <1>5 DEF HasResult, MulDiv
  <2>. QED  BY <1>2, <1>5, <2>1 DEF Emitted
<1>6. CASE ~HasResult(i) /\ ~(i.op \in {"div", "divu"} /\ x.r[i.t] = 0)
  <2>1. i.op # "addiu" /\ Emitted(i, x) = Elsewhere(i, x)
    BY <1>6 DEF HasResult, MulDiv, Emitted
  <2>2. CASE i.op \in {"mult", "multu"}
    BY <1>1, <2>1, <2>2 DEF Elsewhere, Multiplied, Machine
  <2>3. CASE i.op \in {"div", "divu"}
    BY <1>1, <2>1, <2>3 DEF Elsewhere, Divided, Machine
  <2>4. CASE i.op \in {"mthi", "mtlo"}
    BY <1>1, <1>2, <2>1, <2>4 DEF Elsewhere
  <2>5. CASE i.op = "sw"
    BY <1>1, <2>1, <2>5 DEF Elsewhere, Machine
  <2>. QED  BY <1>6, <2>2, <2>3, <2>4, <2>5 DEF HasResult, MulDiv
<1>. QED  BY <1>3, <1>4, <1>5, <1>6

LEMMA BranchDoes ==
  ASSUME Translated, Kept, Typed, kept', CompiledBranch, Kept'
  PROVE  Typed' /\ Follows
<1>. DEFINE p == Top.at
            i == code[p]
<1>1. /\ Jumping(Branches) /\ Keeping
      /\ m' = IF i.op \in Linking THEN [DelaySlot(p) EXCEPT !.r["ra"] = p + 2] ELSE DelaySlot(p)
      /\ stack' = Resume([Top EXCEPT !.at = IF Taken(i, m.r) THEN i.imm ELSE p + 2])
  BY DEF CompiledBranch
<1>2. /\ StackInv /\ StackInv' /\ NoZero /\ stack # <<>> /\ Top \in Frame /\ Small(Top)
      /\ At(stack) = p /\ p \in Exe /\ p \in Loaded /\ p + 1 \in Exe /\ p + 2 \in Word
      /\ IsControlFlow(i) /\ i.op \in Branches /\ i.imm \in Word /\ Conventional(i, code[p + 1])
  BY <1>1, KeepingIs
<1>3. PICK a \in Word : a = IF Taken(i, m.r) THEN i.imm ELSE p + 2
  BY <1>2
<1>4. PICK f : f = [Top EXCEPT !.at = a] /\ Small(f) /\ f.at = a
  BY <1>2, MovedSmall
<1>5. At(stack') = a /\ (m' \in Machines => Typed')
  BY <1>1, <1>2, <1>3, <1>4, NextFrame
<1>6. NextPc(i, p, m.r) = a
  BY <1>2, <1>3 DEF NextPc, Branches
<1>7. m' \in Machines /\ (AlignedCode => m' = Executed(code[p + 1], Linked(i, p, m)))
  <2>1. CASE i.op \in Linking
    <3>1. Link(i) = "ra"
      BY <1>2, <2>1 DEF Link, Linking, Branches
    <3>. QED  BY <1>1, <1>2, <2>1, <3>1, LinkedSlotIs
  <2>2. CASE i.op \notin Linking
    <3>1. Linked(i, p, m) = m
      BY <2>2 DEF Linked, Linking
    <3>2. m' = DelaySlot(p)
      BY <1>1, <2>2
    <3>. QED  BY <1>2, <3>1, <3>2, SlotIs DEF NoZero
  <2>. QED  BY <2>1, <2>2
<1>. QED  BY <1>2, <1>5, <1>6, <1>7 DEF Follows, Does

LEMMA JumpDoes ==
  ASSUME Translated, Kept, Typed, kept', CompiledJump, Kept'
  PROVE  Typed' /\ Follows
<1>. DEFINE p == Top.at
            i == code[p]
<1>1. /\ Jumping({"j"}) /\ Keeping /\ m' = DelaySlot(p) /\ stack' = Resume([Top EXCEPT !.at = i.imm])
  BY DEF CompiledJump
<1>2. /\ StackInv /\ StackInv' /\ NoZero /\ stack # <<>> /\ Top \in Frame /\ Small(Top)
      /\ At(stack) = p /\ p \in Exe /\ p \in Loaded /\ p + 1 \in Exe
      /\ IsControlFlow(i) /\ i.op = "j" /\ i.imm \in Word /\ Conventional(i, code[p + 1])
  BY <1>1, KeepingIs DEF Jumps
<1>3. PICK f : f = [Top EXCEPT !.at = i.imm] /\ Small(f) /\ f.at = i.imm
  BY <1>2, MovedSmall
<1>4. At(stack') = i.imm /\ (m' \in Machines => Typed')
  BY <1>1, <1>2, <1>3, NextFrame
<1>5. NextPc(i, p, m.r) = i.imm /\ Linked(i, p, m) = m
  BY <1>2 DEF NextPc, Linked, Branches
<1>6. m' \in Machines /\ (AlignedCode => m' = Executed(code[p + 1], Linked(i, p, m)))
  BY <1>1, <1>2, <1>5, SlotIs DEF NoZero
<1>. QED  BY <1>2, <1>4, <1>5, <1>6 DEF Follows, Does

LEMMA ReturnDoes ==
  ASSUME Translated, Kept, Typed, kept', CompiledReturn, Kept'
  PROVE  Typed' /\ Follows
<1>. DEFINE p == Top.at
            i == code[p]
<1>1. /\ Jumping({"jr"}) /\ Keeping /\ m' = DelaySlot(p) /\ stack' = Front(stack)
      /\ IsReturn(i) /\ ReturnsHome
  BY DEF CompiledReturn
<1>2. /\ StackInv /\ StackInv' /\ NoZero /\ stack # <<>>
      /\ At(stack) = p /\ p \in Exe /\ p \in Loaded /\ p + 1 \in Exe
      /\ IsControlFlow(i) /\ i.op = "jr" /\ Conventional(i, code[p + 1])
  BY <1>1, KeepingIs DEF Jumps
<1>3. At(stack') = Last(owed) /\ (m' \in Machines => Typed')
  BY <1>1, <1>2, LastFrame
<1>4. NextPc(i, p, m.r) = Last(owed) /\ Linked(i, p, m) = m
  BY <1>1, <1>2 DEF NextPc, Linked, Branches, IsReturn, ReturnsHome
<1>5. m' \in Machines /\ (AlignedCode => m' = Executed(code[p + 1], Linked(i, p, m)))
  BY <1>1, <1>2, <1>4, SlotIs DEF NoZero
<1>. QED  BY <1>2, <1>3, <1>4, <1>5 DEF Follows, Does

\* A call of the address in a.
LEMMA CallingDoes ==
  ASSUME StackInv, stack # <<>>, StackInv', Typed, Top \in Frame, Small(Top),
         Top.at + 2 \in Word, NEW a, Named(a),
         stack' = CallFrom([Top EXCEPT !.at = @ + 2], a)
  PROVE  At(stack') = a /\ (m' \in Machines => Typed')
<1>1. PICK f : f = [Top EXCEPT !.at = Top.at + 2] /\ Small(f)
  BY MovedSmall
<1>2. PICK g : g = Entered(a) /\ Small(g) /\ g.at = a
  BY EnteredSmall
<1>3. stack' = Append(Resume(f), g)
  BY <1>1, <1>2, NamedIs DEF CallFrom
<1>. QED  BY <1>1, <1>2, <1>3, NewFrame

\* A tail call of it.
LEMMA TailDoes ==
  ASSUME StackInv, stack # <<>>, StackInv', Typed, NEW a, Named(a), stack' = TailCall(a)
  PROVE  At(stack') = a /\ (m' \in Machines => Typed')
<1>1. PICK g : g = Entered(a) /\ Small(g) /\ g.at = a
  BY EnteredSmall
<1>2. stack' = Resume(g)
  BY <1>1, NamedIs DEF TailCall
<1>. QED  BY <1>1, <1>2, NextFrame

LEMMA CallDoes ==
  ASSUME Translated, Kept, Typed, kept', CompiledCall, Kept'
  PROVE  Typed' /\ Follows
<1>. DEFINE p == Top.at
            i == code[p]
<1>1. /\ Jumping({"jal"}) /\ Keeping /\ Named(i.imm)
      /\ m' = [DelaySlot(p) EXCEPT !.r["ra"] = p + 2]
      /\ stack' = CallFrom([Top EXCEPT !.at = @ + 2], i.imm)
  BY DEF CompiledCall
<1>2. /\ StackInv /\ StackInv' /\ NoZero /\ stack # <<>> /\ Top \in Frame /\ Small(Top)
      /\ At(stack) = p /\ p \in Exe /\ p \in Loaded /\ p + 1 \in Exe /\ p + 2 \in Word
      /\ IsControlFlow(i) /\ i.op = "jal" /\ Conventional(i, code[p + 1])
  BY <1>1, KeepingIs DEF Jumps
<1>3. PICK a : a = i.imm
  OBVIOUS
<1>4. At(stack') = a /\ (m' \in Machines => Typed')
  BY <1>1, <1>2, <1>3, CallingDoes
<1>5. NextPc(i, p, m.r) = a /\ i.op \in Linking /\ Link(i) = "ra"
  BY <1>2, <1>3 DEF NextPc, Branches, Linking, Link
<1>6. m' \in Machines /\ (AlignedCode => m' = Executed(code[p + 1], Linked(i, p, m)))
  BY <1>1, <1>2, <1>5, LinkedSlotIs
<1>. QED  BY <1>2, <1>4, <1>5, <1>6 DEF Follows, Does

LEMMA CallRegisterDoes ==
  ASSUME Translated, Kept, Typed, kept', CompiledCallRegister, Kept'
  PROVE  Typed' /\ Follows
<1>. DEFINE p == Top.at
            i == code[p]
<1>1. PICK a : a = m'.r[i.s]
  OBVIOUS
<1>2. /\ Jumping({"jalr"}) /\ Keeping /\ Named(a)
      /\ m' = [DelaySlot(p) EXCEPT !.r[i.d] = p + 2]
      /\ stack' = CallFrom([Top EXCEPT !.at = @ + 2], a)
  BY <1>1 DEF CompiledCallRegister
<1>3. /\ StackInv /\ StackInv' /\ NoZero /\ stack # <<>> /\ Top \in Frame /\ Small(Top) /\ m \in Machines
      /\ At(stack) = p /\ p \in Exe /\ p \in Loaded /\ p + 1 \in Exe /\ p + 2 \in Word
      /\ IsControlFlow(i) /\ i.op = "jalr" /\ i.s \in General /\ Conventional(i, code[p + 1])
  BY <1>2, KeepingIs DEF Jumps
<1>4. At(stack') = a /\ (m' \in Machines => Typed')
  BY <1>2, <1>3, CallingDoes
<1>5. i.op \in Linking /\ Link(i) = i.d
  BY <1>3 DEF Linking, Link
<1>6. m' \in Machines /\ (AlignedCode => m' = Executed(code[p + 1], Linked(i, p, m)))
  BY <1>2, <1>3, <1>5, LinkedSlotIs
<1>7. a = m.r[i.s]
  <2>1. PICK x \in Machines : x = DelaySlot(p) /\ x = Emitted(code[p + 1], m)
    BY <1>3, SlotIs DEF DelaySlot
  <2>2. i.s # code[p + 1].d /\ i.s # i.d
    BY <1>3, <1>5 DEF Conventional
  <2>3. x.r[i.s] = m.r[i.s]
    BY <1>3, <2>1, <2>2, EmittedElse
  <2>4. i.s \in Regs /\ Machine(x)
    BY <1>3, MachineIs DEF Regs
  <2>5. [x EXCEPT !.r[i.d] = p + 2].r[i.s] = x.r[i.s]
    BY <2>2, <2>4, SetRegister
  <2>. QED  BY <1>1, <1>2, <2>1, <2>3, <2>5
<1>8. NextPc(i, p, m.r) = a
  BY <1>3, <1>7 DEF NextPc, Branches
<1>. QED  BY <1>3, <1>4, <1>6, <1>8 DEF Follows, Does

LEMMA JumpRegisterDoes ==
  ASSUME Translated, Kept, Typed, kept', CompiledJumpRegister, Kept'
  PROVE  Typed' /\ Follows
<1>. DEFINE p == Top.at
            i == code[p]
<1>1. PICK a : a = m'.r[i.s]
  OBVIOUS
<1>2. /\ Jumping({"jr"}) /\ Keeping /\ Named(a) /\ m' = DelaySlot(p) /\ stack' = TailCall(a)
  BY <1>1 DEF CompiledJumpRegister
<1>3. /\ StackInv /\ StackInv' /\ NoZero /\ stack # <<>> /\ m \in Machines
      /\ At(stack) = p /\ p \in Exe /\ p \in Loaded /\ p + 1 \in Exe
      /\ IsControlFlow(i) /\ i.op = "jr" /\ i.s \in General /\ Conventional(i, code[p + 1])
  BY <1>2, KeepingIs DEF Jumps
<1>4. At(stack') = a /\ (m' \in Machines => Typed')
  BY <1>2, <1>3, TailDoes
<1>5. a = m.r[i.s]
  <2>1. m' = Emitted(code[p + 1], m)
    BY <1>2, <1>3 DEF DelaySlot
  <2>2. i.s # code[p + 1].d
    BY <1>3 DEF Conventional
  <2>. QED  BY <1>1, <1>3, <2>1, <2>2, EmittedElse
<1>6. NextPc(i, p, m.r) = a /\ Linked(i, p, m) = m
  BY <1>3, <1>5 DEF NextPc, Linked, Branches
<1>7. m' \in Machines /\ (AlignedCode => m' = Executed(code[p + 1], Linked(i, p, m)))
  BY <1>2, <1>3, <1>6, SlotIs DEF NoZero
<1>. QED  BY <1>3, <1>4, <1>6, <1>7 DEF Follows, Does

\* Going to another piece of the function, the processor does nothing.
LEMMA OtherPieceDoes ==
  ASSUME Translated, Kept, Typed, kept', ToOtherPiece, Kept'
  PROVE  Typed' /\ Follows
<1>1. PICK a : a = Top.at
  OBVIOUS
<1>2. stack # <<>> /\ stack' = TailCall(a) /\ Named(a) /\ m' = m /\ StackInv /\ StackInv' /\ m \in Machines
  BY <1>1 DEF ToOtherPiece, Doing, Kept, Typed
<1>3. At(stack') = a /\ At(stack) = a /\ (m' \in Machines => Typed')
  BY <1>1, <1>2, TailDoes, TopSmall
<1>. QED  BY <1>2, <1>3 DEF Follows

LEMMA KernelDoes ==
  ASSUME Translated, Kept, Typed, kept', KernelCall, Kept'
  PROVE  Typed' /\ Follows
<1>1. /\ stack # <<>> /\ Top.kind = "kernel" /\ stack' = Front(stack) /\ ReturnsHome
      /\ m' = [m EXCEPT !.r["a"] = 1] /\ StackInv /\ StackInv' /\ m \in Machines
  BY DEF KernelCall, Doing, Kept, Typed
<1>2. At(stack') = m.r["ra"] /\ (m' \in Machines => Typed')
  BY <1>1, LastFrame DEF ReturnsHome
<1>3. At(stack) = Bios
  BY <1>1, TopSmall, TopIs DEF Good
<1>4. m' \in Machines
  <2>1. "a" \in Regs /\ 1 \in Word
    BY WordIs DEF Regs, General
  <2>. QED  BY <1>1, <2>1, PutMachine
<1>. QED  BY <1>1, <1>2, <1>3, <1>4 DEF Follows, Does

\* An activation of the interpreter that goes on.
LEMMA AdvancedSmall ==
  ASSUME Top \in Frame, Small(Top), Top.guard < MaxGuard, NEW a \in Word, NEW b, NEW k
  PROVE  /\ Small(Advanced(a, k)) /\ Advanced(a, k).at = a
         /\ Small([Advanced(b, k) EXCEPT !.at = a]) /\ [Advanced(b, k) EXCEPT !.at = a].at = a
<1>1. Top.guard + 1 \in 0..MaxGuard
  BY GuardAssumption DEF Small
<1>. QED  BY <1>1 DEF Advanced, Small, Frame

\* The state an activation of the interpreter is in.
LEMMA HereIs ==
  ASSUME Translated, Kept, Typed, Kept', Interpreting
  PROVE  /\ StackInv /\ StackInv' /\ m \in Machines /\ m.r["zero"] = 0 /\ Machine(m)
         /\ stack # <<>> /\ Top \in Frame /\ Small(Top) /\ At(stack) = Top.at
         /\ Top.guard < MaxGuard /\ Top.sink = 0 /\ Here = [m |-> m, sink |-> 0]
         /\ Top.at \in Loaded /\ IsInstruction(code[Top.at])
<1>1. /\ StackInv /\ Machine(m) /\ m.r["zero"] = 0 /\ stack # <<>>
      /\ Top \in Frame /\ Top.at \in Loaded /\ Top.sink = 0
  BY InterpretedIs
<1>2. StackInv' /\ m \in Machines /\ Top.guard < MaxGuard
  BY DEF Kept, Typed, Interpreting
<1>3. Small(Top) /\ At(stack) = Top.at
  BY <1>1, TopSmall
<1>4. IsInstruction(code[Top.at])
  BY <1>1 DEF Translated
<1>. QED  BY <1>1, <1>2, <1>3, <1>4 DEF Here

LEMMA PlainDoes ==
  ASSUME Translated, Kept, Typed, kept', InterpretPlain, Kept'
  PROVE  Typed' /\ Follows
<1>. DEFINE p == Top.at
            i == code[p]
            s == Run(i, Here)
<1>1. /\ Interpreting /\ ~IsControlFlow(i) /\ m' = s.m /\ stack' = Resume(Advanced(p + 1, s.sink))
      /\ Divides(i) /\ p + 1 \in Loaded
  BY DEF InterpretPlain
<1>2. /\ StackInv /\ StackInv' /\ m \in Machines /\ m.r["zero"] = 0
      /\ stack # <<>> /\ Top \in Frame /\ Small(Top) /\ At(stack) = p
      /\ Top.guard < MaxGuard /\ Here = [m |-> m, sink |-> 0] /\ p \in Loaded /\ IsInstruction(i)
  BY <1>1, HereIs
<1>3. PICK f : f = Advanced(p + 1, s.sink) /\ Small(f) /\ f.at = p + 1
  <2>1. p + 1 \in Word
    BY <1>1, AddressWords
  <2>. HIDE DEF s
  <2>. QED  BY <1>2, <2>1, AdvancedSmall
<1>4. At(stack') = p + 1 /\ (m' \in Machines => Typed')
  <2>. HIDE DEF s
  <2>. QED  BY <1>1, <1>2, <1>3, NextFrame
<1>5. AlignedCode => ~Unaligned(i)
  BY <1>2 DEF AlignedCode
<1>6. m' \in Machines /\ (AlignedCode => m' = Executed(i, m))
  BY <1>1, <1>2, <1>5, RunIs DEF Divides
<1>. QED  BY <1>1, <1>2, <1>4, <1>6 DEF Follows, Does

\* The interpreter writes the link as the processor does ...
LEMMA WrittenLinked ==
  ASSUME m \in Machines, m.r["zero"] = 0, Top.sink = 0, NEW i, IsInstruction(i),
         i.op \in Linking => Link(i) # "zero"
  PROVE  Written(i) = [m |-> Linked(i, Top.at, m), sink |-> 0]
<1>1. CASE i.op \notin Linking
  BY <1>1 DEF Written, LinkSet, Here, Linked, Linking
<1>2. CASE i.op \in Linking
  <2>1. PICK l \in Regs : l = Link(i) /\ l # "zero"
    <3>1. i.d \in Regs /\ "ra" \in Regs
      BY InstructionIs DEF Regs, General
    <3>. QED  BY <1>2, <3>1 DEF Link, Linking
  <2>2. "zero" \in Regs
    BY DEF Regs, General
  <2>3. PICK y : y = [m EXCEPT !.r[l] = Top.at + 2]
    OBVIOUS
  <2>4. Linked(i, Top.at, m) = y
    BY <1>2, <2>1, <2>3 DEF Linked, Linking, Link, Put
  <2>5. [m EXCEPT !.r["zero"] = 0, !.r[l] = Top.at + 2] = y
    BY <2>2, <2>3 DEF Machines
  <2>6. [y EXCEPT !.r["zero"] = 0] = y /\ y.r["zero"] = 0
    BY <2>1, <2>2, <2>3 DEF Machines
  <2>. QED  BY <1>2, <2>1, <2>4, <2>5, <2>6 DEF Written, LinkSet, Here
<1>. QED  BY <1>1, <1>2

\* ... and goes where the processor goes.
LEMMA GoesIs ==
  ASSUME Machine(m), m.r["zero"] = 0, Top.sink = 0, NEW i, IsInstruction(i), IsControlFlow(i),
         i.op \in Linking => Link(i) \notin {i.s, "zero"}
  PROVE  GoesTo(i) = NextPc(i, Top.at, m.r)
<1>. DEFINE x == [Written(i).m.r EXCEPT !["zero"] = Written(i).sink]
<1>1. i.s \in Regs /\ i.t \in Regs /\ "zero" \in Regs
  BY InstructionIs DEF Regs, General
<1>2. x[i.s] = m.r[i.s]
  BY <1>1, JumpReads
<1>3. i.op \notin Linking => x[i.t] = m.r[i.t]
  <2>1. Machine(Written(i).m) /\ Written(i).sink = 0 /\ (i.op \notin Linking => Written(i).m.r[i.t] = m.r[i.t])
    BY <1>1, WrittenIs
  <2>. QED  BY <1>1, <2>1 DEF Machine
<1>4. GoesTo(i) = NextPc(i, Top.at, x)
  BY DEF GoesTo
<1>. HIDE DEF x
<1>5. CASE i.op \in Branches
  <2>1. Taken(i, x) <=> Taken(i, m.r)
    <3>1. CASE i.op \in {"beq", "bne"}
      <4>1. x[i.t] = m.r[i.t]
        BY <1>3, <3>1 DEF Linking
      <4>. QED  BY <1>2, <3>1, <4>1 DEF Taken
    <3>2. CASE i.op \in Branches \ {"beq", "bne"}
      BY <1>2, <3>2 DEF Taken, Branches
    <3>. QED  BY <1>5, <3>1, <3>2
  <2>. QED  BY <1>4, <1>5, <2>1 DEF NextPc, Branches
<1>6. CASE i.op \in Jumps
  BY <1>2, <1>4, <1>6 DEF NextPc, Jumps, Branches
<1>. QED  BY <1>5, <1>6 DEF IsControlFlow

\* The delay slot of an interpreted jump.
LEMMA InterpretedSlot ==
  ASSUME Translated, Kept, Typed, Top.sink = 0, NEW i, IsInstruction(i), Top.at + 1 \in Loaded,
         Conventional(i, code[Top.at + 1]), i.op \in Linking => Top.at + 2 \in Word
  PROVE  /\ Slot(i).m \in Machines
         /\ AlignedCode => Slot(i).m = Executed(code[Top.at + 1], Linked(i, Top.at, m))
<1>1. PICK j : j = code[Top.at + 1]
  OBVIOUS
<1>2. /\ IsInstruction(j) /\ ~IsControlFlow(j) /\ (j.op \in {"div", "divu"} => m.r[j.t] # 0)
      /\ m \in Machines /\ m.r["zero"] = 0 /\ (AlignedCode => ~Unaligned(j))
      /\ (i.op \in Linking => Link(i) \notin {i.s, j.d, j.s, j.t, "zero"})
  BY <1>1 DEF Translated, Conventional, Divides, Typed, Kept, AlignedCode
<1>3. PICK x : x = Linked(i, Top.at, m)
  OBVIOUS
<1>4. Slot(i) = Run(j, [m |-> x, sink |-> 0])
  <2>1. Written(i) = [m |-> x, sink |-> 0]
    BY <1>2, <1>3, WrittenLinked
  <2>. QED  BY <1>1, <1>2, <2>1 DEF Slot
<1>5. x \in Machines /\ x.r["zero"] = 0 /\ (j.op \in {"div", "divu"} => x.r[j.t] # 0)
  <2>1. CASE i.op \notin Linking
    BY <1>2, <1>3, <2>1 DEF Linked, Linking
  <2>2. CASE i.op \in Linking
    <3>1. PICK l \in General : l = Link(i) /\ l # j.t /\ l # "zero"
      <4>1. i.d \in General /\ "ra" \in General
        BY InstructionIs DEF General
      <4>. QED  BY <1>2, <2>2, <4>1 DEF Link, Linking
    <3>2. PICK v \in Word : v = Top.at + 2
      BY <2>2
    <3>3. x = [m EXCEPT !.r[l] = v]
      BY <1>3, <2>2, <3>1, <3>2 DEF Linked, Linking, Link, Put
    <3>4. l \in Regs /\ j.t \in Regs /\ "zero" \in Regs
      BY <1>2, InstructionIs DEF Regs, General
    <3>5. x \in Machines
      BY <1>2, <3>3, <3>4, PutMachine
    <3>6. x.r[j.t] = m.r[j.t] /\ x.r["zero"] = m.r["zero"]
      BY <1>2, <3>1, <3>3, <3>4 DEF Machines
    <3>. QED  BY <1>2, <3>5, <3>6
  <2>. QED  BY <2>1, <2>2
<1>. QED  BY <1>1, <1>2, <1>3, <1>4, <1>5, RunIs

LEMMA InterpretJumpDoes ==
  ASSUME Translated, Kept, Typed, kept', InterpretJump, Kept'
  PROVE  Typed' /\ Follows
<1>. DEFINE p == Top.at
            i == code[p]
            next == Advanced(p + 2, Slot(i).sink)
<1>1. PICK a : a = GoesTo(i)
  OBVIOUS
<1>2. /\ Interpreting /\ IsControlFlow(i) /\ m' = Slot(i).m /\ p + 1 \in Loaded
      /\ Conventional(i, code[p + 1]) /\ Plausible(a)
      /\ IF IsReturn(i) THEN ReturnsHome ELSE Named(a)
      /\ IsCall(i) => p + 2 \in Loaded
  BY <1>1 DEF InterpretJump
<1>3. \/ /\ ~Plausible(a)
         /\ stack' = IF IsCall(i) THEN Resume(next) ELSE Front(stack)
      \/ /\ Plausible(a) /\ IsReturn(i) /\ a # Bios
         /\ stack' = Front(stack)
      \/ /\ Plausible(a) /\ IsCall(i)
         /\ stack' = CallFrom(next, a)
      \/ /\ Plausible(a) /\ ~IsCall(i) /\ (IsReturn(i) => a = Bios)
         /\ stack' = IF a = Bios \/ (a # p + 2 /\ a \in dispatch) THEN TailCall(a)
                     ELSE Resume([next EXCEPT !.at = a])
  BY <1>1 DEF InterpretJump
<1>4. /\ StackInv /\ StackInv' /\ m \in Machines /\ m.r["zero"] = 0 /\ Machine(m) /\ stack # <<>>
      /\ Top \in Frame /\ Small(Top) /\ At(stack) = p /\ Top.guard < MaxGuard /\ Top.sink = 0
      /\ p \in Loaded /\ IsInstruction(i)
  BY <1>2, HereIs
<1>5. a = NextPc(i, p, m.r)
  <2>1. i.op \in Linking => Link(i) \notin {i.s, "zero"}
    BY <1>2 DEF Conventional
  <2>. QED  BY <1>1, <1>2, <1>4, <2>1, GoesIs
<1>6. i.op \in Linking => p + 2 \in Word
  <2>1. CASE IsCall(i)
    BY <1>2, <2>1, AddressWords
  <2>2. ASSUME ~IsCall(i), i.op \in Linking PROVE p + 2 \in Word
    <3>1. a = p + 2 /\ Named(a)
      BY <1>1, <1>2, <2>2 DEF IsCall, IsReturn, Linking
    <3>. QED  BY <3>1, AddressWords DEF Named
  <2>. QED  BY <2>1, <2>2
<1>7. m' \in Machines /\ (AlignedCode => m' = Executed(code[p + 1], Linked(i, p, m)))
  BY <1>2, <1>4, <1>6, InterpretedSlot
<1>8. PICK k : k = Slot(i).sink
  OBVIOUS
<1>9. PICK f : f = Advanced(p + 2, k)
  OBVIOUS
<1>. HIDE DEF i
<1>10. ASSUME IsReturn(i) PROVE Typed' /\ At(stack') = a
  <2>1. a = Last(owed)
    BY <1>2, <1>5, <1>10 DEF NextPc, IsReturn, ReturnsHome, Branches
  <2>2. a # Bios /\ ~IsCall(i)
    BY <1>4, <1>10, <2>1, ReturnIs DEF IsCall, IsReturn, Linking
  <2>3. stack' = Front(stack)
    BY <1>2, <1>3, <1>10, <2>2
  <2>. QED  BY <1>4, <1>7, <2>1, <2>3, LastFrame
<1>11. ASSUME IsCall(i) PROVE Typed' /\ At(stack') = a
  <2>1. ~IsReturn(i) /\ Named(a) /\ p + 2 \in Word
    BY <1>2, <1>6, <1>11 DEF IsReturn, IsCall, Linking
  <2>2. PICK g : g = Entered(a) /\ Small(g) /\ g.at = a
    BY <2>1, EnteredSmall
  <2>3. stack' = Append(Resume(f), g)
    BY <1>2, <1>3, <1>8, <1>9, <1>11, <2>1, <2>2, NamedIs DEF CallFrom
  <2>4. Small(f)
    BY <1>4, <1>9, <2>1, AdvancedSmall
  <2>. QED  BY <1>4, <1>7, <2>2, <2>3, <2>4, NewFrame
<1>12. ASSUME ~IsReturn(i) /\ ~IsCall(i) PROVE Typed' /\ At(stack') = a
  <2>1. /\ Named(a)
        /\ stack' = IF a = Bios \/ (a # p + 2 /\ a \in dispatch) THEN TailCall(a)
                    ELSE Resume([f EXCEPT !.at = a])
    BY <1>2, <1>3, <1>8, <1>9, <1>12
  <2>2. CASE a = Bios \/ (a # p + 2 /\ a \in dispatch)
    BY <1>4, <1>7, <2>1, <2>2, TailDoes
  <2>3. CASE ~(a = Bios \/ (a # p + 2 /\ a \in dispatch))
    <3>1. a \in Word
      BY <2>1, AddressWords DEF Named
    <3>2. PICK g : g = [f EXCEPT !.at = a]
      OBVIOUS
    <3>3. Small(g) /\ g.at = a
      BY <1>4, <1>9, <3>1, <3>2, AdvancedSmall
    <3>4. stack' = Resume(g)
      BY <2>1, <2>3, <3>2
    <3>. QED  BY <1>4, <1>7, <3>3, <3>4, NextFrame
  <2>. QED  BY <2>2, <2>3
<1>13. Typed' /\ At(stack') = a
  BY <1>10, <1>11, <1>12
<1>. QED  BY <1>2, <1>4, <1>5, <1>7, <1>13 DEF Follows, Does, i

----------------------------------------------------------------------------
(* Every step is one of the processor. *)

LEMMA StepDoes ==
  ASSUME Translated, Kept, Typed, kept', Next, Kept'
  PROVE  Typed' /\ Follows
<1>1. CASE Statement
  BY <1>1, StatementDoes
<1>2. CASE Dropped
  BY <1>2, NothingDropped
<1>3. CASE CompiledBranch
  BY <1>3, BranchDoes
<1>4. CASE CompiledJump
  BY <1>4, JumpDoes
<1>5. CASE CompiledReturn
  BY <1>5, ReturnDoes
<1>6. CASE CompiledCall
  BY <1>6, CallDoes
<1>7. CASE CompiledCallRegister
  BY <1>7, CallRegisterDoes
<1>8. CASE CompiledJumpRegister
  BY <1>8, JumpRegisterDoes
<1>9. CASE Leave
  BY <1>9, NothingLeaves
<1>10. CASE ToOtherPiece
  BY <1>10, OtherPieceDoes
<1>11. CASE KernelCall
  BY <1>11, KernelDoes
<1>12. CASE InterpretPlain
  BY <1>12, PlainDoes
<1>13. CASE InterpretJump
  BY <1>13, InterpretJumpDoes
<1>14. CASE GuardHit
  BY <1>14 DEF GuardHit
<1>15. CASE Halted
  <2>1. UNCHANGED <<m, stack>>
    BY <1>15 DEF Halted, vars
  <2>2. Typed'
    BY <2>1 DEF Typed, Small
  <2>. QED  BY <2>1, <2>2 DEF Follows
<1>. QED  BY <1>1, <1>2, <1>3, <1>4, <1>5, <1>6, <1>7, <1>8, <1>9, <1>10, <1>11, <1>12,
            <1>13, <1>14, <1>15 DEF Next

\* The stack is that of the calls, and everything on it and in the machine is
\* a word: what the step of the processor is computed from.
ProgramInv == CallInv /\ (kept => Typed)

LEMMA ProgramInit == Init => ProgramInv
<1>. SUFFICES ASSUME Init PROVE ProgramInv
  OBVIOUS
<1>1. CallInv
  BY CallInit
<1>2. m \in Machines
  <2>1. PICK g \in Games : code = g.code /\ m = g.m
    BY DEF Init
  <2>. QED  BY <2>1, GamesAssumption
<1>3. Small(Compiled(0))
  <2>1. 0 \in Word /\ 0 \in 0..MaxGuard
    BY WordIs, GuardAssumption
  <2>. QED  BY <2>1 DEF Compiled, Small
<1>4. PICK f : f = Compiled(0)
  OBVIOUS
<1>5. Len(stack) = 1 /\ stack[1] = f
  BY <1>4 DEF Init
<1>. QED  BY <1>1, <1>2, <1>3, <1>4, <1>5 DEF ProgramInv, Typed

LEMMA ProgramStep == ProgramInv /\ [Next]_vars => ProgramInv'
<1>. SUFFICES ASSUME ProgramInv, [Next]_vars PROVE ProgramInv'
  OBVIOUS
<1>1. CallInv /\ CallInv'
  BY CallStep DEF ProgramInv
<1>2. CASE UNCHANGED vars
  <2>1. UNCHANGED <<m, stack, kept>>
    BY <1>2 DEF vars
  <2>2. Typed => Typed'
    BY <2>1 DEF Typed, Small
  <2>. QED  BY <1>1, <2>1, <2>2 DEF ProgramInv
<1>3. CASE Next
  <2>1. ASSUME kept' PROVE Typed'
    <3>1. kept
      BY <1>1, <1>3, <2>1, KeptBefore DEF CallInv
    <3>2. Translated /\ Kept /\ Typed /\ Kept'
      BY <1>1, <2>1, <3>1 DEF ProgramInv, CallInv
    <3>. QED  BY <1>3, <2>1, <3>2, StepDoes
  <2>. QED  BY <1>1, <2>1 DEF ProgramInv
<1>. QED  BY <1>2, <1>3

LEMMA ProgramInductive == Spec => []ProgramInv
<1>1. Init => ProgramInv
  BY ProgramInit
<1>2. ProgramInv /\ [Next]_vars => ProgramInv'
  BY ProgramStep
<1>. QED  BY <1>1, <1>2, PTL DEF Spec

LEMMA StepIsOfProcessor ==
  ASSUME ProgramInv, ProgramInv', AlignedCode, [Next]_vars
  PROVE  [Processor!Next]_<<code, At(stack), m, kept>>
<1>1. CASE UNCHANGED vars
  <2>1. UNCHANGED <<code, stack, m, kept>>
    BY <1>1 DEF vars
  <2>. QED  BY <2>1
<1>2. CASE Next
  <2>1. code' = code
    BY <1>2, ProgramStays
  <2>2. CASE ~kept'
    BY <2>1, <2>2 DEF Processor!Next
  <2>3. CASE kept'
    <3>1. kept /\ kept \in BOOLEAN /\ kept' \in BOOLEAN
      BY <1>2, <2>3, KeptBefore DEF ProgramInv, CallInv
    <3>2. Translated /\ Kept /\ Typed /\ Kept'
      BY <2>3, <3>1 DEF ProgramInv, CallInv
    <3>3. Does(At(stack), At(stack')) \/ UNCHANGED <<m, At(stack)>>
      BY <1>2, <2>3, <3>2, StepDoes DEF Follows
    <3>4. CASE UNCHANGED <<m, At(stack)>>
      BY <2>1, <2>3, <3>1, <3>4
    <3>5. CASE Does(At(stack), At(stack'))
      <4>1. DOMAIN code = Loaded
        BY <3>2 DEF Translated
      <4>2. Processor!Step
        <5>. DEFINE a == At(stack)
        <5>1. CASE a = Bios /\ m' = [m EXCEPT !.r["a"] = 1] /\ At(stack') = m.r["ra"]
          BY <5>1 DEF Processor!Step, Processor!Kernel
        <5>2. CASE a \in Loaded /\ ~IsControlFlow(code[a]) /\ m' = Executed(code[a], m) /\ At(stack') = a + 1
          <6>1. Processor!Plain(code[a])
            BY <5>2, ProcessorIs DEF Processor!Plain
          <6>. QED  BY <4>1, <5>2, <6>1 DEF Processor!Step
        <5>3. CASE /\ a \in Loaded /\ IsControlFlow(code[a])
                   /\ m' = Executed(code[a + 1], Linked(code[a], a, m)) /\ At(stack') = NextPc(code[a], a, m.r)
          <6>1. Processor!WithDelaySlot(code[a])
            BY <5>3, ProcessorIs DEF Processor!WithDelaySlot
          <6>. QED  BY <4>1, <5>3, <6>1 DEF Processor!Step
        <5>. QED  BY <3>5, <5>1, <5>2, <5>3 DEF Does
      <4>. QED  BY <2>1, <3>1, <4>2 DEF Processor!Next
    <3>. QED  BY <3>3, <3>4, <3>5
  <2>. QED  BY <2>2, <2>3
<1>. QED  BY <1>1, <1>2

\* A translated program computes what the processor would: every step of C, of
\* the interpreter and of the calls between them is one instruction of the
\* original with its delay slot, or moves between frames while the processor
\* stands still (code_generator.cpp 806-1325, runtime.c 1508-1832, 1886-1990).
\* It holds for every program without unaligned loads, whose translation
\* differs, for as long as the program keeps to the conventions.
THEOREM ProgramAlwaysComputed ==
  ASSUME Aligned
  PROVE  Spec => ComputesTheProgram
<1>1. Init => AlignedCode /\ Processor!Init
  <2>. SUFFICES ASSUME Init PROVE AlignedCode /\ Processor!Init
    OBVIOUS
  <2>1. PICK g \in Games : code = g.code /\ m = g.m
    BY DEF Init
  <2>2. AlignedCode
    BY <2>1 DEF Aligned, AlignedCode
  <2>3. m.r["zero"] = 0
    BY <2>1, GamesAssumption
  <2>. QED  BY <2>2, <2>3 DEF Processor!Init
<1>2. AlignedCode /\ [Next]_vars => AlignedCode'
  <2>1. [Next]_vars => code' = code
    BY ProgramStays DEF vars
  <2>. QED  BY <2>1 DEF AlignedCode, Unaligned
<1>3. ProgramInv /\ ProgramInv' /\ AlignedCode /\ [Next]_vars
        => [Processor!Next]_<<code, At(stack), m, kept>>
  BY StepIsOfProcessor
<1>. QED  BY <1>1, <1>2, <1>3, ProgramInductive, PTL DEF Spec, ComputesTheProgram, Processor!Spec

\* What is generated and what it works on is well formed: functions for what is
\* on the stack, an exit for each branch, and words in every register, every
\* place of memory and every frame while the program keeps to the conventions
\* (code_generator.cpp 862, runtime.c 1508-1990).
THEOREM TranslationAlwaysOK == Spec => []TranslationOK
<1>1. ProgramInv => TypeOK
  <2>. SUFFICES ASSUME ProgramInv PROVE TypeOK
    OBVIOUS
  <2>1. dispatch \subseteq 0..ExeEnd /\ kept \in BOOLEAN
    BY DEF ProgramInv, CallInv, Translated
  <2>2. ASSUME kept PROVE m \in Machines /\ \A n \in DOMAIN stack : FrameOK(stack[n])
    <3>1. m \in Machines /\ StackInv /\ \A n \in 1..Len(stack) : Small(stack[n])
      BY <2>2 DEF ProgramInv, CallInv, Kept, Typed
    <3>2. DOMAIN stack = 1..Len(stack) /\ 0 \in Word
      BY <3>1, WordIs DEF StackInv
    <3>3. ASSUME NEW n \in 1..Len(stack) PROVE FrameOK(stack[n])
      <4>1. Good(stack[n]) /\ Small(stack[n])
        BY <3>1 DEF StackInv
      <4>. QED  BY <3>2, <4>1 DEF Good, Frame, Small, FrameOK
    <3>. QED  BY <3>1, <3>2, <3>3
  <2>. QED  BY <2>1, <2>2 DEF TypeOK
<1>. QED  BY <1>1, ProgramInductive, BranchesAlwaysTranslated, PTL DEF TranslationOK
============================================================================
