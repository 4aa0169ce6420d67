----------------------------- MODULE GpuProofs -----------------------------
(***************************************************************************)
(* For every table that fits a walk: its elements are sent in order, none  *)
(* twice, and none is left out unless the links enter a ring behind the    *)
(* first element.  For all words that begin no polyline, however they are  *)
(* spread: the renderer is told what they say in sequence.                 *)
(***************************************************************************)
EXTENDS Gpu, FiniteSetTheorems, SequenceTheorems, WellFoundedInduction, TLAPS

\* Where a link may lead.
Elements == DOMAIN table \cup {End}

\* Where the links lead, without an end to the counting.
Leads(h) == /\ h \in [Nat -> Elements]
            /\ \A n \in Nat : h[n + 1] = Following(h[n])

\* What was sent of it: no end, no kernel's memory, and the two pointers have
\* not met.
SentAlong(h) ==
  /\ steps = Len(walked)
  /\ \A j \in 0..(Len(walked) - 1) : walked[j + 1] = h[j] /\ h[j] # End /\ ~table[h[j]].kernel
  /\ \A j \in 1..(Len(walked) - 1) : h[j] # h[2 * j]

\* The walk is at the next element, the hare at twice the distance, or at the
\* last element before the end.
OnTheWay(h) ==
  LET k == Len(walked)
  IN  /\ ptr = h[k] /\ ptr # End
      /\ hare \in DOMAIN table
      /\ hare = h[2 * k] \/ (h[2 * k] = End /\ table[hare].next = End)
      /\ k > 0 => h[k] # h[2 * k]

\* Why it ended.
Over(h) ==
  LET k == Len(walked)
  IN  \/ k = Limit \/ h[k] = End \/ table[h[k]].kernel
      \/ k > 0 /\ h[k] = h[2 * k] /\ h[k] # End

WalkInv ==
  /\ table \in Tables /\ ptr \in DOMAIN table \cup {Nobody}
  /\ steps \in 0..Limit /\ jobs \in 0..MaxJobs
  /\ walked \in Seq(DOMAIN table)
  /\ ptr # Nobody => \E h : Leads(h) /\ SentAlong(h) /\ OnTheWay(h)
  /\ ptr = Nobody /\ walked # <<>> => \E h : Leads(h) /\ SentAlong(h) /\ Over(h)
----------------------------------------------------------------------------
(* Natural numbers. *)

\* A set of natural numbers that is not empty has a least element.
LEMMA MinIs ==
  ASSUME NEW S \in SUBSET Nat, S # {}
  PROVE  Min(S) \in S /\ \A y \in S : Min(S) <= y
<1>. DEFINE T == {0..x : x \in S}
<1>1. T \subseteq FiniteSubsetsOf(Nat) /\ T # {}
  <2>1. \A x \in S : 0..x \in SUBSET Nat /\ IsFiniteSet(0..x)
    BY FS_Interval
  <2>. QED  BY <2>1 DEF FiniteSubsetsOf
<1>2. PICK t \in T : \A u \in T : <<u, t>> \notin StrictSubsetOrdering(Nat)
  <2>. HIDE DEF T
  <2>. QED  BY <1>1, FS_StrictSubsetOrderingWellFounded, WFMin
<1>3. PICK x \in S : t = 0..x
  OBVIOUS
<1>4. \A y \in S : x <= y
  <2>. SUFFICES ASSUME NEW y \in S, y < x PROVE FALSE
    OBVIOUS
  <2>1. 0..y \in T /\ 0..y \subseteq 0..x /\ 0..y # 0..x
    <3>1. x \in 0..x /\ x \notin 0..y
      OBVIOUS
    <3>. QED  BY <3>1
  <2>2. <<0..y, 0..x>> \in StrictSubsetOrdering(Nat)
    BY <2>1 DEF StrictSubsetOrdering
  <2>. QED  BY <1>2, <1>3, <2>1, <2>2
<1>. QED  BY <1>4 DEF Min

\* Induction, for a set.
LEMMA EveryNat ==
  ASSUME NEW T, 0 \in T, \A n \in Nat : n \in T => n + 1 \in T
  PROVE  \A n \in Nat : n \in T
<1>. SUFFICES ASSUME NEW g \in Nat, g \notin T PROVE FALSE
  OBVIOUS
<1>. DEFINE S == {0..x : x \in Nat \ T}
<1>1. S \subseteq FiniteSubsetsOf(Nat) /\ S # {}
  <2>1. \A x \in Nat : 0..x \in SUBSET Nat /\ IsFiniteSet(0..x)
    BY FS_Interval
  <2>2. 0..g \in S
    OBVIOUS
  <2>. QED  BY <2>1, <2>2 DEF FiniteSubsetsOf
<1>2. PICK t \in S : \A u \in S : <<u, t>> \notin StrictSubsetOrdering(Nat)
  <2>. HIDE DEF S
  <2>. QED  BY <1>1, FS_StrictSubsetOrderingWellFounded, WFMin
<1>3. PICK x \in Nat \ T : t = 0..x
  OBVIOUS
<1>4. x - 1 \in Nat /\ x - 1 \notin T /\ (x - 1) + 1 = x
  BY <1>3
<1>5. 0..(x - 1) \in S /\ 0..(x - 1) \subseteq 0..x /\ x \in 0..x /\ x \notin 0..(x - 1)
  BY <1>4
<1>6. <<0..(x - 1), 0..x>> \in StrictSubsetOrdering(Nat)
  BY <1>5 DEF StrictSubsetOrdering
<1>. QED  BY <1>2, <1>3, <1>5, <1>6

\* Steps of d from 0 come to any number, and pass it by less than d.
LEMMA StepsReach ==
  ASSUME NEW P \in SUBSET Nat, NEW d \in Nat, d > 0, 0 \in P, \A q \in P : q + d \in P
  PROVE  \A i \in Nat : \E q \in P : i <= q /\ q < i + d
<1>. DEFINE T == {i \in Nat : \E q \in P : i <= q /\ q < i + d}
<1>1. 0 \in T
  OBVIOUS
<1>2. \A n \in Nat : n \in T => n + 1 \in T
  <2>. SUFFICES ASSUME NEW n \in Nat, NEW q \in P, n <= q, q < n + d PROVE n + 1 \in T
    OBVIOUS
  <2>1. CASE q = n
    <3>1. q + d \in P /\ n + 1 <= q + d /\ q + d < n + 1 + d
      BY <2>1
    <3>. QED  BY <3>1
  <2>2. CASE q # n
    <3>1. n + 1 <= q /\ q < n + 1 + d
      BY <2>2
    <3>. QED  BY <3>1
  <2>. QED  BY <2>1, <2>2
<1>3. \A n \in Nat : n \in T
  <2>. HIDE DEF T
  <2>. QED  BY <1>1, <1>2, EveryNat
<1>. QED  BY <1>3
----------------------------------------------------------------------------
(* Links. *)

\* A function leads from each of its arguments somewhere forever.
LEMMA Iterated ==
  ASSUME NEW D, NEW e \in D, NEW f \in [D -> D]
  PROVE  \E h \in [Nat -> D] : h[0] = e /\ \A n \in Nat : h[n + 1] = f[h[n]]
<1>. DEFINE UpTo(g, n) == /\ g \in [0..n -> D] /\ g[0] = e
                          /\ \A k \in 0..(n - 1) : g[k + 1] = f[g[k]]
<1>1. \A n \in Nat : \E g : UpTo(g, n)
  <2>. DEFINE T == {n \in Nat : \E g : UpTo(g, n)}
  <2>1. 0 \in T
    <3>1. UpTo([k \in 0..0 |-> e], 0)
      OBVIOUS
    <3>. QED  BY <3>1
  <2>2. \A n \in Nat : n \in T => n + 1 \in T
    <3>. SUFFICES ASSUME NEW n \in Nat, NEW g, UpTo(g, n) PROVE n + 1 \in T
      OBVIOUS
    <3>. DEFINE g2 == [k \in 0..(n + 1) |-> IF k = n + 1 THEN f[g[n]] ELSE g[k]]
    <3>1. g[n] \in D /\ f[g[n]] \in D
      OBVIOUS
    <3>2. g2 \in [0..(n + 1) -> D] /\ g2[0] = e
      BY <3>1
    <3>3. ASSUME NEW k \in 0..n PROVE g2[k + 1] = f[g2[k]]
      <4>1. CASE k = n
        BY <4>1
      <4>2. CASE k # n
        <5>1. g2[k + 1] = g[k + 1] /\ g2[k] = g[k] /\ k \in 0..(n - 1)
          BY <4>2
        <5>. QED  BY <5>1
      <4>. QED  BY <4>1, <4>2
    <3>4. UpTo(g2, n + 1)
      <4>1. (n + 1) - 1 = n
        OBVIOUS
      <4>. HIDE DEF g2
      <4>. QED  BY <3>2, <3>3, <4>1
    <3>. QED  BY <3>4
  <2>3. \A n \in Nat : n \in T
    <3>. HIDE DEF T
    <3>. QED  BY <2>1, <2>2, EveryNat
  <2>. QED  BY <2>3
<1>2. ASSUME NEW n \in Nat, NEW m \in Nat, NEW g, NEW g2, UpTo(g, n), UpTo(g2, m)
      PROVE  \A k \in Nat : k <= n /\ k <= m => g[k] = g2[k]
  <2>. DEFINE T == {k \in Nat : k <= n /\ k <= m => g[k] = g2[k]}
  <2>1. 0 \in T
    BY <1>2
  <2>2. \A k \in Nat : k \in T => k + 1 \in T
    <3>. SUFFICES ASSUME NEW k \in Nat, k \in T, k + 1 <= n, k + 1 <= m PROVE g[k + 1] = g2[k + 1]
      OBVIOUS
    <3>1. k \in 0..(n - 1) /\ k \in 0..(m - 1) /\ g[k] = g2[k]
      OBVIOUS
    <3>. QED  BY <3>1, <1>2
  <2>3. \A k \in Nat : k \in T
    <3>. HIDE DEF T
    <3>. QED  BY <2>1, <2>2, EveryNat
  <2>. QED  BY <2>3
<1>. DEFINE G(n) == CHOOSE g : UpTo(g, n)
            h == [n \in Nat |-> G(n)[n]]
<1>3. \A n \in Nat : UpTo(G(n), n)
  BY <1>1
<1>4. \A n \in Nat : h[n] \in D
  BY <1>3
<1>5. h \in [Nat -> D] /\ h[0] = e
  BY <1>3, <1>4
<1>6. ASSUME NEW n \in Nat PROVE h[n + 1] = f[h[n]]
  <2>1. G(n + 1)[n + 1] = f[G(n + 1)[n]]
    <3>. HIDE DEF G
    <3>1. n + 1 \in Nat /\ n \in 0..((n + 1) - 1)
      OBVIOUS
    <3>2. UpTo(G(n + 1), n + 1)
      BY <1>3, <3>1
    <3>. QED  BY <3>1, <3>2
  <2>2. G(n + 1)[n] = G(n)[n]
    <3>. HIDE DEF G, UpTo
    <3>1. n <= n + 1 /\ n + 1 \in Nat
      OBVIOUS
    <3>2. UpTo(G(n + 1), n + 1) /\ UpTo(G(n), n)
      BY <1>3, <3>1
    <3>. QED  BY <3>1, <3>2, <1>2
  <2>. HIDE DEF G
  <2>. QED  BY <2>1, <2>2
<1>. HIDE DEF h
<1>. QED  BY <1>5, <1>6

\* What the assumption says of the table in memory.
LEMMA TableIs ==
  ASSUME table \in Tables
  PROVE  /\ IsFiniteSet(DOMAIN table) /\ End \notin DOMAIN table /\ Nobody \notin DOMAIN table
         /\ \A e \in DOMAIN table : table[e].next \in Elements /\ table[e].words \in Seq(Word)
                                    /\ table[e].kernel \in BOOLEAN
         /\ \A e \in Elements : Following(e) \in Elements
BY TablesAssumption DEF Elements, Following

\* The links lead on from every element, without an end to the counting.
LEMMA LeadsFrom ==
  ASSUME table \in Tables, NEW e \in DOMAIN table
  PROVE  \E h : Leads(h) /\ h[0] = e
<1>. DEFINE f == [x \in Elements |-> Following(x)]
<1>1. e \in Elements /\ f \in [Elements -> Elements]
  BY TableIs DEF Elements
<1>2. PICK h \in [Nat -> Elements] : h[0] = e /\ \A n \in Nat : h[n + 1] = f[h[n]]
  <2>. HIDE DEF f
  <2>. QED  BY <1>1, Iterated
<1>3. \A n \in Nat : h[n + 1] = Following(h[n])
  BY <1>2
<1>. QED  BY <1>2, <1>3 DEF Leads

\* From the same element the links lead the same way.
LEMMA SameWay ==
  ASSUME NEW h, Leads(h), NEW i \in Nat, NEW j \in Nat, h[i] = h[j]
  PROVE  \A n \in Nat : h[i + n] = h[j + n]
<1>. DEFINE T == {n \in Nat : h[i + n] = h[j + n]}
<1>1. 0 \in T
  OBVIOUS
<1>2. \A n \in Nat : n \in T => n + 1 \in T
  <2>. SUFFICES ASSUME NEW n \in Nat, h[i + n] = h[j + n] PROVE h[i + (n + 1)] = h[j + (n + 1)]
    OBVIOUS
  <2>1. i + n \in Nat /\ j + n \in Nat /\ i + (n + 1) = (i + n) + 1 /\ j + (n + 1) = (j + n) + 1
    OBVIOUS
  <2>2. h[(i + n) + 1] = Following(h[i + n]) /\ h[(j + n) + 1] = Following(h[j + n])
    BY <2>1 DEF Leads
  <2>. QED  BY <2>1, <2>2
<1>3. \A n \in Nat : n \in T
  <2>. HIDE DEF T
  <2>. QED  BY <1>1, <1>2, EveryNat
<1>. QED  BY <1>3

\* Behind the end there is nothing.
LEMMA EndStays ==
  ASSUME NEW h, Leads(h), NEW i \in Nat, h[i] = End
  PROVE  \A n \in Nat : h[i + n] = End
<1>. DEFINE T == {n \in Nat : h[i + n] = End}
<1>1. 0 \in T
  OBVIOUS
<1>2. \A n \in Nat : n \in T => n + 1 \in T
  <2>. SUFFICES ASSUME NEW n \in Nat, h[i + n] = End PROVE h[i + (n + 1)] = End
    OBVIOUS
  <2>1. i + n \in Nat /\ i + (n + 1) = (i + n) + 1
    OBVIOUS
  <2>2. h[(i + n) + 1] = Following(h[i + n])
    BY <2>1 DEF Leads
  <2>. QED  BY <2>1, <2>2 DEF Following
<1>3. \A n \in Nat : n \in T
  <2>. HIDE DEF T
  <2>. QED  BY <1>1, <1>2, EveryNat
<1>. QED  BY <1>3

Repeats(h, i, q) == \A x \in Nat : i <= x => h[x] = h[x + q]

\* Elements that come again come again after every multiple of the distance.
LEMMA Periodic ==
  ASSUME NEW h, Leads(h), NEW i \in Nat, NEW d \in Nat, d > 0, h[i] = h[i + d], NEW m \in Nat
  PROVE  \E q \in Nat : m <= q /\ q < m + d /\ Repeats(h, i, q)
<1>. DEFINE P == {q \in Nat : \A x \in Nat : i <= x => h[x] = h[x + q]}
<1>1. 0 \in P
  OBVIOUS
<1>2. \A x \in Nat : i <= x => h[x] = h[x + d]
  <2>. SUFFICES ASSUME NEW x \in Nat, i <= x PROVE h[x] = h[x + d]
    OBVIOUS
  <2>1. x - i \in Nat /\ i + d \in Nat
    OBVIOUS
  <2>2. h[i + (x - i)] = h[(i + d) + (x - i)]
    BY <2>1, SameWay
  <2>3. i + (x - i) = x /\ (i + d) + (x - i) = x + d
    OBVIOUS
  <2>. QED  BY <2>2, <2>3
<1>3. \A q \in P : q + d \in P
  <2>. SUFFICES ASSUME NEW q \in P, NEW x \in Nat, i <= x PROVE h[x] = h[x + (q + d)]
    OBVIOUS
  <2>1. x + q \in Nat /\ i <= x + q /\ (x + q) + d = x + (q + d)
    OBVIOUS
  <2>2. h[x] = h[x + q]
    OBVIOUS
  <2>3. h[x + q] = h[(x + q) + d]
    BY <1>2, <2>1
  <2>. QED  BY <2>1, <2>2, <2>3
<1>4. P \in SUBSET Nat
  OBVIOUS
<1>5. \E q \in P : m <= q /\ q < m + d
  <2>. HIDE DEF P
  <2>. QED  BY <1>1, <1>3, <1>4, StepsReach
<1>. QED  BY <1>5 DEF Repeats

\* Two pointers, one twice as fast, meet no later than the first element that
\* comes again.
LEMMA Meeting ==
  ASSUME NEW h, Leads(h), NEW i \in Nat, NEW j \in Nat, i < j, h[i] = h[j]
  PROVE  \E t \in 1..j : h[t] = h[2 * t]
<1>1. PICK d \in Nat : d > 0 /\ i + d = j
  <2>1. j - i \in Nat /\ j - i > 0 /\ i + (j - i) = j
    OBVIOUS
  <2>. QED  BY <2>1
<1>2. PICK m \in Nat : m >= 1 /\ i <= m /\ m <= i + 1 /\ (i > 0 => m = i)
  <2>1. CASE i = 0
    <3>1. 1 \in Nat /\ 1 >= 1 /\ i <= 1 /\ 1 <= i + 1
      BY <2>1
    <3>. QED  BY <2>1, <3>1
  <2>2. CASE i # 0
    BY <2>2
  <2>. QED  BY <2>1, <2>2
<1>3. h[i] = h[i + d]
  BY <1>1
<1>4. PICK q \in Nat : m <= q /\ q < m + d /\ Repeats(h, i, q)
  BY <1>1, <1>3, Periodic
<1>5. q \in 1..j
  BY <1>1, <1>2, <1>4
<1>6. h[q] = h[q + q] /\ q + q = 2 * q
  BY <1>2, <1>4 DEF Repeats
<1>. QED  BY <1>5, <1>6

----------------------------------------------------------------------------
(* The path of a walk. *)

\* Element n is one to send.
New(h, n) == h[n] # End /\ ~table[h[n]].kernel /\ \A k \in 0..(n - 1) : h[k] # h[n]

\* Trail is what its definition says, as far as it is defined.
LEMMA TrailIs ==
  ASSUME table \in Tables, NEW h, Leads(h), h[0] = walked[1]
  PROVE  /\ DOMAIN Trail = 0..Cardinality(DOMAIN table)
         /\ \A n \in 0..Cardinality(DOMAIN table) : Trail[n] = h[n]
<1>1. PICK N \in Nat : N = Cardinality(DOMAIN table)
  BY TableIs, FS_CardinalityType
<1>. DEFINE Is(t) == t = [n \in 0..N |-> IF n = 0 THEN walked[1] ELSE Following(t[n - 1])]
            F == [n \in 0..N |-> h[n]]
<1>2. Is(F)
  <2>1. ASSUME NEW n \in 0..N, n # 0 PROVE h[n] = Following(F[n - 1])
    <3>1. n - 1 \in Nat /\ n - 1 \in 0..N /\ (n - 1) + 1 = n
      BY <2>1
    <3>2. h[(n - 1) + 1] = Following(h[n - 1])
      BY <3>1 DEF Leads
    <3>. QED  BY <3>1, <3>2
  <2>2. \A n \in 0..N : h[n] = IF n = 0 THEN walked[1] ELSE Following(F[n - 1])
    BY <2>1
  <2>. HIDE DEF F
  <2>3. F = [n \in 0..N |-> h[n]]
    BY DEF F
  <2>. QED  BY <2>2, <2>3
<1>3. Trail = CHOOSE t : Is(t)
  BY <1>1 DEF Trail
<1>4. Is(Trail)
  <2>. HIDE DEF F, Is
  <2>. QED  BY <1>2, <1>3
<1>. DEFINE T == {n \in Nat : n <= N => Trail[n] = h[n]}
<1>5. 0 \in T
  BY <1>4
<1>6. \A n \in Nat : n \in T => n + 1 \in T
  <2>. SUFFICES ASSUME NEW n \in Nat, Trail[n] = h[n], n + 1 <= N PROVE Trail[n + 1] = h[n + 1]
    OBVIOUS
  <2>1. n + 1 \in 0..N /\ n + 1 # 0 /\ (n + 1) - 1 = n
    OBVIOUS
  <2>2. Trail[n + 1] = Following(Trail[n])
    BY <1>4, <2>1
  <2>3. h[n + 1] = Following(h[n])
    BY DEF Leads
  <2>. QED  BY <2>2, <2>3
<1>7. \A n \in Nat : n \in T
  <2>. HIDE DEF T
  <2>. QED  BY <1>5, <1>6, EveryNat
<1>8. DOMAIN Trail = 0..N
  BY <1>4
<1>9. \A n \in 0..N : Trail[n] = h[n]
  BY <1>7
<1>. HIDE DEF T, Is, F
<1>. QED  BY <1>1, <1>8, <1>9

\* A table has only so many elements: sooner or later one is not new.
LEMMA NotAllNew ==
  ASSUME table \in Tables, NEW h, Leads(h)
  PROVE  \E n \in 0..Cardinality(DOMAIN table) : ~New(h, n)
<1>1. PICK N \in Nat : N = Cardinality(DOMAIN table)
  BY TableIs, FS_CardinalityType
<1>. SUFFICES ASSUME \A n \in 0..N : New(h, n) PROVE FALSE
  BY <1>1
<1>. DEFINE f == [n \in 0..N |-> h[n]]
<1>2. \A n \in 0..N : h[n] \in DOMAIN table
  BY DEF New, Leads, Elements
<1>3. f \in [0..N -> DOMAIN table]
  BY <1>2
<1>4. IsFiniteSet(0..N) /\ Cardinality(0..N) = N + 1
  BY FS_Interval
<1>5. \E x, y \in 0..N : x # y /\ f[x] = f[y]
  <2>1. IsFiniteSet(DOMAIN table) /\ Cardinality(DOMAIN table) < Cardinality(0..N)
    BY <1>1, <1>4, TableIs
  <2>. HIDE DEF f
  <2>. QED  BY <1>3, <1>4, <2>1, FS_PigeonHole
<1>6. PICK x \in 0..N, y \in 0..N : x # y /\ h[x] = h[y]
  BY <1>5
<1>7. CASE x < y
  <2>1. x \in 0..(y - 1)
    BY <1>7
  <2>. QED  BY <2>1, <1>6 DEF New
<1>8. CASE y < x
  <2>1. y \in 0..(x - 1)
    BY <1>8
  <2>. QED  BY <2>1, <1>6 DEF New
<1>. QED  BY <1>6, <1>7, <1>8

\* The path is the elements before the first that is not new.
LEMMA PathIs ==
  ASSUME table \in Tables, NEW h, Leads(h), h[0] = walked[1]
  PROVE  \E L \in 0..Cardinality(DOMAIN table) :
           /\ Path = [k \in 1..L |-> h[k - 1]]
           /\ ~New(h, L) /\ \A n \in 0..(L - 1) : New(h, n)
<1>1. PICK N \in Nat : N = Cardinality(DOMAIN table)
  BY TableIs, FS_CardinalityType
<1>2. DOMAIN Trail = 0..N /\ \A n \in 0..N : Trail[n] = h[n]
  BY <1>1, TrailIs
<1>3. \A n \in 0..N : Fresh(n) <=> New(h, n)
  <2>. SUFFICES ASSUME NEW n \in 0..N PROVE Fresh(n) <=> New(h, n)
    OBVIOUS
  <2>1. \A k \in 0..(n - 1) : k \in 0..N
    OBVIOUS
  <2>. QED  BY <1>2, <2>1 DEF Fresh, New
<1>. DEFINE S == {n \in DOMAIN Trail : ~Fresh(n)}
<1>4. S \in SUBSET Nat /\ S # {}
  BY <1>1, <1>2, <1>3, NotAllNew
<1>5. PICK L \in 0..N : L = Min(S) /\ L \in S /\ \A y \in S : L <= y
  <2>1. Min(S) \in S /\ \A y \in S : Min(S) <= y
    <3>. HIDE DEF S
    <3>. QED  BY <1>4, MinIs
  <2>2. S \subseteq 0..N
    BY <1>2
  <2>. QED  BY <2>1, <2>2
<1>6. ~New(h, L)
  BY <1>3, <1>5
<1>7. ASSUME NEW n \in 0..(L - 1) PROVE New(h, n)
  <2>1. n \in 0..N /\ ~(L <= n)
    OBVIOUS
  <2>2. n \notin S
    BY <1>5, <2>1
  <2>. QED  BY <1>2, <1>3, <2>1, <2>2
<1>8. Path = [k \in 1..L |-> h[k - 1]]
  <2>1. Path = [k \in 1..L |-> Trail[k - 1]]
    BY <1>5 DEF Path
  <2>2. \A k \in 1..L : Trail[k - 1] = h[k - 1]
    <3>1. \A k \in 1..L : k - 1 \in 0..N
      OBVIOUS
    <3>. QED  BY <1>2, <3>1
  <2>. QED  BY <2>1, <2>2
<1>. QED  BY <1>1, <1>6, <1>7, <1>8

\* What was sent had not been sent before.
LEMMA SentNew ==
  ASSUME NEW h, Leads(h), SentAlong(h), walked \in Seq(DOMAIN table)
  PROVE  \A n \in 0..(Len(walked) - 1) : New(h, n)
<1>. SUFFICES ASSUME NEW n \in 0..(Len(walked) - 1) PROVE New(h, n)
  OBVIOUS
<1>1. h[n] # End /\ ~table[h[n]].kernel
  BY DEF SentAlong
<1>2. ASSUME NEW k \in 0..(n - 1), h[k] = h[n] PROVE FALSE
  <2>1. k \in Nat /\ n \in Nat /\ k < n
    OBVIOUS
  <2>2. PICK t \in 1..n : h[t] = h[2 * t]
    BY <1>2, <2>1, Meeting
  <2>3. t \in 1..(Len(walked) - 1)
    OBVIOUS
  <2>. QED  BY <2>2, <2>3 DEF SentAlong
<1>. QED  BY <1>1, <1>2 DEF New

\* Where the two pointers meet on a way that leads on behind what was sent,
\* there is neither an end nor a way back to the first element.
LEMMA RoundBehind ==
  ASSUME NEW h, Leads(h), NEW k \in Nat, k > 0, h[k] = h[2 * k], h[k] # End, h[k] # h[0]
  PROVE  \A n \in Nat : n > 0 => h[n] # End /\ h[n] # h[0]
<1>1. h[k] = h[k + k] /\ 2 * k = k + k
  OBVIOUS
<1>2. ASSUME NEW n \in Nat, h[n] = End PROVE FALSE
  <2>1. PICK q \in Nat : n <= q /\ q < n + k /\ Repeats(h, k, q)
    BY <1>1, Periodic
  <2>2. h[k] = h[k + q]
    BY <2>1 DEF Repeats
  <2>3. (k + q) - n \in Nat /\ n + ((k + q) - n) = k + q
    BY <2>1
  <2>4. h[n + ((k + q) - n)] = End
    BY <1>2, <2>3, EndStays
  <2>. QED  BY <2>2, <2>3, <2>4
<1>3. ASSUME NEW n \in Nat, n > 0, h[n] = h[0] PROVE FALSE
  <2>1. h[0] = h[0 + n]
    BY <1>3
  <2>2. PICK q \in Nat : k <= q /\ q < k + n /\ Repeats(h, 0, q)
    BY <1>3, <2>1, Periodic
  <2>3. h[0] = h[q] /\ h[k] = h[k + q]
    <3>1. 0 + q = q /\ 0 <= k
      OBVIOUS
    <3>. QED  BY <2>2, <3>1 DEF Repeats
  <2>4. PICK r \in Nat : k + r = q /\ (k + k) + r = k + q
    <3>1. q - k \in Nat /\ k + (q - k) = q /\ (k + k) + (q - k) = k + q
      BY <2>2
    <3>. QED  BY <3>1
  <2>5. h[k + r] = h[(k + k) + r]
    <3>1. k + k \in Nat
      OBVIOUS
    <3>. QED  BY <1>1, <3>1, SameWay
  <2>. QED  BY <2>3, <2>4, <2>5
<1>. QED  BY <1>2, <1>3

\* What was sent is a beginning of the path, and all of it when the walk is over.
LEMMA TablesSentIs ==
  ASSUME TablesFit, WalkInv PROVE TablesSent
<1>. SUFFICES ASSUME walked # <<>>
              PROVE  IsPrefix(walked, Path) /\ (ptr = Nobody => Len(walked) = Len(Path) \/ RingBehind)
  BY DEF TablesSent, NoElementTwice, TablesComplete
<1>1. PICK h : Leads(h) /\ SentAlong(h) /\ (ptr = Nobody => Over(h))
  BY DEF WalkInv
<1>2. PICK k \in Nat : k = Len(walked) /\ k > 0
  BY DEF WalkInv
<1>3. h[0] = walked[1]
  BY <1>1, <1>2 DEF SentAlong
<1>4. table \in Tables /\ walked \in Seq(DOMAIN table)
  BY DEF WalkInv
<1>5. PICK N \in Nat : N = Cardinality(DOMAIN table)
  BY <1>4, TableIs, FS_CardinalityType
<1>6. PICK L \in 0..N : /\ Path = [j \in 1..L |-> h[j - 1]]
                        /\ ~New(h, L) /\ \A n \in 0..(L - 1) : New(h, n)
  BY <1>1, <1>3, <1>4, <1>5, PathIs
<1>7. \A n \in 0..(k - 1) : New(h, n)
  BY <1>1, <1>2, <1>4, SentNew
<1>8. k <= L
  <2>. SUFFICES ASSUME L < k PROVE FALSE
    BY <1>2
  <2>1. L \in 0..(k - 1)
    BY <1>2
  <2>. QED  BY <1>6, <1>7, <2>1
<1>9. Path \in Seq(Elements) /\ Len(Path) = L
  <2>1. \A j \in 1..L : h[j - 1] \in Elements
    <3>1. \A j \in 1..L : j - 1 \in Nat
      OBVIOUS
    <3>. QED  BY <1>1, <3>1 DEF Leads
  <2>. QED  BY <1>6, <2>1
<1>10. IsPrefix(walked, Path)
  <2>1. \A j \in 1..k : walked[j] = Path[j]
    <3>. SUFFICES ASSUME NEW j \in 1..k PROVE walked[j] = h[j - 1]
      BY <1>6, <1>8
    <3>1. j - 1 \in 0..(k - 1) /\ (j - 1) + 1 = j
      OBVIOUS
    <3>. QED  BY <1>1, <1>2, <3>1 DEF SentAlong
  <2>2. SubSeq(walked, 1, k) = SubSeq(Path, 1, k)
    <3>1. \A j \in 1..k : walked[j] \in Elements /\ Path[j] \in Elements
      BY <1>2, <1>4, <1>8, <1>9 DEF Elements
    <3>2. /\ SubSeq(walked, 1, k) \in Seq(Elements) /\ Len(SubSeq(walked, 1, k)) = k
          /\ \A j \in 1..k : SubSeq(walked, 1, k)[j] = walked[j]
      BY <1>2, <3>1, SubSeqProperties
    <3>3. /\ SubSeq(Path, 1, k) \in Seq(Elements) /\ Len(SubSeq(Path, 1, k)) = k
          /\ \A j \in 1..k : SubSeq(Path, 1, k)[j] = Path[j]
      BY <1>2, <3>1, SubSeqProperties
    <3>. QED  BY <2>1, <3>2, <3>3, SeqEqual
  <2>. QED  BY <1>2, <1>8, <1>9, <2>2 DEF IsPrefix
<1>11. ASSUME ptr = Nobody PROVE k = L \/ RingBehind
  <2>. SUFFICES ASSUME k < L PROVE RingBehind
    BY <1>8
  <2>1. New(h, k)
    BY <1>6
  <2>2. k # Limit
    <3>1. Limit \in Nat /\ N <= Limit
      BY <1>4, <1>5, BoundsAssumption DEF TablesFit
    <3>. QED  BY <3>1
  <2>3. h[k] = h[2 * k]
    BY <1>1, <1>2, <1>11, <2>1, <2>2 DEF Over, New
  <2>4. h[k] # End /\ h[k] # h[0]
    <3>1. 0 \in 0..(k - 1)
      BY <1>2
    <3>. QED  BY <2>1, <3>1 DEF New
  <2>5. \A n \in Nat : n > 0 => h[n] # End /\ h[n] # h[0]
    BY <1>1, <1>2, <2>3, <2>4, RoundBehind
  <2>6. DOMAIN Trail = 0..N /\ \A n \in 0..N : Trail[n] = h[n]
    BY <1>1, <1>3, <1>4, <1>5, TrailIs
  <2>7. \A n \in DOMAIN Trail \ {0} : n \in Nat /\ n > 0 /\ Trail[n] = h[n]
    BY <2>6
  <2>. QED  BY <1>3, <2>5, <2>7 DEF RingBehind
<1>. QED  BY <1>2, <1>9, <1>10, <1>11

----------------------------------------------------------------------------
(* The walk. *)

\* No walk is on its way at first.
LEMMA WalkInit == Init => WalkInv
<1>. SUFFICES ASSUME Init PROVE WalkInv
  OBVIOUS
<1>1. 0 \in 0..Limit /\ 0 \in 0..MaxJobs
  BY BoundsAssumption
<1>2. <<>> \in Seq(DOMAIN table)
  OBVIOUS
<1>. QED  BY <1>1, <1>2 DEF Init, WalkInv

\* What leaves memory and pointers alone.
LEMMA MemoryKeeps ==
  ASSUME WalkInv, UNCHANGED <<table, ptr, hare, steps, walked>>, jobs' \in 0..MaxJobs
  PROVE  WalkInv'
<1>1. \A h : /\ Leads(h)' <=> Leads(h)
             /\ SentAlong(h)' <=> SentAlong(h)
             /\ OnTheWay(h)' <=> OnTheWay(h)
             /\ Over(h)' <=> Over(h)
  BY DEF Leads, Elements, Following, SentAlong, OnTheWay, Over
<1>. HIDE DEF Leads, SentAlong, OnTheWay, Over
<1>. QED  BY <1>1 DEF WalkInv

\* A job more stays within the bound.
LEMMA JobIs == Job /\ WalkInv => jobs' \in 0..MaxJobs
BY BoundsAssumption DEF Job, WalkInv

\* A walk begins with both pointers on the first element.
LEMMA DrawOTagKeeps ==
  ASSUME WalkInv, DrawOTag
  PROVE  WalkInv'
<1>1. table' = table /\ jobs' \in 0..MaxJobs /\ ptr = Nobody
  BY JobIs DEF DrawOTag, Job
<1>2. PICK e \in DOMAIN table :
        IF table[e].kernel THEN UNCHANGED <<ptr, hare, steps, walked>>
        ELSE ptr' = e /\ hare' = e /\ steps' = 0 /\ walked' = <<>>
  BY DEF DrawOTag
<1>3. CASE table[e].kernel
  BY <1>1, <1>2, <1>3, MemoryKeeps
<1>4. CASE ~table[e].kernel
  <2>1. ptr' = e /\ hare' = e /\ steps' = 0 /\ walked' = <<>>
    BY <1>2, <1>4
  <2>2. table \in Tables /\ e # End /\ e # Nobody
    BY TableIs DEF WalkInv
  <2>3. PICK h : Leads(h) /\ h[0] = e
    BY <2>2, LeadsFrom
  <2>4. Leads(h)'
    BY <1>1, <2>3 DEF Leads, Elements, Following
  <2>5. SentAlong(h)'
    BY <2>1 DEF SentAlong
  <2>6. OnTheWay(h)'
    BY <1>1, <2>1, <2>2, <2>3 DEF OnTheWay
  <2>7. 0 \in 0..Limit /\ <<>> \in Seq(DOMAIN table)
    BY BoundsAssumption
  <2>. QED  BY <1>1, <2>1, <2>2, <2>4, <2>5, <2>6, <2>7 DEF WalkInv
<1>. QED  BY <1>3, <1>4

\* One element of the way: it is sent, the walk goes on by one link, the hare
\* by two.
LEMMA WalkStepKeeps ==
  ASSUME WalkInv, WalkStep
  PROVE  WalkInv'
<1>1. table' = table /\ jobs' = jobs /\ ptr # Nobody /\ table \in Tables
  BY DEF WalkStep, WalkInv
<1>2. PICK h : Leads(h) /\ SentAlong(h) /\ OnTheWay(h)
  BY <1>1 DEF WalkInv
<1>3. PICK k \in Nat : k = Len(walked)
  BY DEF WalkInv
<1>4. /\ ptr = h[k] /\ ptr # End /\ ptr \in DOMAIN table /\ steps = k /\ k <= Limit
      /\ hare \in DOMAIN table
      /\ hare = h[2 * k] \/ (h[2 * k] = End /\ table[hare].next = End)
      /\ k > 0 => h[k] # h[2 * k]
      /\ walked \in Seq(DOMAIN table)
  <2>1. ptr \in DOMAIN table /\ walked \in Seq(DOMAIN table) /\ steps \in 0..Limit
    BY <1>1 DEF WalkInv
  <2>2. steps = k
    BY <1>2, <1>3 DEF SentAlong
  <2>3. k <= Limit
    BY <2>1, <2>2, BoundsAssumption
  <2>4. /\ ptr = h[k] /\ ptr # End /\ hare \in DOMAIN table
        /\ hare = h[2 * k] \/ (h[2 * k] = End /\ table[hare].next = End)
        /\ k > 0 => h[k] # h[2 * k]
    BY <1>2, <1>3 DEF OnTheWay
  <2>. QED  BY <2>1, <2>2, <2>3, <2>4
<1>5. Leads(h)'
  BY <1>1, <1>2 DEF Leads, Elements, Following
<1>6. CASE steps = Limit \/ table[ptr].kernel
  <2>1. ptr' = Nobody /\ walked' = walked /\ steps' = steps
    BY <1>6 DEF WalkStep, Stopped
  <2>2. SentAlong(h)'
    BY <1>1, <1>2, <2>1 DEF SentAlong
  <2>3. Over(h)'
    BY <1>1, <1>3, <1>4, <1>6, <2>1 DEF Over
  <2>. QED  BY <1>1, <1>5, <2>1, <2>2, <2>3 DEF WalkInv
<1>7. CASE steps # Limit /\ ~table[ptr].kernel
  <2>. DEFINE next == table[ptr].next
  <2>1. /\ walked' = Append(walked, ptr) /\ steps' = steps + 1
        /\ IF next = End THEN Stopped
           ELSE IF ~Hared.ended /\ Hared.at = next THEN Stopped
           ELSE ptr' = next /\ hare' = Hared.at
    BY <1>7 DEF WalkStep
  <2>2. k + 1 \in Nat /\ k + 1 <= Limit /\ steps' = k + 1
    BY <1>4, <1>7, <2>1, BoundsAssumption
  <2>3. /\ walked' \in Seq(DOMAIN table) /\ Len(walked') = k + 1
        /\ \A j \in 1..k : walked'[j] = walked[j]
        /\ walked'[k + 1] = ptr /\ walked' # <<>>
    BY <1>3, <1>4, <2>1, AppendProperties
  <2>4. next = h[k + 1] /\ next \in Elements
    <3>1. h[k + 1] = Following(h[k])
      BY <1>2 DEF Leads
    <3>. QED  BY <1>1, <1>4, <3>1, TableIs DEF Following
  <2>5. SentAlong(h)'
    <3>1. \A j \in 0..k : walked'[j + 1] = h[j] /\ h[j] # End /\ ~table[h[j]].kernel
      <4>. SUFFICES ASSUME NEW j \in 0..k PROVE walked'[j + 1] = h[j] /\ h[j] # End /\ ~table[h[j]].kernel
        OBVIOUS
      <4>1. CASE j = k
        BY <1>4, <1>7, <2>3, <4>1
      <4>2. CASE j # k
        <5>1. j \in 0..(Len(walked) - 1) /\ j + 1 \in 1..k
          BY <1>3, <4>2
        <5>2. walked[j + 1] = h[j] /\ h[j] # End /\ ~table[h[j]].kernel
          BY <1>2, <5>1 DEF SentAlong
        <5>. QED  BY <2>3, <5>1, <5>2
      <4>. QED  BY <4>1, <4>2
    <3>2. \A j \in 1..k : h[j] # h[2 * j]
      <4>. SUFFICES ASSUME NEW j \in 1..k PROVE h[j] # h[2 * j]
        OBVIOUS
      <4>1. CASE j = k
        BY <1>4, <4>1
      <4>2. CASE j # k
        <5>1. j \in 1..(Len(walked) - 1)
          BY <1>3, <4>2
        <5>. QED  BY <1>2, <5>1 DEF SentAlong
      <4>. QED  BY <4>1, <4>2
    <3>3. (k + 1) - 1 = k
      OBVIOUS
    <3>. QED  BY <1>1, <2>2, <2>3, <3>1, <3>2, <3>3 DEF SentAlong
  <2>6. CASE next = End
    <3>1. ptr' = Nobody
      BY <2>1, <2>6 DEF Stopped
    <3>2. Over(h)'
      BY <2>3, <2>4, <2>6 DEF Over
    <3>. QED  BY <1>1, <1>5, <2>2, <2>3, <2>5, <3>1, <3>2, BoundsAssumption DEF WalkInv
  <2>7. CASE next # End
    <3>. DEFINE one == table[hare].next
                two == table[one].next
    <3>1. PICK d \in Nat : d = 2 * k /\ 2 * (k + 1) = (d + 1) + 1
      <4>1. 2 * k \in Nat /\ 2 * (k + 1) = ((2 * k) + 1) + 1
        OBVIOUS
      <4>. QED  BY <4>1
    <3>2. h[d + 1] = Following(h[d]) /\ h[(d + 1) + 1] = Following(h[d + 1])
      <4>1. d + 1 \in Nat
        OBVIOUS
      <4>. QED  BY <1>2, <4>1 DEF Leads
    <3>3. CASE one = End
      <4>1. Hared = [at |-> hare, ended |-> TRUE]
        BY <3>3 DEF Hared
      <4>2. h[d + 1] = End
        BY <1>4, <3>1, <3>2, <3>3 DEF Following
      <4>3. h[2 * (k + 1)] = End
        BY <3>1, <3>2, <4>2 DEF Following
      <4>4. ptr' = next /\ hare' = hare
        BY <2>1, <2>7, <4>1
      <4>5. OnTheWay(h)'
        BY <1>1, <1>4, <2>3, <2>4, <2>7, <3>3, <4>3, <4>4 DEF OnTheWay
      <4>. QED  BY <1>1, <1>5, <2>2, <2>3, <2>4, <2>5, <2>7, <4>4, <4>5, TableIs, BoundsAssumption DEF WalkInv, Elements
    <3>4. CASE one # End
      <4>1. hare = h[d] /\ one = h[d + 1] /\ one \in DOMAIN table
        BY <1>1, <1>4, <3>1, <3>2, <3>4, TableIs DEF Following, Elements
      <4>2. two = h[2 * (k + 1)] /\ two \in Elements
        BY <1>1, <3>1, <3>2, <3>4, <4>1, TableIs DEF Following
      <4>3. CASE two = End
        <5>1. Hared = [at |-> one, ended |-> TRUE]
          BY <3>4, <4>3 DEF Hared
        <5>2. ptr' = next /\ hare' = one
          BY <2>1, <2>7, <5>1
        <5>3. OnTheWay(h)'
          BY <1>1, <2>3, <2>4, <2>7, <4>1, <4>2, <4>3, <5>2 DEF OnTheWay
        <5>. QED  BY <1>1, <1>5, <2>2, <2>3, <2>4, <2>5, <2>7, <5>2, <5>3, TableIs, BoundsAssumption DEF WalkInv, Elements
      <4>4. CASE two # End
        <5>1. Hared = [at |-> two, ended |-> FALSE]
          BY <3>4, <4>4 DEF Hared
        <5>2. CASE two = next
          <6>1. ptr' = Nobody
            BY <2>1, <2>7, <5>1, <5>2 DEF Stopped
          <6>2. Over(h)'
            BY <2>3, <2>4, <2>7, <4>2, <5>2 DEF Over
          <6>. QED  BY <1>1, <1>5, <2>2, <2>3, <2>5, <6>1, <6>2, BoundsAssumption DEF WalkInv
        <5>3. CASE two # next
          <6>1. ptr' = next /\ hare' = two
            BY <2>1, <2>7, <5>1, <5>3
          <6>2. OnTheWay(h)'
            BY <1>1, <2>3, <2>4, <2>7, <4>2, <4>4, <5>3, <6>1 DEF OnTheWay, Elements
          <6>. QED  BY <1>1, <1>5, <2>2, <2>3, <2>4, <2>5, <2>7, <6>1, <6>2, TableIs, BoundsAssumption DEF WalkInv, Elements
        <5>. QED  BY <5>2, <5>3
      <4>. QED  BY <4>3, <4>4
    <3>. QED  BY <3>3, <3>4
  <2>. QED  BY <2>6, <2>7
<1>. QED  BY <1>6, <1>7

\* The walk's invariant is kept by every step.
LEMMA WalkNext == WalkInv /\ [Next]_vars => WalkInv'
<1>. SUFFICES ASSUME WalkInv, [Next]_vars PROVE WalkInv'
  OBVIOUS
<1>1. CASE WriteGP0
  BY <1>1, JobIs, MemoryKeeps DEF WriteGP0, Memory
<1>2. CASE DmaBlock
  BY <1>2, JobIs, MemoryKeeps DEF DmaBlock, Memory
<1>3. CASE ResetGPU
  BY <1>3, JobIs, MemoryKeeps DEF ResetGPU, Memory
<1>4. CASE ResetCommandBuffer
  BY <1>4, JobIs, MemoryKeeps DEF ResetCommandBuffer, Memory
<1>5. CASE GetGPUInfo
  BY <1>5, JobIs, MemoryKeeps DEF GetGPUInfo, Memory
<1>6. CASE ReadGPUREAD
  BY <1>6, MemoryKeeps DEF ReadGPUREAD, Memory, WalkInv
<1>7. CASE DrawOTag
  BY <1>7, DrawOTagKeeps
<1>8. CASE WalkStep
  BY <1>8, WalkStepKeeps
<1>9. CASE UNCHANGED vars
  BY <1>9, MemoryKeeps DEF vars, WalkInv
<1>. QED  BY <1>1, <1>2, <1>3, <1>4, <1>5, <1>6, <1>7, <1>8, <1>9 DEF Next

\* DrawOTag and the linked-list DMA: along its links a table is sent in order,
\* no element twice, and completely, unless the links enter a ring behind its
\* first element; for every table that has no more elements than a walk visits.
THEOREM TablesAlwaysSent ==
  ASSUME TablesFit
  PROVE  Spec => []TablesSent
<1>1. WalkInv => TablesSent
  BY TablesSentIs
<1>. QED  BY <1>1, WalkInit, WalkNext, PTL DEF Spec

----------------------------------------------------------------------------
(* What words say. *)

\* The pixels of a word, and what the renderer may be told.
Half == Nat \X {"low", "high"}
Data == Plain \cup Half

\* As in Meaning.
LastWords(ws, n) == SubSeq(ws, Len(ws) - n + 1, Len(ws))
\* The equation of Meaning's recursive function.
Saying(f, ws, n) ==
  IF n = 0 \/ n < Extent(LastWords(ws, n)) THEN <<>>
  ELSE Says(SubSeq(LastWords(ws, n), 1, Extent(LastWords(ws, n)))) \o f[n - Extent(LastWords(ws, n))]
SaysOf(f, ws, n) == f = [k \in 0..n |-> Saying(f, ws, k)]

\* An upload has a natural number of pixels, in half as many words.
LEMMA PixelsIs ==
  ASSUME NEW w \in Plain
  PROVE  Pixels(w) \in Nat /\ WordsOf(Pixels(w)) \in Nat
<1>1. PICK a \in Nat, b \in Nat : a = Smaller(w.w, MaxWidth) /\ b = Smaller(w.h, MaxHeight)
  BY VramAssumption DEF Plain, Word, Smaller
<1>2. a * b \in Nat
  OBVIOUS
<1>3. PICK p \in Nat : p = Pixels(w)
  BY <1>1, <1>2 DEF Pixels
<1>4. (p + 1) \div 2 \in Nat
  OBVIOUS
<1>. QED  BY <1>3, <1>4 DEF WordsOf

\* Every command is at least its header.
LEMMA WordsReadIs ==
  ASSUME NEW w \in Plain
  PROVE  WordsRead(w) \in Nat /\ (w.type # "upload" => WordsRead(w) > 0)
<1>1. w.type \in Types /\ {w.fill, w.bit28, w.bit27, w.bit26} \subseteq BOOLEAN
  BY DEF Plain, Word
<1>. QED  BY <1>1 DEF WordsRead, VerticesRead, Vertices, If, Types

\* A command has at least one word.
LEMMA ExtentIs ==
  ASSUME NEW ws \in Seq(Plain), ws # <<>>
  PROVE  Extent(ws) \in Nat /\ Extent(ws) > 0
<1>1. ws[1] \in Plain /\ Len(ws) \in Nat
  OBVIOUS
<1>2. CASE ws[1].type # "upload"
  BY <1>1, <1>2, WordsReadIs DEF Extent, Plain, IsPolyline
<1>3. CASE ws[1].type = "upload" /\ Len(ws) < 3
  BY <1>3 DEF Extent, Plain, IsPolyline
<1>4. CASE ws[1].type = "upload" /\ Len(ws) >= 3
  <2>1. WordsOf(Pixels(ws[3])) \in Nat
    <3>1. ws[3] \in Plain
      BY <1>4
    <3>. QED  BY <3>1, PixelsIs
  <2>2. Extent(ws) = 3 + WordsOf(Pixels(ws[3]))
    BY <1>1, <1>4 DEF Extent, Plain, IsPolyline
  <2>. QED  BY <2>1, <2>2
<1>. QED  BY <1>1, <1>2, <1>3, <1>4

\* The last n words of a sequence.
LEMMA LastWordsIs ==
  ASSUME NEW ws \in Seq(Plain), NEW n \in 1..Len(ws)
  PROVE  /\ LastWords(ws, n) \in Seq(Plain) /\ Len(LastWords(ws, n)) = n /\ LastWords(ws, n) # <<>>
         /\ Extent(LastWords(ws, n)) \in Nat /\ Extent(LastWords(ws, n)) > 0
<1>1. Len(ws) \in Nat
  OBVIOUS
<1>2. \A i \in (Len(ws) - n + 1)..Len(ws) : ws[i] \in Plain
  <2>1. \A i \in (Len(ws) - n + 1)..Len(ws) : i \in 1..Len(ws)
    BY <1>1
  <2>. QED  BY <2>1, ElementOfSeq
<1>3. LastWords(ws, n) \in Seq(Plain) /\ Len(LastWords(ws, n)) = n
  <2>1. /\ Len(ws) - n + 1 \in Int /\ Len(ws) \in Int
        /\ Len(ws) - n + 1 <= Len(ws) /\ Len(ws) - (Len(ws) - n + 1) + 1 = n
    BY <1>1
  <2>2. /\ LastWords(ws, n) \in Seq(Plain)
        /\ Len(LastWords(ws, n)) = IF Len(ws) - n + 1 <= Len(ws) THEN Len(ws) - (Len(ws) - n + 1) + 1 ELSE 0
    BY <1>2, <2>1, SubSeqProperties DEF LastWords
  <2>. QED  BY <2>1, <2>2
<1>4. LastWords(ws, n) # <<>>
  BY <1>3
<1>. QED  BY <1>3, <1>4, ExtentIs

\* The equation has a solution.
LEMMA SayingExists ==
  ASSUME NEW ws \in Seq(Plain)
  PROVE  \E f : SaysOf(f, ws, Len(ws))
<1>. DEFINE T == {n \in Nat : n <= Len(ws) => \E f : SaysOf(f, ws, n)}
<1>1. 0 \in T
  <2>. DEFINE f == [k \in 0..0 |-> <<>>]
  <2>1. \A k \in 0..0 : Saying(f, ws, k) = <<>>
    BY DEF Saying
  <2>2. SaysOf(f, ws, 0)
    BY <2>1 DEF SaysOf
  <2>. QED  BY <2>2
<1>2. \A n \in Nat : n \in T => n + 1 \in T
  <2>. SUFFICES ASSUME NEW n \in Nat, n + 1 <= Len(ws), NEW f, SaysOf(f, ws, n)
                PROVE  \E g : SaysOf(g, ws, n + 1)
    OBVIOUS
  <2>. DEFINE g == [k \in 0..(n + 1) |-> Saying(f, ws, k)]
  <2>1. \A k \in 0..n : g[k] = f[k]
    <3>1. \A k \in 0..n : f[k] = Saying(f, ws, k)
      BY DEF SaysOf
    <3>. QED  BY <3>1
  <2>2. \A k \in 0..(n + 1) : Saying(f, ws, k) = Saying(g, ws, k)
    <3>. SUFFICES ASSUME NEW k \in 0..(n + 1) PROVE Saying(f, ws, k) = Saying(g, ws, k)
      OBVIOUS
    <3>1. CASE k = 0 \/ k < Extent(LastWords(ws, k))
      BY <3>1 DEF Saying
    <3>2. CASE ~(k = 0 \/ k < Extent(LastWords(ws, k)))
      <4>1. k \in 1..Len(ws)
        BY <3>2
      <4>2. PICK e \in Nat : e = Extent(LastWords(ws, k)) /\ e > 0
        BY <4>1, LastWordsIs
      <4>3. k - e \in 0..n
        BY <3>2, <4>2
      <4>4. g[k - e] = f[k - e]
        BY <2>1, <4>3
      <4>. HIDE DEF g
      <4>. QED  BY <3>2, <4>2, <4>4 DEF Saying
    <3>. QED  BY <3>1, <3>2
  <2>3. g = [k \in 0..(n + 1) |-> Saying(g, ws, k)]
    <3>1. g = [k \in 0..(n + 1) |-> Saying(f, ws, k)]
      OBVIOUS
    <3>. HIDE DEF g
    <3>. QED  BY <2>2, <3>1
  <2>. HIDE DEF g
  <2>. QED  BY <2>3 DEF SaysOf
<1>3. \A n \in Nat : n \in T
  <2>. HIDE DEF T
  <2>. QED  BY <1>1, <1>2, EveryNat
<1>4. Len(ws) \in Nat
  OBVIOUS
<1>. QED  BY <1>3, <1>4

\* Two solutions agree as far as the words behind agree.
LEMMA SayingAgrees ==
  ASSUME NEW ws \in Seq(Plain), NEW vs \in Seq(Plain), Len(vs) <= Len(ws),
         \A n \in 1..Len(vs) : LastWords(vs, n) = LastWords(ws, n),
         NEW f, NEW g, SaysOf(f, ws, Len(ws)), SaysOf(g, vs, Len(vs))
  PROVE  \A n \in 0..Len(vs) : f[n] = g[n]
<1>. DEFINE T == {n \in Nat : \A k \in 0..n : k <= Len(vs) => f[k] = g[k]}
<1>1. PICK a \in Nat, b \in Nat : a = Len(ws) /\ b = Len(vs) /\ b <= a
  OBVIOUS
<1>2. /\ \A k \in 0..a : f[k] = Saying(f, ws, k)
      /\ \A k \in 0..b : g[k] = Saying(g, vs, k)
  BY <1>1 DEF SaysOf
<1>3. 0 \in T
  <2>1. f[0] = <<>> /\ g[0] = <<>>
    BY <1>2 DEF Saying
  <2>. QED  BY <2>1
<1>4. \A n \in Nat : n \in T => n + 1 \in T
  <2>. SUFFICES ASSUME NEW n \in Nat, \A k \in 0..n : k <= b => f[k] = g[k], n + 1 <= b
                PROVE  f[n + 1] = g[n + 1]
    BY <1>1
  <2>1. LastWords(vs, n + 1) = LastWords(ws, n + 1) /\ n + 1 \in 1..Len(vs)
    BY <1>1
  <2>2. PICK e \in Nat : e = Extent(LastWords(vs, n + 1)) /\ e > 0
    BY <2>1, LastWordsIs
  <2>3. f[n + 1] = Saying(f, ws, n + 1) /\ g[n + 1] = Saying(g, vs, n + 1)
    <3>1. n + 1 \in 0..a /\ n + 1 \in 0..b
      BY <1>1
    <3>. QED  BY <1>2, <3>1
  <2>4. CASE n + 1 < e
    BY <2>1, <2>2, <2>3, <2>4 DEF Saying
  <2>5. CASE ~(n + 1 < e)
    <3>1. (n + 1) - e \in 0..n /\ (n + 1) - e <= b
      BY <2>2, <2>5
    <3>2. f[(n + 1) - e] = g[(n + 1) - e]
      BY <3>1
    <3>3. n + 1 # 0
      OBVIOUS
    <3>. QED  BY <2>1, <2>2, <2>3, <2>5, <3>2, <3>3 DEF Saying
  <2>. QED  BY <2>4, <2>5
<1>5. \A n \in Nat : n \in T
  <2>. HIDE DEF T
  <2>. QED  BY <1>3, <1>4, EveryNat
<1>6. ASSUME NEW n \in 0..b PROVE f[n] = g[n]
  <2>1. n \in T /\ n \in 0..n /\ n <= Len(vs)
    BY <1>1, <1>5
  <2>. QED  BY <2>1
<1>. HIDE DEF T
<1>. QED  BY <1>1, <1>6

\* Meaning is taken from a solution of its recursive equation.
LEMMA MeaningIs ==
  ASSUME NEW ws \in Seq(Plain)
  PROVE  \E f : SaysOf(f, ws, Len(ws)) /\ Meaning(ws) = f[Len(ws)]
<1>. DEFINE F == CHOOSE f : SaysOf(f, ws, Len(ws))
<1>1. SaysOf(F, ws, Len(ws))
  BY SayingExists
<1>2. Meaning(ws) = F[Len(ws)]
  BY DEF Meaning, SaysOf, Saying, LastWords
<1>. HIDE DEF F
<1>. QED  BY <1>1, <1>2

\* Words that are no complete command say nothing yet.
LEMMA MeaningShort ==
  ASSUME NEW b \in Seq(Plain), b = <<>> \/ Len(b) < Extent(b)
  PROVE  Meaning(b) = <<>>
<1>1. PICK f : SaysOf(f, b, Len(b)) /\ Meaning(b) = f[Len(b)]
  BY MeaningIs
<1>2. Len(b) \in Nat
  OBVIOUS
<1>3. f[Len(b)] = Saying(f, b, Len(b))
  BY <1>1, <1>2 DEF SaysOf
<1>4. CASE b = <<>>
  <2>1. Len(b) = 0
    BY <1>4
  <2>. QED  BY <1>1, <1>3, <2>1 DEF Saying
<1>5. CASE Len(b) < Extent(b)
  <2>1. LastWords(b, Len(b)) = b
    <3>1. Len(b) - Len(b) + 1 = 1
      BY <1>2
    <3>. QED  BY <3>1, SubSeqFull DEF LastWords
  <2>. QED  BY <1>1, <1>3, <1>5, <2>1 DEF Saying
<1>. QED  BY <1>4, <1>5

\* How long a command is, its first words say.
LEMMA ExtentOfConcat ==
  ASSUME NEW c \in Seq(Plain), c # <<>>, Len(c) = Extent(c), NEW x \in Seq(Plain)
  PROVE  Extent(c \o x) = Extent(c)
<1>1. /\ Len(c) \in Nat /\ Len(c) > 0 /\ Len(x) \in Nat
      /\ c \o x \in Seq(Plain) /\ Len(c \o x) = Len(c) + Len(x)
      /\ \A i \in 1..Len(c) : (c \o x)[i] = c[i]
  BY ConcatProperties
<1>2. (c \o x)[1] = c[1] /\ c[1] \in Plain
  BY <1>1
<1>3. CASE c[1].type # "upload"
  BY <1>2, <1>3 DEF Extent, Plain, IsPolyline
<1>4. CASE c[1].type = "upload"
  <2>1. Len(c) >= 3
    <3>. SUFFICES ASSUME Len(c) < 3 PROVE FALSE
      BY <1>1
    <3>1. Extent(c) = 3
      BY <1>1, <1>4 DEF Extent, Plain, IsPolyline
    <3>. QED  BY <3>1
  <2>2. (c \o x)[3] = c[3] /\ Len(c \o x) >= 3
    BY <1>1, <2>1
  <2>. QED  BY <1>2, <1>4, <2>1, <2>2 DEF Extent, Plain, IsPolyline
<1>. QED  BY <1>3, <1>4

\* A whole command in front of other words is said before them.
LEMMA MeaningCommand ==
  ASSUME NEW c \in Seq(Plain), c # <<>>, Len(c) = Extent(c), NEW x \in Seq(Plain)
  PROVE  Meaning(c \o x) = Says(c) \o Meaning(x)
<1>. DEFINE ws == c \o x
<1>1. PICK e \in Nat, m \in Nat : e = Len(c) /\ e > 0 /\ m = Len(x)
  OBVIOUS
<1>2. /\ ws \in Seq(Plain) /\ Len(ws) = e + m
      /\ \A i \in 1..(e + m) : ws[i] = IF i <= e THEN c[i] ELSE x[i - e]
  BY <1>1, ConcatProperties
<1>3. Extent(ws) = e
  BY <1>1, ExtentOfConcat
<1>4. PICK f : SaysOf(f, ws, Len(ws)) /\ Meaning(ws) = f[Len(ws)]
  <2>. HIDE DEF ws
  <2>. QED  BY <1>2, MeaningIs
<1>5. PICK g : SaysOf(g, x, Len(x)) /\ Meaning(x) = g[Len(x)]
  BY MeaningIs
<1>6. \A n \in 1..m : LastWords(x, n) = LastWords(ws, n)
  <2>. SUFFICES ASSUME NEW n \in 1..m PROVE SubSeq(x, m - n + 1, m) = SubSeq(ws, (e + m) - n + 1, e + m)
    BY <1>1, <1>2 DEF LastWords
  <2>1. PICK i \in Nat, j \in Nat : i = (e + m) - n + 1 /\ j = e + m
    <3>1. (e + m) - n + 1 \in Nat /\ e + m \in Nat
      BY <1>1
    <3>. QED  BY <3>1
  <2>2. /\ i \in (Len(c) + 1)..(Len(c) + Len(x)) /\ j \in (Len(c) + 1)..(Len(c) + Len(x))
        /\ i - Len(c) = m - n + 1 /\ j - Len(c) = m
    <3>1. i \in (e + 1)..(e + m) /\ j \in (e + 1)..(e + m) /\ i - e = m - n + 1 /\ j - e = m
      BY <2>1
    <3>. QED  BY <1>1, <3>1
  <2>3. SubSeq(c \o x, i, j) = SubSeq(x, i - Len(c), j - Len(c))
    BY <2>2, SubSeqOfConcat2
  <2>. QED  BY <2>1, <2>2, <2>3
<1>7. f[m] = g[m]
  <2>. HIDE DEF ws
  <2>1. ws \in Seq(Plain) /\ Len(x) <= Len(ws) /\ m \in 0..Len(x)
    BY <1>1, <1>2
  <2>2. \A n \in 1..Len(x) : LastWords(x, n) = LastWords(ws, n)
    BY <1>1, <1>6
  <2>3. \A n \in 0..Len(x) : f[n] = g[n]
    BY <1>4, <1>5, <2>1, <2>2, SayingAgrees
  <2>. QED  BY <2>1, <2>3
<1>8. f[e + m] = Saying(f, ws, e + m)
  <2>1. e + m \in 0..(e + m)
    BY <1>1
  <2>. HIDE DEF ws
  <2>. QED  BY <1>2, <1>4, <2>1 DEF SaysOf
<1>9. LastWords(ws, e + m) = ws
  <2>1. (e + m) - (e + m) + 1 = 1
    BY <1>1
  <2>. HIDE DEF ws
  <2>. QED  BY <1>2, <2>1, SubSeqFull DEF LastWords
<1>10. SubSeq(ws, 1, e) = c
  <2>1. SubSeq(c \o x, 1, e) = SubSeq(c, 1, e)
    <3>1. 1 \in 1..Len(c) /\ e \in 1..Len(c)
      BY <1>1
    <3>. QED  BY <3>1, SubSeqOfConcat1
  <2>. QED  BY <1>1, <2>1, SubSeqFull
<1>11. ~(e + m = 0 \/ e + m < e) /\ (e + m) - e = m
  BY <1>1
<1>. HIDE DEF ws
<1>12. Saying(f, ws, e + m) = Says(c) \o f[m]
  BY <1>3, <1>9, <1>10, <1>11 DEF Saying
<1>13. Meaning(ws) = Says(c) \o Meaning(x)
  BY <1>1, <1>2, <1>4, <1>5, <1>7, <1>8, <1>12
<1>. QED  BY <1>13 DEF ws
----------------------------------------------------------------------------
(* Pixels. *)

\* Two pixels of each word.
LEMMA HalvesIs ==
  ASSUME NEW v \in Seq(Plain)
  PROVE  Halves(v) \in Seq(Half) /\ Len(Halves(v)) = 2 * Len(v)
<1>1. PICK n \in Nat : n = Len(v)
  OBVIOUS
<1>2. ASSUME NEW k \in 1..(2 * n) PROVE (IF k % 2 = 1 THEN Lower(v[(k + 1) \div 2]) ELSE Upper(v[k \div 2])) \in Half
  <2>1. CASE k % 2 = 1
    <3>1. (k + 1) \div 2 \in 1..n
      BY <2>1
    <3>2. v[(k + 1) \div 2] \in Plain
      BY <1>1, <3>1
    <3>. QED  BY <2>1, <3>2 DEF Lower, Half, Plain, Word
  <2>2. CASE k % 2 # 1
    <3>1. k \div 2 \in 1..n
      BY <2>2
    <3>2. v[k \div 2] \in Plain
      BY <1>1, <3>1
    <3>. QED  BY <2>2, <3>2 DEF Upper, Half, Plain, Word
  <2>. QED  BY <2>1, <2>2
<1>3. 2 * n \in Nat
  OBVIOUS
<1>. QED  BY <1>1, <1>2, <1>3 DEF Halves

\* A word more has two pixels more.
LEMMA HalvesOfAppend ==
  ASSUME NEW v \in Seq(Plain), NEW w \in Plain
  PROVE  Halves(Append(v, w)) = Halves(v) \o <<Lower(w), Upper(w)>>
<1>1. PICK n \in Nat : n = Len(v)
  OBVIOUS
<1>. DEFINE u == Append(v, w)
            p == <<Lower(w), Upper(w)>>
<1>2. /\ u \in Seq(Plain) /\ Len(u) = n + 1 /\ u[n + 1] = w
      /\ \A i \in 1..n : u[i] = v[i]
  BY <1>1, AppendProperties
<1>3. p \in Seq(Half) /\ Len(p) = 2 /\ p[1] = Lower(w) /\ p[2] = Upper(w)
  BY DEF Lower, Upper, Half, Plain, Word
<1>4. Halves(v) \in Seq(Half) /\ Len(Halves(v)) = 2 * n
  BY <1>1, HalvesIs
<1>5. Halves(u) \in Seq(Half) /\ Len(Halves(u)) = 2 * (n + 1)
  <2>. HIDE DEF u
  <2>. QED  BY <1>2, HalvesIs
<1>6. /\ Halves(v) \o p \in Seq(Half) /\ Len(Halves(v) \o p) = 2 * n + 2
      /\ \A i \in 1..(2 * n + 2) : (Halves(v) \o p)[i] = IF i <= 2 * n THEN Halves(v)[i] ELSE p[i - 2 * n]
  <2>. HIDE DEF p
  <2>1. PICK h \in Seq(Half) : h = Halves(v)
    BY <1>4
  <2>2. /\ h \o p \in Seq(Half) /\ Len(h \o p) = Len(h) + Len(p)
        /\ \A i \in 1..(Len(h) + Len(p)) : (h \o p)[i] = IF i <= Len(h) THEN h[i] ELSE p[i - Len(h)]
    BY <1>3, ConcatProperties
  <2>3. Len(h) = 2 * n /\ Len(p) = 2
    BY <1>3, <1>4, <2>1
  <2>. QED  BY <2>1, <2>2, <2>3
<1>7. ASSUME NEW i \in 1..(2 * n + 2) PROVE Halves(u)[i] = (Halves(v) \o p)[i]
  <2>1. Halves(u)[i] = IF i % 2 = 1 THEN Lower(u[(i + 1) \div 2]) ELSE Upper(u[i \div 2])
    <3>1. i \in 1..(2 * (n + 1))
      OBVIOUS
    <3>. HIDE DEF u
    <3>. QED  BY <1>2, <3>1 DEF Halves
  <2>2. CASE i <= 2 * n
    <3>1. Halves(v)[i] = IF i % 2 = 1 THEN Lower(v[(i + 1) \div 2]) ELSE Upper(v[i \div 2])
      <4>1. i \in 1..(2 * n)
        BY <2>2
      <4>. QED  BY <1>1, <4>1 DEF Halves
    <3>2. CASE i % 2 = 1
      <4>1. (i + 1) \div 2 \in 1..n
        BY <2>2, <3>2
      <4>. HIDE DEF u, p
      <4>. QED  BY <1>2, <1>6, <2>1, <2>2, <3>1, <3>2, <4>1
    <3>3. CASE i % 2 # 1
      <4>1. i \div 2 \in 1..n
        BY <2>2, <3>3
      <4>. HIDE DEF u, p
      <4>. QED  BY <1>2, <1>6, <2>1, <2>2, <3>1, <3>3, <4>1
    <3>. QED  BY <3>2, <3>3
  <2>3. CASE i = 2 * n + 1
    <3>1. i % 2 = 1 /\ (i + 1) \div 2 = n + 1 /\ ~(i <= 2 * n) /\ i - 2 * n = 1
      BY <2>3
    <3>. HIDE DEF u, p
    <3>. QED  BY <1>2, <1>3, <1>6, <2>1, <3>1
  <2>4. CASE i = 2 * n + 2
    <3>1. i % 2 # 1 /\ i \div 2 = n + 1 /\ ~(i <= 2 * n) /\ i - 2 * n = 2
      BY <2>4
    <3>. HIDE DEF u, p
    <3>. QED  BY <1>2, <1>3, <1>6, <2>1, <3>1
  <2>5. i <= 2 * n \/ i = 2 * n + 1 \/ i = 2 * n + 2
    <3>1. 2 * n \in Nat
      OBVIOUS
    <3>. QED  BY <3>1
  <2>. HIDE DEF u, p
  <2>. QED  BY <2>2, <2>3, <2>4, <2>5
<1>8. Len(Halves(u)) = Len(Halves(v) \o p)
  BY <1>5, <1>6
<1>9. \A i \in 1..Len(Halves(u)) : Halves(u)[i] = (Halves(v) \o p)[i]
  <2>. HIDE DEF u, p
  <2>1. Len(Halves(u)) = 2 * n + 2
    BY <1>5
  <2>. QED  BY <1>7, <2>1
<1>. HIDE DEF u, p
<1>10. Halves(u) = Halves(v) \o p
  BY <1>5, <1>6, <1>8, <1>9, SeqEqual
<1>. QED  BY <1>10 DEF u, p

----------------------------------------------------------------------------
(* Commands. *)

\* What the renderer is told at once.
Bundle == Seq(Data)

\* A rectangle is told with its pixels, and no others.
LEMMA UploadSays ==
  ASSUME NEW c \in Seq(Plain), c # <<>>, c[1].type = "upload", Len(c) = Extent(c), Pixels(c[3]) > 0
  PROVE  /\ Len(c) > 3
         /\ SubSeq(c, 4, Len(c)) \in Seq(Plain) /\ Len(SubSeq(c, 4, Len(c))) = Len(c) - 3
         /\ Pixels(c[3]) \in 1..(2 * (Len(c) - 3))
         /\ Says(c) = << SubSeq(c, 1, 3) \o SubSeq(Halves(SubSeq(c, 4, Len(c))), 1, Pixels(c[3])) >>
         /\ Says(c) \in Seq(Bundle)
<1>1. Len(c) \in Nat /\ Len(c) > 0
  OBVIOUS
<1>2. Len(c) >= 3
  <2>. SUFFICES ASSUME Len(c) < 3 PROVE FALSE
    BY <1>1
  <2>1. Extent(c) = 3
    BY <1>1 DEF Extent, Plain, IsPolyline
  <2>. QED  BY <2>1
<1>3. Extent(c) = 3 + WordsOf(Pixels(c[3]))
  BY <1>1, <1>2 DEF Extent, Plain, IsPolyline
<1>4. PICK p \in Nat : p = Pixels(c[3])
  <2>1. c[3] \in Plain
    BY <1>2
  <2>. QED  BY <2>1, PixelsIs
<1>5. Len(c) = 3 + ((p + 1) \div 2)
  BY <1>3, <1>4 DEF WordsOf
<1>6. PICK n \in Nat : n = Len(c) /\ n > 3 /\ p \in 1..(2 * (n - 3))
  <2>1. p > 0
    BY <1>4
  <2>2. PICK q \in Nat : q = (p + 1) \div 2 /\ q >= 1 /\ p <= 2 * q
    BY <2>1
  <2>3. 3 + q = Len(c) /\ 3 + q > 3 /\ (3 + q) - 3 = q
    BY <1>5, <2>2
  <2>. QED  BY <2>1, <2>2, <2>3
<1>7. SubSeq(c, 4, n) \in Seq(Plain) /\ Len(SubSeq(c, 4, n)) = n - 3
  <2>1. \A i \in 4..n : c[i] \in Plain
    BY <1>6
  <2>. QED  BY <1>6, <2>1, SubSeqProperties
<1>8. SubSeq(c, 1, 3) \in Seq(Data)
  <2>1. \A i \in 1..3 : c[i] \in Data
    BY <1>2 DEF Data
  <2>. QED  BY <2>1, SubSeqProperties
<1>9. SubSeq(Halves(SubSeq(c, 4, n)), 1, p) \in Seq(Data)
  <2>1. PICK v \in Seq(Plain) : v = SubSeq(c, 4, n) /\ Len(v) = n - 3
    BY <1>7
  <2>2. PICK h \in Seq(Half) : h = Halves(v) /\ Len(h) = 2 * (n - 3)
    BY <2>1, HalvesIs
  <2>3. \A i \in 1..p : h[i] \in Data
    <3>1. \A i \in 1..p : i \in 1..Len(h)
      BY <1>6, <2>2
    <3>. QED  BY <3>1 DEF Data
  <2>. QED  BY <2>1, <2>2, <2>3, SubSeqProperties
<1>10. Says(c) = << SubSeq(c, 1, 3) \o SubSeq(Halves(SubSeq(c, 4, n)), 1, p) >>
  BY <1>4, <1>6 DEF Says, Plain, IsPolyline
<1>11. SubSeq(c, 1, 3) \o SubSeq(Halves(SubSeq(c, 4, n)), 1, p) \in Bundle
  BY <1>8, <1>9, ConcatProperties DEF Bundle
<1>12. Says(c) \in Seq(Bundle)
  BY <1>10, <1>11
<1>. QED  BY <1>4, <1>6, <1>7, <1>10, <1>12

\* What a command says are words and pixels.
LEMMA SaysIs ==
  ASSUME NEW c \in Seq(Plain), c # <<>>, Len(c) = Extent(c)
  PROVE  Says(c) \in Seq(Bundle)
<1>1. c[1] \in Plain /\ Len(c) \in Nat /\ Len(c) > 0
  OBVIOUS
<1>2. c[1].type \in Types
  BY <1>1 DEF Plain, Word
<1>3. <<>> \in Seq(Bundle) /\ <<c>> \in Seq(Bundle)
  <2>1. c \in Bundle
    <3>1. Plain \subseteq Data
      BY DEF Data
    <3>. QED  BY <3>1, SeqMonotonic DEF Bundle
  <2>. QED  BY <2>1
<1>4. CASE c[1].type = "upload"
  <2>1. Len(c) >= 3
    <3>. SUFFICES ASSUME Len(c) < 3 PROVE FALSE
      BY <1>1
    <3>1. Extent(c) = 3
      BY <1>1, <1>4 DEF Extent, Plain, IsPolyline
    <3>. QED  BY <3>1
  <2>2. c[3] \in Plain
    BY <2>1
  <2>3. Pixels(c[3]) \in Nat
    BY <2>2, PixelsIs
  <2>4. CASE Pixels(c[3]) = 0
    BY <1>3, <1>4, <2>4 DEF Says, Plain, IsPolyline
  <2>5. CASE Pixels(c[3]) > 0
    BY <1>4, <2>5, UploadSays
  <2>. QED  BY <2>3, <2>4, <2>5
<1>5. CASE c[1].type # "upload"
  BY <1>2, <1>3, <1>5 DEF Says, Types, Plain, IsPolyline
<1>. QED  BY <1>4, <1>5

\* A sequence that is long enough begins with a complete command.
LEMMA FirstCommand ==
  ASSUME NEW ws \in Seq(Plain), ws # <<>>, Extent(ws) <= Len(ws)
  PROVE  \E c \in Seq(Plain), x \in Seq(Plain) : ws = c \o x /\ c # <<>> /\ Len(c) = Extent(c)
<1>1. PICK e \in Nat, n \in Nat : e = Extent(ws) /\ e > 0 /\ n = Len(ws) /\ e <= n
  BY ExtentIs
<1>. DEFINE c == SubSeq(ws, 1, e)
            x == SubSeq(ws, e + 1, n)
<1>2. c \in Seq(Plain) /\ Len(c) = e /\ \A i \in 1..e : c[i] = ws[i]
  <2>1. \A i \in 1..e : ws[i] \in Plain
    BY <1>1
  <2>2. /\ SubSeq(ws, 1, e) \in Seq(Plain) /\ Len(SubSeq(ws, 1, e)) = IF 1 <= e THEN e - 1 + 1 ELSE 0
        /\ \A i \in 1..(e - 1 + 1) : SubSeq(ws, 1, e)[i] = ws[1 + i - 1]
    BY <2>1, SubSeqProperties
  <2>3. e - 1 + 1 = e /\ \A i \in 1..e : 1 + i - 1 = i
    OBVIOUS
  <2>. QED  BY <1>1, <2>2, <2>3
<1>3. x \in Seq(Plain)
  <2>1. \A i \in (e + 1)..n : ws[i] \in Plain
    BY <1>1
  <2>. QED  BY <2>1, SubSeqProperties
<1>4. ws = c \o x
  <2>1. SubSeq(ws, 1, e) \o SubSeq(ws, e + 1, n) = SubSeq(ws, 1, n)
    <3>1. 1 \in 1..(Len(ws) + 1) /\ e \in (1 - 1)..Len(ws) /\ n \in e..Len(ws)
      BY <1>1
    <3>. QED  BY <3>1, ConcatAdjacentSubSeq
  <2>. QED  BY <1>1, <2>1, SubSeqFull
<1>5. c # <<>>
  BY <1>1, <1>2
<1>6. Extent(c) = e
  <2>. HIDE DEF c
  <2>1. c[1] = ws[1]
    BY <1>1, <1>2
  <2>2. CASE ws[1].type # "upload"
    BY <1>1, <2>1, <2>2 DEF Extent, Plain, IsPolyline
  <2>3. CASE ws[1].type = "upload"
    <3>1. n >= 3 /\ e >= 3
      <4>1. CASE n < 3
        <5>1. e = 3
          BY <1>1, <2>3, <4>1 DEF Extent, Plain, IsPolyline
        <5>. QED  BY <1>1, <4>1, <5>1
      <4>2. CASE n >= 3
        <5>1. WordsOf(Pixels(ws[3])) \in Nat
          <6>1. ws[3] \in Plain
            BY <1>1, <4>2
          <6>. QED  BY <6>1, PixelsIs
        <5>2. e = 3 + WordsOf(Pixels(ws[3]))
          BY <1>1, <2>3, <4>2 DEF Extent, Plain, IsPolyline
        <5>. QED  BY <4>2, <5>1, <5>2
      <4>. QED  BY <1>1, <4>1, <4>2
    <3>2. c[3] = ws[3]
      BY <1>2, <3>1
    <3>. QED  BY <1>1, <1>2, <2>1, <2>3, <3>1, <3>2 DEF Extent, Plain, IsPolyline
  <2>. QED  BY <2>2, <2>3
<1>. HIDE DEF c, x
<1>. QED  BY <1>2, <1>3, <1>4, <1>5, <1>6

\* A meaning is a sequence of bundles.
LEMMA MeaningType == \A ws \in Seq(Plain) : Meaning(ws) \in Seq(Bundle)
<1>. DEFINE T == {n \in Nat : \A ws \in Seq(Plain) : Len(ws) <= n => Meaning(ws) \in Seq(Bundle)}
<1>1. ASSUME NEW ws \in Seq(Plain), \A x \in Seq(Plain) : Len(x) < Len(ws) => Meaning(x) \in Seq(Bundle)
      PROVE  Meaning(ws) \in Seq(Bundle)
  <2>1. CASE ws = <<>> \/ Len(ws) < Extent(ws)
    <3>1. Meaning(ws) = <<>>
      BY <2>1, MeaningShort
    <3>. QED  BY <3>1
  <2>2. CASE ~(ws = <<>> \/ Len(ws) < Extent(ws))
    <3>1. Len(ws) \in Nat /\ Extent(ws) \in Nat
      BY <2>2, ExtentIs
    <3>2. ws # <<>> /\ Extent(ws) <= Len(ws)
      BY <2>2, <3>1
    <3>3. PICK c \in Seq(Plain), x \in Seq(Plain) : ws = c \o x /\ c # <<>> /\ Len(c) = Extent(c)
      BY <3>2, FirstCommand
    <3>4. Len(x) < Len(ws)
      BY <3>3, ConcatProperties
    <3>5. Says(c) \in Seq(Bundle) /\ Meaning(x) \in Seq(Bundle)
      BY <1>1, <3>3, <3>4, SaysIs
    <3>6. Meaning(c \o x) = Says(c) \o Meaning(x)
      BY <3>3, MeaningCommand
    <3>. QED  BY <3>3, <3>5, <3>6, ConcatProperties
  <2>. QED  BY <2>1, <2>2
<1>2. 0 \in T
  <2>1. \A ws \in Seq(Plain) : Len(ws) <= 0 => \A x \in Seq(Plain) : ~(Len(x) < Len(ws))
    OBVIOUS
  <2>. QED  BY <1>1, <2>1
<1>3. \A n \in Nat : n \in T => n + 1 \in T
  <2>. SUFFICES ASSUME NEW n \in Nat, \A x \in Seq(Plain) : Len(x) <= n => Meaning(x) \in Seq(Bundle),
                       NEW ws \in Seq(Plain), Len(ws) <= n + 1
                PROVE  Meaning(ws) \in Seq(Bundle)
    OBVIOUS
  <2>1. \A x \in Seq(Plain) : Len(x) < Len(ws) => Len(x) <= n
    OBVIOUS
  <2>. QED  BY <1>1, <2>1
<1>4. \A n \in Nat : n \in T
  <2>. HIDE DEF T
  <2>. QED  BY <1>2, <1>3, EveryNat
<1>5. \A ws \in Seq(Plain) : Len(ws) \in Nat /\ Len(ws) <= Len(ws)
  OBVIOUS
<1>. QED  BY <1>4, <1>5

----------------------------------------------------------------------------
(* The interpreter. *)

\* The types the proof needs of the interpreter's state.
GpuIs(g) == /\ DOMAIN g = {"params", "active", "left", "staging", "answer", "calls"}
            /\ g.params \in Seq(Plain) /\ g.active \in BOOLEAN /\ g.left \in Nat
            /\ g.calls \in Seq(Bundle)

\* The words b are those of the unfinished command.
Pending(g, b) ==
  IF g.active
  THEN /\ Len(b) >= 3 /\ b[1].type = "upload" /\ g.params = SubSeq(b, 1, 3)
       /\ g.staging = Halves(SubSeq(b, 4, Len(b)))
       /\ g.left > 0 /\ g.left + 2 * (Len(b) - 3) = Pixels(b[3])
  ELSE g.left = 0 /\ g.params = b /\ (b # <<>> => Len(b) < Extent(b) /\ (b[1].type = "upload" => Len(b) < 3))

\* What follows does not change what these words say.
Whole(a) == \A x \in Seq(Plain) : Meaning(a \o x) = Meaning(a) \o Meaning(x)

\* The words sent are whole commands, all told, and an unfinished one.
CommandInv(g, s, told) ==
  /\ GpuIs(g) /\ s \in Seq(Plain) /\ told \in Seq(Bundle)
  /\ \E a \in Seq(Plain), b \in Seq(Plain) :
       s = a \o b /\ Whole(a) /\ g.calls = told \o Meaning(a) /\ Pending(g, b)

\* The words of the unfinished command are fewer than its extent.
LEMMA PendingShort ==
  ASSUME NEW g, GpuIs(g), NEW b \in Seq(Plain), Pending(g, b), b # <<>>
  PROVE  Len(b) < Extent(b)
<1>1. CASE ~g.active
  BY <1>1 DEF Pending
<1>2. CASE g.active
  <2>1. PICK n \in Nat, p \in Nat, l \in Nat :
          n = Len(b) /\ n >= 3 /\ l = g.left /\ l > 0 /\ p = Pixels(b[3]) /\ l + 2 * (n - 3) = p
    <3>1. Len(b) \in Nat /\ Len(b) >= 3 /\ b[3] \in Plain
      BY <1>2 DEF Pending
    <3>2. Pixels(b[3]) \in Nat
      BY <3>1, PixelsIs
    <3>. QED  BY <1>2, <3>1, <3>2 DEF Pending, GpuIs
  <2>2. Extent(b) = 3 + ((p + 1) \div 2)
    BY <1>2, <2>1 DEF Pending, Extent, WordsOf, Plain, IsPolyline
  <2>3. n < 3 + ((p + 1) \div 2)
    BY <2>1
  <2>. QED  BY <2>1, <2>2, <2>3
<1>. QED  BY <1>1, <1>2 DEF GpuIs

\* The count taken from a header is what its handler reads.
LEMMA CountIsRead ==
  ASSUME NEW c \in Plain, c.type # "upload"
  PROVE  /\ WordsRead(c) \in Nat /\ WordsRead(c) > 0
         /\ ParameterCount(c) = WordsRead(c)
<1>1. c.type \in Types /\ {c.fill, c.bit28, c.bit27, c.bit26} \subseteq BOOLEAN
  BY DEF Plain, Word
<1>2. CASE c.type = "polygon"
  BY <1>1, <1>2 DEF ParameterCount, WordsRead, VerticesRead, Vertices, If, Plain, IsPolyline
<1>3. CASE c.type = "line"
  BY <1>1, <1>3 DEF ParameterCount, WordsRead, VerticesRead, Vertices, If, Plain, IsPolyline
<1>4. CASE c.type \notin {"polygon", "line"}
  BY <1>1, <1>4 DEF ParameterCount, WordsRead, If, Types, Plain, IsPolyline
<1>. QED  BY <1>2, <1>3, <1>4

\* A command that is complete is told as it is sent.
LEMMA ExecutedTells ==
  ASSUME NEW g, GpuIs(g), g.params # <<>>, ~g.active, g.left = 0,
         g.params[1].type # "upload", Len(g.params) = Extent(g.params)
  PROVE  LET h == Idle(Executed(g))
         IN  GpuIs(h) /\ ~h.active /\ h.left = 0 /\ h.params = <<>> /\ h.calls = g.calls \o Says(g.params)
<1>. DEFINE c == g.params
            h == Executed(g)
<1>1. c \in Seq(Plain) /\ c[1] \in Plain /\ Len(c) \in Nat /\ Len(c) > 0
  BY DEF GpuIs
<1>2. c[1].type \in Types /\ {c[1].fill, c[1].bit27} \subseteq BOOLEAN
  BY <1>1 DEF Plain, Word
<1>3. c \in Bundle /\ <<>> \in Seq(Plain)
  <2>1. Plain \subseteq Data
    BY DEF Data
  <2>. QED  BY <1>1, <2>1, SeqMonotonic DEF Bundle
<1>4. g.calls \o <<>> = g.calls /\ Append(g.calls, c) = g.calls \o <<c>> /\ Append(g.calls, c) \in Seq(Bundle)
  BY <1>3, ConcatEmptySeq, AppendIsConcat, AppendProperties DEF GpuIs
<1>5. /\ h = g \/ h = Told(g, c) \/ \E z : h = [Told(g, c) EXCEPT !.answer = z]
      /\ h.calls = g.calls \o Says(c)
  <2>1. CASE c[1].type = "download"
    <3>1. Len(c) = 3
      BY <2>1 DEF Extent, WordsRead, Plain, IsPolyline
    <3>2. c[3] \in Plain
      BY <1>1, <3>1
    <3>3. PICK a \in Nat : a = c[3].w * c[3].h
      <4>1. c[3].w \in Nat /\ c[3].h \in Nat
        BY <3>2 DEF Plain, Word
      <4>. QED  BY <4>1
    <3>4. PICK m \in Nat : m = MaxWidth * MaxHeight
      BY VramAssumption
    <3>5. h = Downloaded(g)
      BY <2>1 DEF Executed, Plain, IsPolyline
    <3>6. CASE a = 0 \/ a > m
      <4>1. h = g
        BY <3>3, <3>4, <3>5, <3>6 DEF Downloaded
      <4>2. Says(c) = <<>>
        BY <2>1, <3>3, <3>4, <3>6 DEF Says, Plain, IsPolyline
      <4>. QED  BY <1>4, <4>1, <4>2
    <3>7. CASE ~(a = 0 \/ a > m)
      <4>1. \E z : h = [Told(g, c) EXCEPT !.answer = z]
        BY <3>3, <3>4, <3>5, <3>7 DEF Downloaded
      <4>2. Says(c) = <<c>>
        BY <2>1, <3>3, <3>4, <3>7 DEF Says, Plain, IsPolyline
      <4>3. h.calls = Append(g.calls, c)
        BY <4>1 DEF Told, GpuIs
      <4>. QED  BY <1>4, <4>1, <4>2, <4>3
    <3>. QED  BY <3>6, <3>7
  <2>2. CASE c[1].type = "misc" /\ ~c[1].fill
    <3>1. h = g
      BY <2>2 DEF Executed, Plain, IsPolyline
    <3>2. Says(c) = <<>>
      BY <2>2 DEF Says, Plain, IsPolyline
    <3>. QED  BY <1>4, <3>1, <3>2
  <2>3. CASE /\ c[1].type # "download"
             /\ ~(c[1].type = "misc" /\ ~c[1].fill)
    <3>1. h = Told(g, c)
      BY <1>1, <1>2, <2>3 DEF Executed, Types, Plain, IsPolyline
    <3>2. Says(c) = <<c>>
      BY <1>1, <1>2, <2>3 DEF Says, Types, Plain, IsPolyline
    <3>3. h.calls = Append(g.calls, c)
      BY <3>1 DEF Told, GpuIs
    <3>. QED  BY <1>4, <3>1, <3>2, <3>3
  <2>. QED  BY <2>1, <2>2, <2>3
<1>6. /\ DOMAIN h = DOMAIN g /\ h.params = g.params /\ h.active = g.active /\ h.left = g.left
      /\ h.calls \in Seq(Bundle)
  <2>. HIDE DEF h
  <2>1. CASE h = g
    BY <2>1 DEF GpuIs
  <2>2. CASE h = Told(g, c)
    BY <1>4, <2>2 DEF GpuIs, Told
  <2>3. CASE \E z : h = [Told(g, c) EXCEPT !.answer = z]
    BY <1>4, <2>3 DEF GpuIs, Told
  <2>. QED  BY <1>5, <2>1, <2>2, <2>3
<1>. HIDE DEF h
<1>7. GpuIs(Idle(h)) /\ ~Idle(h).active /\ Idle(h).left = 0 /\ Idle(h).params = <<>> /\ Idle(h).calls = h.calls
  BY <1>3, <1>6 DEF GpuIs, Idle
<1>. QED  BY <1>5, <1>7 DEF h

\* One word more: it is pending, or it completes a command, which is told.
Taken(g, b, h, c) ==
  /\ GpuIs(h)
  /\ \/ Pending(h, c) /\ h.calls = g.calls
     \/ /\ ~h.active /\ h.left = 0 /\ h.params = <<>>
        /\ Len(c) = Extent(c) /\ h.calls = g.calls \o Says(c)

\* What Append is at each place.
LEMMA AppendIs ==
  ASSUME NEW b \in Seq(Plain), NEW w \in Plain
  PROVE  /\ Append(b, w) \in Seq(Plain) /\ Append(b, w) # <<>>
         /\ Len(b) \in Nat /\ Len(Append(b, w)) = Len(b) + 1
         /\ \A i \in 1..Len(b) : Append(b, w)[i] = b[i]
         /\ Append(b, w)[Len(b) + 1] = w
BY AppendProperties

\* A word of a command whose rectangle is not there yet, or that has none.
LEMMA AccumulatedTakes ==
  ASSUME NEW g, GpuIs(g), NEW b \in Seq(Plain), Pending(g, b), ~g.active, NEW w \in Plain
  PROVE  Taken(g, b, Submitted(g, w), Append(b, w))
<1>. DEFINE u == [g EXCEPT !.params = Append(@, w)]
<1>1. PICK c \in Seq(Plain) : c = Append(b, w) /\ c # <<>> /\ Len(b) \in Nat /\ Len(c) = Len(b) + 1
                             /\ \A i \in 1..Len(b) : c[i] = b[i]
  BY AppendIs
<1>2. GpuIs(u) /\ ~u.active /\ u.left = 0 /\ u.params = c /\ u.calls = g.calls /\ g.params = b
  BY <1>1 DEF GpuIs, Pending
<1>3. Submitted(g, w) = Accumulated(u)
  BY DEF Submitted
<1>4. PICK n \in Nat : n = Len(c) /\ n > 0
  BY <1>1
<1>5. c[1] \in Plain
  BY <1>4
<1>6. b # <<>> => Len(b) < Extent(b) /\ (b[1].type = "upload" => Len(b) < 3)
  BY DEF Pending
<1>. HIDE DEF u
<1>7. CASE c[1].type = "upload"
  <2>1. CASE n < 3
    <3>1. Accumulated(u) = u
      BY <1>2, <1>4, <1>7, <2>1 DEF Accumulated
    <3>2. Extent(c) = 3
      BY <1>4, <1>7, <2>1 DEF Extent, Plain, IsPolyline
    <3>3. Pending(u, c)
      BY <1>2, <1>4, <2>1, <3>2 DEF Pending
    <3>. QED  BY <1>1, <1>2, <1>3, <3>1, <3>3 DEF Taken
  <2>2. CASE n = 3
    <3>1. c[3] \in Plain
      <4>1. 3 \in 1..Len(c)
        BY <1>4, <2>2
      <4>. QED  BY <4>1, ElementOfSeq
    <3>2. PICK p \in Nat : p = Pixels(c[3])
      BY <3>1, PixelsIs
    <3>3. CASE p = 0
      <4>1. Accumulated(u) = Idle(u)
        BY <1>2, <1>4, <1>7, <2>2, <3>2, <3>3 DEF Accumulated
      <4>2. GpuIs(Idle(u)) /\ ~Idle(u).active /\ Idle(u).left = 0 /\ Idle(u).params = <<>> /\ Idle(u).calls = u.calls
        BY <1>2 DEF GpuIs, Idle
      <4>3. Extent(c) = 3
        <5>1. Extent(c) = 3 + WordsOf(Pixels(c[3]))
          BY <1>4, <1>7, <2>2 DEF Extent, Plain, IsPolyline
        <5>2. WordsOf(0) = 0
          BY DEF WordsOf
        <5>3. WordsOf(Pixels(c[3])) = 0
          BY <3>2, <3>3, <5>2
        <5>. QED  BY <5>1, <5>3
      <4>4. Says(c) = <<>>
        BY <1>7, <3>2, <3>3 DEF Says, Plain, IsPolyline
      <4>5. g.calls \o <<>> = g.calls
        BY ConcatEmptySeq DEF GpuIs
      <4>. QED  BY <1>1, <1>2, <1>3, <1>4, <2>2, <4>1, <4>2, <4>3, <4>4, <4>5 DEF Taken
    <3>4. CASE p > 0
      <4>. DEFINE h == Started(u)
      <4>1. Accumulated(u) = h
        BY <1>2, <1>4, <1>7, <2>2, <3>2, <3>4 DEF Accumulated
      <4>2. GpuIs(h) /\ h.active /\ h.left = p /\ h.staging = <<>> /\ h.params = c /\ h.calls = u.calls
        BY <1>2, <3>2 DEF GpuIs, Started
      <4>3. SubSeq(c, 1, 3) = c
        BY <1>4, <2>2, SubSeqFull
      <4>4. Halves(SubSeq(c, 4, Len(c))) = <<>>
        <5>1. SubSeq(c, 4, Len(c)) = <<>> /\ <<>> \in Seq(Plain) /\ Len(<<>>) = 0
          BY <1>4, <2>2, SubSeqEmpty
        <5>2. Halves(<<>>) \in Seq(Half) /\ Len(Halves(<<>>)) = 2 * 0
          BY <5>1, HalvesIs
        <5>3. Halves(<<>>) = <<>>
          BY <5>2
        <5>. QED  BY <5>1, <5>3
      <4>5. p + 2 * (n - 3) = p
        BY <2>2
      <4>. HIDE DEF h
      <4>6. Pending(h, c)
        BY <1>4, <1>7, <2>2, <3>2, <3>4, <4>2, <4>3, <4>4, <4>5 DEF Pending
      <4>. QED  BY <1>1, <1>2, <1>3, <4>1, <4>2, <4>6 DEF Taken
    <3>. QED  BY <3>3, <3>4
  <2>3. CASE n > 3
    <3>1. b # <<>> /\ b[1] = c[1] /\ Len(b) >= 3
      BY <1>1, <1>4, <2>3
    <3>. QED  BY <1>6, <1>7, <3>1
  <2>. QED  BY <1>4, <2>1, <2>2, <2>3
<1>8. CASE c[1].type # "upload"
  <2>1. PICK r \in Nat : r = WordsRead(c[1]) /\ r > 0
                         /\ ParameterCount(c[1]) = r
    BY <1>5, <1>8, CountIsRead
  <2>2. Extent(c) = r
    BY <1>5, <1>8, <2>1 DEF Extent, Plain, IsPolyline
  <2>3. n <= r
    <3>1. CASE b = <<>>
      BY <1>1, <1>4, <2>1, <3>1
    <3>2. CASE b # <<>>
      <4>1. b[1] = c[1]
        BY <1>1, <3>2
      <4>2. Extent(b) = r
        BY <1>5, <1>8, <2>1, <4>1 DEF Extent, Plain, IsPolyline
      <4>. QED  BY <1>1, <1>4, <1>6, <3>2, <4>2
    <3>. QED  BY <3>1, <3>2
  <2>4. n >= ParameterCount(c[1]) <=> n = r
    BY <1>4, <2>1, <2>3
  <2>5. CASE n = r
    <3>1. Accumulated(u) = Idle(Executed(u))
      BY <1>2, <1>4, <1>8, <2>4, <2>5 DEF Accumulated
    <3>2. LET h == Idle(Executed(u))
          IN  GpuIs(h) /\ ~h.active /\ h.left = 0 /\ h.params = <<>> /\ h.calls = u.calls \o Says(u.params)
      BY <1>1, <1>2, <1>4, <1>8, <2>2, <2>5, ExecutedTells
    <3>. QED  BY <1>1, <1>2, <1>3, <1>4, <2>2, <2>5, <3>1, <3>2 DEF Taken
  <2>6. CASE n # r
    <3>1. Accumulated(u) = u
      BY <1>2, <1>4, <1>8, <2>4, <2>6 DEF Accumulated
    <3>2. Len(c) < Extent(c)
      BY <1>4, <2>2, <2>3, <2>6
    <3>3. Pending(u, c)
      BY <1>2, <1>8, <3>2 DEF Pending
    <3>. QED  BY <1>1, <1>2, <1>3, <3>1, <3>3 DEF Taken
  <2>. QED  BY <2>5, <2>6
<1>. QED  BY <1>7, <1>8

\* Sequences of one element and of two.
LEMMA OneIs ==
  ASSUME NEW S, NEW x \in S
  PROVE  <<x>> \in Seq(S) /\ Len(<<x>>) = 1 /\ <<x>>[1] = x
OBVIOUS

\* A sequence of two.
LEMMA TwoIs ==
  ASSUME NEW S, NEW x \in S, NEW y \in S
  PROVE  <<x, y>> \in Seq(S) /\ Len(<<x, y>>) = 2 /\ <<x, y>>[1] = x
OBVIOUS

\* Of a sequence and two elements behind it, all but the last.
LEMMA AllButLast ==
  ASSUME NEW S, NEW s \in Seq(S), NEW x \in S, NEW y \in S, NEW p \in Nat, p = Len(s) + 1
  PROVE  SubSeq(s \o <<x, y>>, 1, p) = s \o <<x>>
<1>1. PICK one \in Seq(S) : one = <<x>> /\ Len(one) = 1 /\ one[1] = x
  BY OneIs
<1>2. PICK two \in Seq(S) : two = <<x, y>> /\ Len(two) = 2 /\ two[1] = x
  BY TwoIs
<1>3. PICK a \in Seq(S) : a = s \o one /\ Len(a) = p
                          /\ \A i \in 1..p : a[i] = IF i <= Len(s) THEN s[i] ELSE one[i - Len(s)]
  <2>1. /\ s \o one \in Seq(S) /\ Len(s \o one) = Len(s) + Len(one)
        /\ \A i \in 1..(Len(s) + Len(one)) : (s \o one)[i] = IF i <= Len(s) THEN s[i] ELSE one[i - Len(s)]
    BY ConcatProperties
  <2>2. Len(s) + Len(one) = p
    BY <1>1
  <2>. QED  BY <2>1, <2>2
<1>4. PICK b \in Seq(S) : b = s \o two /\ Len(b) = p + 1
                          /\ \A i \in 1..(p + 1) : b[i] = IF i <= Len(s) THEN s[i] ELSE two[i - Len(s)]
  <2>1. /\ s \o two \in Seq(S) /\ Len(s \o two) = Len(s) + Len(two)
        /\ \A i \in 1..(Len(s) + Len(two)) : (s \o two)[i] = IF i <= Len(s) THEN s[i] ELSE two[i - Len(s)]
    BY ConcatProperties
  <2>2. Len(s) + Len(two) = p + 1
    BY <1>2
  <2>. QED  BY <2>1, <2>2
<1>5. \A i \in 1..p : b[i] \in S
  BY <1>4
<1>6. /\ SubSeq(b, 1, p) \in Seq(S) /\ Len(SubSeq(b, 1, p)) = p
      /\ \A i \in 1..p : SubSeq(b, 1, p)[i] = b[i]
  <2>1. /\ SubSeq(b, 1, p) \in Seq(S) /\ Len(SubSeq(b, 1, p)) = IF 1 <= p THEN p - 1 + 1 ELSE 0
        /\ \A i \in 1..(p - 1 + 1) : SubSeq(b, 1, p)[i] = b[1 + i - 1]
    BY <1>5, SubSeqProperties
  <2>2. p - 1 + 1 = p /\ 1 <= p /\ \A i \in 1..p : 1 + i - 1 = i
    OBVIOUS
  <2>. QED  BY <2>1, <2>2
<1>7. \A i \in 1..p : b[i] = a[i]
  <2>. SUFFICES ASSUME NEW i \in 1..p PROVE b[i] = a[i]
    OBVIOUS
  <2>1. CASE i <= Len(s)
    BY <1>3, <1>4, <2>1
  <2>2. CASE i = Len(s) + 1
    <3>1. i - Len(s) = 1 /\ ~(i <= Len(s)) /\ i \in 1..(p + 1)
      BY <2>2
    <3>. QED  BY <1>1, <1>2, <1>3, <1>4, <3>1
  <2>. QED  BY <2>1, <2>2
<1>8. SubSeq(b, 1, p) = a
  BY <1>3, <1>6, <1>7, SeqEqual
<1>. QED  BY <1>1, <1>2, <1>3, <1>4, <1>8

\* A word of a rectangle.
LEMMA StreamedTakes ==
  ASSUME NEW g, GpuIs(g), NEW b \in Seq(Plain), Pending(g, b), g.active, NEW w \in Plain
  PROVE  Taken(g, b, Submitted(g, w), Append(b, w))
<1>1. PICK c \in Seq(Plain) : c = Append(b, w) /\ Len(b) \in Nat /\ Len(c) = Len(b) + 1
                             /\ (\A i \in 1..Len(b) : c[i] = b[i]) /\ c[Len(b) + 1] = w
  BY AppendIs
<1>2. PICK n \in Nat : n = Len(b) /\ n >= 3
  BY <1>1 DEF Pending
<1>3. /\ b[1].type = "upload" /\ g.params = SubSeq(b, 1, 3) /\ g.staging = Halves(SubSeq(b, 4, n))
      /\ g.left > 0 /\ g.left + 2 * (n - 3) = Pixels(b[3])
  BY <1>2 DEF Pending
<1>4. PICK l \in Nat, p \in Nat : l = g.left /\ p = Pixels(b[3]) /\ l > 0 /\ l + 2 * (n - 3) = p
  <2>1. b[3] \in Plain
    BY <1>2
  <2>2. Pixels(b[3]) \in Nat
    BY <2>1, PixelsIs
  <2>. QED  BY <1>3, <2>2 DEF GpuIs
<1>5. Len(c) = n + 1 /\ c # <<>> /\ c[1].type = "upload" /\ c[3] = b[3]
  BY <1>1, <1>2, <1>3
<1>6. SubSeq(c, 1, 3) = g.params /\ g.params \in Seq(Data)
  <2>1. \A i \in 1..3 : c[i] = b[i] /\ b[i] \in Plain
    BY <1>1, <1>2
  <2>2. /\ SubSeq(b, 1, 3) \in Seq(Plain) /\ Len(SubSeq(b, 1, 3)) = 3
        /\ \A i \in 1..3 : SubSeq(b, 1, 3)[i] = b[i]
    BY <2>1, SubSeqProperties
  <2>3. /\ SubSeq(c, 1, 3) \in Seq(Plain) /\ Len(SubSeq(c, 1, 3)) = 3
        /\ \A i \in 1..3 : SubSeq(c, 1, 3)[i] = c[i]
    BY <2>1, SubSeqProperties
  <2>4. SubSeq(c, 1, 3) = SubSeq(b, 1, 3)
    BY <2>1, <2>2, <2>3, SeqEqual
  <2>5. Plain \subseteq Data
    BY DEF Data
  <2>. QED  BY <1>3, <2>2, <2>4, <2>5, SeqMonotonic
<1>7. PICK v \in Seq(Plain) : v = SubSeq(b, 4, n) /\ Len(v) = n - 3 /\ SubSeq(c, 4, n + 1) = Append(v, w)
  <2>1. \A i \in 4..n : b[i] \in Plain
    BY <1>2
  <2>2. /\ SubSeq(b, 4, n) \in Seq(Plain) /\ Len(SubSeq(b, 4, n)) = IF 4 <= n THEN n - 4 + 1 ELSE 0
        /\ \A i \in 1..(n - 4 + 1) : SubSeq(b, 4, n)[i] = b[4 + i - 1]
    BY <2>1, SubSeqProperties
  <2>3. Len(SubSeq(b, 4, n)) = n - 3 /\ \A i \in 1..(n - 3) : SubSeq(b, 4, n)[i] = b[i + 3]
    <3>1. n - 4 + 1 = n - 3 /\ \A i \in 1..(n - 3) : 4 + i - 1 = i + 3
      OBVIOUS
    <3>. QED  BY <1>2, <2>2, <3>1
  <2>4. \A i \in 4..(n + 1) : c[i] \in Plain
    <3>1. \A i \in 4..(n + 1) : i \in 1..Len(c)
      BY <1>5
    <3>. QED  BY <3>1, ElementOfSeq
  <2>5. /\ SubSeq(c, 4, n + 1) \in Seq(Plain) /\ Len(SubSeq(c, 4, n + 1)) = IF 4 <= n + 1 THEN n + 1 - 4 + 1 ELSE 0
        /\ \A i \in 1..(n + 1 - 4 + 1) : SubSeq(c, 4, n + 1)[i] = c[4 + i - 1]
    BY <2>4, SubSeqProperties
  <2>6. Len(SubSeq(c, 4, n + 1)) = n - 2 /\ \A i \in 1..(n - 2) : SubSeq(c, 4, n + 1)[i] = c[i + 3]
    <3>1. n + 1 - 4 + 1 = n - 2 /\ 4 <= n + 1 /\ \A i \in 1..(n - 2) : 4 + i - 1 = i + 3
      BY <1>2
    <3>. QED  BY <2>5, <3>1
  <2>7. PICK v \in Seq(Plain) : v = SubSeq(b, 4, n) /\ Len(v) = n - 3 /\ \A i \in 1..(n - 3) : v[i] = b[i + 3]
    BY <2>2, <2>3
  <2>8. /\ Append(v, w) \in Seq(Plain) /\ Len(Append(v, w)) = n - 2
        /\ \A i \in 1..(n - 3) : Append(v, w)[i] = v[i]
        /\ Append(v, w)[n - 2] = w
    <3>1. /\ Append(v, w) \in Seq(Plain) /\ Len(Append(v, w)) = Len(v) + 1
          /\ \A i \in 1..Len(v) : Append(v, w)[i] = v[i]
          /\ Append(v, w)[Len(v) + 1] = w
      BY AppendIs
    <3>2. Len(v) + 1 = n - 2
      BY <2>7
    <3>. QED  BY <2>7, <3>1, <3>2
  <2>9. ASSUME NEW i \in 1..(n - 2) PROVE Append(v, w)[i] = c[i + 3]
    <3>1. CASE i = n - 2
      <4>1. i + 3 = n + 1
        BY <3>1
      <4>. QED  BY <1>1, <1>2, <2>8, <3>1, <4>1
    <3>2. CASE i # n - 2
      <4>1. i \in 1..(n - 3) /\ i + 3 \in 1..n
        BY <3>2
      <4>. QED  BY <1>1, <1>2, <2>7, <2>8, <4>1
    <3>. QED  BY <3>1, <3>2
  <2>10. SubSeq(c, 4, n + 1) = Append(v, w)
    BY <2>5, <2>6, <2>8, <2>9, SeqEqual
  <2>. QED  BY <2>7, <2>10
<1>8. PICK s \in Seq(Half) : s = Halves(v) /\ Len(s) = 2 * (n - 3) /\ g.staging = s
  BY <1>3, <1>7, HalvesIs
<1>9. Halves(SubSeq(c, 4, n + 1)) = s \o <<Lower(w), Upper(w)>>
  BY <1>7, <1>8, HalvesOfAppend
<1>10. Lower(w) \in Half /\ Upper(w) \in Half
  BY DEF Lower, Upper, Half, Plain, Word
<1>11. PICK two \in Seq(Half) : two = <<Lower(w), Upper(w)>> /\ Len(two) = 2 /\ two[1] = Lower(w)
  BY <1>10, TwoIs
<1>12. /\ s \o two \in Seq(Half) /\ Len(s \o two) = Len(s) + 2
       /\ \A i \in 1..(Len(s) + 2) : (s \o two)[i] = IF i <= Len(s) THEN s[i] ELSE two[i - Len(s)]
  BY <1>11, ConcatProperties
<1>13. Submitted(g, w) = Streamed(g, w)
  BY DEF Submitted
<1>14. CASE l > 2
  <2>. DEFINE h == [g EXCEPT !.left = l - 2, !.staging = s \o two]
  <2>1. Streamed(g, w) = h
    <3>1. l >= 2 /\ l - 2 # 0
      BY <1>14
    <3>. QED  BY <1>4, <1>8, <1>11, <3>1 DEF Streamed
  <2>2. GpuIs(h) /\ h.active /\ h.params = g.params /\ h.left = l - 2 /\ h.staging = s \o two /\ h.calls = g.calls
    <3>1. PICK m \in Nat : m = l - 2
      <4>1. l - 2 \in Nat
        BY <1>14
      <4>. QED  BY <4>1
    <3>. DEFINE z == s \o two
    <3>2. h = [[g EXCEPT !.left = m] EXCEPT !.staging = z]
      BY <3>1
    <3>. HIDE DEF z
    <3>3. DOMAIN h = DOMAIN g /\ h.left = m /\ h.staging = z
          /\ h.params = g.params /\ h.active = g.active /\ h.calls = g.calls
      BY <3>2 DEF GpuIs
    <3>. HIDE DEF h
    <3>. QED  BY <3>1, <3>3 DEF GpuIs, z
  <2>3. (l - 2) + 2 * ((n + 1) - 3) = p /\ l - 2 > 0 /\ n + 1 >= 3
    BY <1>2, <1>4, <1>14
  <2>. HIDE DEF h
  <2>4. Pending(h, c)
    BY <1>4, <1>5, <1>6, <1>9, <1>11, <2>2, <2>3 DEF Pending
  <2>. QED  BY <1>1, <1>13, <2>1, <2>2, <2>4 DEF Taken
<1>15. CASE l <= 2
  <2>. DEFINE pixels == IF l = 2 THEN two ELSE <<Lower(w)>>
              h == [Told(Idle(g), g.params \o (s \o pixels)) EXCEPT !.active = FALSE, !.left = 0, !.staging = <<>>]
  <2>1. l = 1 \/ l = 2
    BY <1>4, <1>15
  <2>2. pixels \in Seq(Half) /\ Len(pixels) = l
    BY <1>10, <1>11, <2>1
  <2>3. Streamed(g, w) = h
    <3>1. CASE l = 2
      BY <1>4, <1>8, <1>11, <3>1 DEF Streamed
    <3>2. CASE l = 1
      BY <1>4, <1>8, <3>2 DEF Streamed
    <3>. QED  BY <2>1, <3>1, <3>2
  <2>4. SubSeq(s \o two, 1, p) = s \o pixels /\ s \o pixels \in Seq(Half)
    <3>. HIDE DEF h
    <3>1. CASE l = 2
      <4>1. p = Len(s \o two)
        BY <1>4, <1>8, <1>12, <3>1
      <4>. QED  BY <1>12, <3>1, <4>1, SubSeqFull
    <3>2. CASE l = 1
      <4>1. p = Len(s) + 1
        BY <1>4, <1>8, <3>2
      <4>2. SubSeq(s \o two, 1, p) = s \o <<Lower(w)>>
        BY <1>10, <1>11, <4>1, AllButLast
      <4>3. pixels = <<Lower(w)>>
        BY <3>2
      <4>. HIDE DEF pixels
      <4>. QED  BY <2>2, <4>2, <4>3, ConcatProperties
    <3>. QED  BY <2>1, <3>1, <3>2
  <2>. HIDE DEF pixels
  <2>5. Len(c) = Extent(c)
    <3>1. (p + 1) \div 2 = (n - 3) + 1
      <4>1. PICK k \in Nat : k = n - 3 /\ l + 2 * k = p
        <5>1. n - 3 \in Nat
          BY <1>2
        <5>. QED  BY <1>4, <5>1
      <4>2. CASE l = 1
        <5>1. p + 1 = 2 * (k + 1)
          BY <4>1, <4>2
        <5>. QED  BY <4>1, <5>1
      <4>3. CASE l = 2
        <5>1. p + 1 = 2 * (k + 1) + 1
          BY <4>1, <4>3
        <5>. QED  BY <4>1, <5>1
      <4>. QED  BY <2>1, <4>2, <4>3
    <3>2. Extent(c) = 3 + ((p + 1) \div 2)
      BY <1>2, <1>4, <1>5 DEF Extent, WordsOf, Plain, IsPolyline
    <3>. QED  BY <1>5, <3>1, <3>2
  <2>6. Says(c) = <<g.params \o (s \o pixels)>> /\ Says(c) \in Seq(Bundle)
    <3>1. Pixels(c[3]) = p /\ p > 0
      BY <1>2, <1>4, <1>5
    <3>2. Says(c) = << SubSeq(c, 1, 3) \o SubSeq(Halves(SubSeq(c, 4, Len(c))), 1, Pixels(c[3])) >> /\ Says(c) \in Seq(Bundle)
      BY <1>5, <2>5, <3>1, UploadSays
    <3>. QED  BY <1>5, <1>6, <1>9, <1>11, <2>4, <3>1, <3>2
  <2>7. g.params \o (s \o pixels) \in Bundle
    <3>1. Half \subseteq Data
      BY DEF Data
    <3>2. s \o pixels \in Seq(Data)
      BY <2>4, <3>1, SeqMonotonic
    <3>. QED  BY <1>6, <3>2, ConcatProperties DEF Bundle
  <2>8. /\ Append(g.calls, g.params \o (s \o pixels)) = g.calls \o Says(c)
        /\ Append(g.calls, g.params \o (s \o pixels)) \in Seq(Bundle)
    <3>1. PICK z \in Bundle : z = g.params \o (s \o pixels)
      BY <2>7
    <3>2. Append(g.calls, z) = g.calls \o <<z>> /\ Append(g.calls, z) \in Seq(Bundle)
      BY AppendIsConcat, AppendProperties DEF GpuIs
    <3>. QED  BY <2>6, <3>1, <3>2
  <2>9. /\ DOMAIN h = DOMAIN g /\ h.active = FALSE /\ h.left = 0 /\ h.params = <<>>
        /\ h.calls = Append(g.calls, g.params \o (s \o pixels))
    BY DEF GpuIs, Told, Idle
  <2>. HIDE DEF h
  <2>10. GpuIs(h)
    <3>1. DOMAIN h = {"params", "active", "left", "staging", "answer", "calls"}
      BY <2>9 DEF GpuIs
    <3>2. h.params \in Seq(Plain) /\ h.active \in BOOLEAN /\ h.left \in Nat
      <4>1. h.active = FALSE /\ h.params = <<>> /\ h.left = 0
        BY <2>9
      <4>2. h.active \in BOOLEAN
        BY <4>1
      <4>3. h.params \in Seq(Plain)
        BY <4>1
      <4>4. h.left \in Nat
        BY <4>1
      <4>. QED  BY <4>2, <4>3, <4>4
    <3>3. h.calls \in Seq(Bundle)
      BY <2>8, <2>9
    <3>. QED  BY <3>1, <3>2, <3>3 DEF GpuIs
  <2>. QED  BY <1>1, <1>13, <2>3, <2>5, <2>8, <2>9, <2>10 DEF Taken
<1>. QED  BY <1>4, <1>14, <1>15

\* WriteGP0 takes one word, whether an upload is running or not.
LEMMA WordTaken ==
  ASSUME NEW g, GpuIs(g), NEW b \in Seq(Plain), Pending(g, b), NEW w \in Plain
  PROVE  Taken(g, b, Submitted(g, w), Append(b, w))
<1>1. CASE g.active
  BY <1>1, StreamedTakes
<1>2. CASE ~g.active
  BY <1>2, AccumulatedTakes
<1>. QED  BY <1>1, <1>2
----------------------------------------------------------------------------
(* All that was sent. *)

\* No words say nothing.
LEMMA MeaningOfNothing == Meaning(<<>>) = <<>> /\ Whole(<<>>)
<1>1. <<>> \in Seq(Plain)
  OBVIOUS
<1>2. Meaning(<<>>) = <<>>
  BY <1>1, MeaningShort
<1>3. ASSUME NEW x \in Seq(Plain) PROVE Meaning(<<>> \o x) = Meaning(<<>>) \o Meaning(x)
  <2>1. <<>> \o x = x
    BY ConcatEmptySeq
  <2>2. Meaning(x) \in Seq(Bundle)
    BY MeaningType
  <2>3. <<>> \o Meaning(x) = Meaning(x)
    BY <2>2, ConcatEmptySeq
  <2>. QED  BY <1>2, <2>1, <2>3
<1>. QED  BY <1>2, <1>3 DEF Whole

\* A complete command behind whole ones.
LEMMA WholeGrows ==
  ASSUME NEW a \in Seq(Plain), Whole(a), NEW c \in Seq(Plain), c # <<>>, Len(c) = Extent(c)
  PROVE  Whole(a \o c) /\ Meaning(a \o c) = Meaning(a) \o Says(c)
<1>1. Meaning(a) \in Seq(Bundle) /\ Says(c) \in Seq(Bundle)
  BY MeaningType, SaysIs
<1>2. Meaning(c) = Says(c)
  <2>1. <<>> \in Seq(Plain)
    OBVIOUS
  <2>2. Meaning(c \o <<>>) = Says(c) \o Meaning(<<>>)
    BY <2>1, MeaningCommand
  <2>3. c \o <<>> = c /\ Says(c) \o <<>> = Says(c)
    BY <1>1, ConcatEmptySeq
  <2>. QED  BY <2>2, <2>3, MeaningOfNothing
<1>3. Meaning(a \o c) = Meaning(a) \o Says(c)
  BY <1>2 DEF Whole
<1>4. ASSUME NEW x \in Seq(Plain) PROVE Meaning((a \o c) \o x) = Meaning(a \o c) \o Meaning(x)
  <2>1. (a \o c) \o x = a \o (c \o x) /\ c \o x \in Seq(Plain)
    BY ConcatAssociative, ConcatProperties
  <2>2. Meaning(a \o (c \o x)) = Meaning(a) \o Meaning(c \o x)
    BY <2>1 DEF Whole
  <2>3. Meaning(c \o x) = Says(c) \o Meaning(x)
    BY MeaningCommand
  <2>4. Meaning(x) \in Seq(Bundle)
    BY MeaningType
  <2>5. (Meaning(a) \o Says(c)) \o Meaning(x) = Meaning(a) \o (Says(c) \o Meaning(x))
    BY <1>1, <2>4, ConcatAssociative
  <2>. QED  BY <1>3, <2>1, <2>2, <2>3, <2>5
<1>. QED  BY <1>3, <1>4 DEF Whole

\* One word written keeps the invariant of the interpreter.
LEMMA WordKeeps ==
  ASSUME NEW g, NEW s, NEW told, CommandInv(g, s, told), NEW w \in Plain
  PROVE  CommandInv(Submitted(g, w), Append(s, w), told)
<1>1. GpuIs(g) /\ s \in Seq(Plain) /\ told \in Seq(Bundle)
  BY DEF CommandInv
<1>2. PICK a \in Seq(Plain), b \in Seq(Plain) :
        s = a \o b /\ Whole(a) /\ g.calls = told \o Meaning(a) /\ Pending(g, b)
  BY DEF CommandInv
<1>3. PICK h : h = Submitted(g, w)
  OBVIOUS
<1>4. PICK c \in Seq(Plain) : c = Append(b, w) /\ c # <<>>
  BY AppendIs
<1>5. Taken(g, b, h, c)
  BY <1>1, <1>2, <1>3, <1>4, WordTaken
<1>6. Append(s, w) = a \o c /\ Append(s, w) \in Seq(Plain)
  <2>1. <<w>> \in Seq(Plain)
    BY OneIs
  <2>2. Append(s, w) = s \o <<w>> /\ c = b \o <<w>>
    BY <1>1, <1>4, AppendIsConcat
  <2>3. (a \o b) \o <<w>> = a \o (b \o <<w>>)
    BY <2>1, ConcatAssociative
  <2>. QED  BY <1>1, <1>2, <2>2, <2>3, AppendIs
<1>7. CASE Pending(h, c) /\ h.calls = g.calls
  BY <1>1, <1>2, <1>3, <1>5, <1>6, <1>7 DEF CommandInv, Taken
<1>8. CASE /\ ~h.active /\ h.left = 0 /\ h.params = <<>>
           /\ Len(c) = Extent(c) /\ h.calls = g.calls \o Says(c)
  <2>1. Whole(a \o c) /\ Meaning(a \o c) = Meaning(a) \o Says(c)
    BY <1>2, <1>4, <1>8, WholeGrows
  <2>2. h.calls = told \o Meaning(a \o c)
    <3>1. Meaning(a) \in Seq(Bundle) /\ Says(c) \in Seq(Bundle)
      BY <1>4, <1>8, MeaningType, SaysIs
    <3>2. (told \o Meaning(a)) \o Says(c) = told \o (Meaning(a) \o Says(c))
      BY <1>1, <3>1, ConcatAssociative
    <3>. QED  BY <1>2, <1>8, <2>1, <3>2
  <2>3. PICK d \in Seq(Plain) : d = a \o c
    BY ConcatProperties
  <2>4. d \o <<>> = d /\ <<>> \in Seq(Plain)
    BY ConcatEmptySeq
  <2>5. Pending(h, <<>>)
    BY <1>8 DEF Pending
  <2>. QED  BY <1>1, <1>3, <1>5, <1>6, <2>1, <2>2, <2>3, <2>4, <2>5 DEF CommandInv, Taken
<1>. QED  BY <1>5, <1>7, <1>8 DEF Taken

\* The recursion over the words of a block has a solution.
LEMMA SubmittedAllIs ==
  ASSUME NEW g, NEW ws \in Seq(Plain)
  PROVE  \E f : /\ f[0] = g /\ \A n \in 0..(Len(ws) - 1) : f[n + 1] = Submitted(f[n], ws[n + 1])
                /\ SubmittedAll(g, ws) = f[Len(ws)]
<1>1. PICK m \in Nat : m = Len(ws)
  OBVIOUS
<1>. DEFINE UpTo(f, n) == f = [k \in 0..n |-> IF k = 0 THEN g ELSE Submitted(f[k - 1], ws[k])]
            T == {n \in Nat : \E f : UpTo(f, n)}
            F == CHOOSE f : UpTo(f, m)
<1>2. 0 \in T
  <2>1. UpTo([k \in 0..0 |-> g], 0)
    OBVIOUS
  <2>. QED  BY <2>1
<1>3. \A n \in Nat : n \in T => n + 1 \in T
  <2>1. ASSUME NEW n \in Nat, NEW f, UpTo(f, n) PROVE \E h : UpTo(h, n + 1)
    <3>. DEFINE h == [k \in 0..(n + 1) |-> IF k = 0 THEN g ELSE Submitted(f[k - 1], ws[k])]
    <3>1. \A k \in 0..n : h[k] = f[k]
      BY <2>1
    <3>2. ASSUME NEW k \in 0..(n + 1), k # 0 PROVE f[k - 1] = h[k - 1]
      <4>1. k - 1 \in 0..n
        BY <3>2
      <4>. HIDE DEF h
      <4>. QED  BY <3>1, <4>1
    <3>3. h = [k \in 0..(n + 1) |-> IF k = 0 THEN g ELSE Submitted(h[k - 1], ws[k])]
      <4>1. h = [k \in 0..(n + 1) |-> IF k = 0 THEN g ELSE Submitted(f[k - 1], ws[k])]
        OBVIOUS
      <4>. HIDE DEF h
      <4>2. \A k \in 0..(n + 1) : (IF k = 0 THEN g ELSE Submitted(f[k - 1], ws[k]))
                                  = (IF k = 0 THEN g ELSE Submitted(h[k - 1], ws[k]))
        BY <3>2
      <4>. QED  BY <4>1, <4>2
    <3>. HIDE DEF h
    <3>. QED  BY <3>3
  <2>. HIDE DEF UpTo
  <2>. QED  BY <2>1
<1>4. \A n \in Nat : n \in T
  <2>. HIDE DEF T
  <2>. QED  BY <1>2, <1>3, EveryNat
<1>5. UpTo(F, m)
  <2>1. \E f : UpTo(f, m)
    BY <1>4
  <2>. HIDE DEF UpTo
  <2>. QED  BY <2>1
<1>6. SubmittedAll(g, ws) = F[m]
  BY <1>1 DEF SubmittedAll
<1>. HIDE DEF F
<1>7. F[0] = g
  BY <1>5
<1>8. ASSUME NEW n \in 0..(m - 1) PROVE F[n + 1] = Submitted(F[n], ws[n + 1])
  <2>1. n + 1 \in 0..m /\ n + 1 # 0 /\ (n + 1) - 1 = n
    OBVIOUS
  <2>. QED  BY <1>5, <2>1
<1>. QED  BY <1>1, <1>6, <1>7, <1>8

\* So do all words of a store, a block or an element.
LEMMA WordsKeep ==
  ASSUME NEW g, NEW s, NEW told, CommandInv(g, s, told), NEW ws \in Seq(Plain)
  PROVE  CommandInv(SubmittedAll(g, ws), s \o ws, told)
<1>1. PICK f : /\ f[0] = g /\ \A n \in 0..(Len(ws) - 1) : f[n + 1] = Submitted(f[n], ws[n + 1])
               /\ SubmittedAll(g, ws) = f[Len(ws)]
  BY SubmittedAllIs
<1>2. s \in Seq(Plain)
  BY DEF CommandInv
<1>3. PICK m \in Nat : m = Len(ws)
  OBVIOUS
<1>. DEFINE T == {n \in Nat : n <= m => CommandInv(f[n], s \o SubSeq(ws, 1, n), told)}
<1>4. 0 \in T
  <2>1. SubSeq(ws, 1, 0) = <<>>
    BY SubSeqEmpty
  <2>2. s \o <<>> = s
    BY <1>2, ConcatEmptySeq
  <2>. QED  BY <1>1, <2>1, <2>2
<1>5. \A n \in Nat : n \in T => n + 1 \in T
  <2>. SUFFICES ASSUME NEW n \in Nat, CommandInv(f[n], s \o SubSeq(ws, 1, n), told), n + 1 <= m
                PROVE  CommandInv(f[n + 1], s \o SubSeq(ws, 1, n + 1), told)
    OBVIOUS
  <2>1. f[n + 1] = Submitted(f[n], ws[n + 1]) /\ ws[n + 1] \in Plain
    <3>1. n \in 0..(Len(ws) - 1) /\ n + 1 \in 1..Len(ws)
      BY <1>3
    <3>. QED  BY <1>1, <3>1, ElementOfSeq
  <2>2. s \o SubSeq(ws, 1, n + 1) = Append(s \o SubSeq(ws, 1, n), ws[n + 1])
    <3>1. \A i \in 1..n : ws[i] \in Plain
      BY <1>3
    <3>2. PICK v \in Seq(Plain) : v = SubSeq(ws, 1, n)
      <4>1. SubSeq(ws, 1, n) \in Seq(Plain)
        <5>1. n \in Nat /\ 1 \in Nat /\ \A i \in 1..n : ws[i] \in Plain
          BY <3>1
        <5>. QED  BY <5>1, SubSeqProperties
      <4>. QED  BY <4>1
    <3>3. SubSeq(ws, 1, n + 1) = v \o <<ws[n + 1]>>
      <4>1. 1 \in 1..Len(ws) /\ n + 1 \in 1..Len(ws) /\ (n + 1) - 1 = n
        BY <1>3
      <4>2. SubSeq(ws, 1, n + 1) = SubSeq(ws, 1, (n + 1) - 1) \o <<ws[n + 1]>>
        BY <4>1, SubSeqRecursiveSecond
      <4>. QED  BY <3>2, <4>1, <4>2
    <3>4. <<ws[n + 1]>> \in Seq(Plain)
      BY <2>1, OneIs
    <3>5. s \o (v \o <<ws[n + 1]>>) = (s \o v) \o <<ws[n + 1]>> /\ s \o v \in Seq(Plain)
      BY <1>2, <3>4, ConcatAssociative, ConcatProperties
    <3>6. Append(s \o v, ws[n + 1]) = (s \o v) \o <<ws[n + 1]>>
      BY <2>1, <3>5, AppendIsConcat
    <3>. QED  BY <3>2, <3>3, <3>5, <3>6
  <2>. QED  BY <2>1, <2>2, WordKeeps
<1>6. \A n \in Nat : n \in T
  <2>. HIDE DEF T
  <2>. QED  BY <1>4, <1>5, EveryNat
<1>7. CommandInv(f[m], s \o SubSeq(ws, 1, m), told)
  BY <1>6
<1>. QED  BY <1>1, <1>3, <1>7, SubSeqFull
----------------------------------------------------------------------------
(* The game. *)

\* The invariant of the interpreter, of what was sent since the last reset.
CommandsInv == CommandInv(gpu, sent, base)

\* At first nothing was sent and nothing told.
LEMMA CommandsInit == Init => CommandsInv
<1>. SUFFICES ASSUME Init PROVE CommandsInv
  OBVIOUS
<1>1. gpu = Ready /\ sent = <<>> /\ base = <<>>
  BY DEF Init
<1>2. GpuIs(Ready) /\ Pending(Ready, <<>>) /\ Ready.calls = <<>>
  BY DEF Ready, GpuIs, Pending
<1>3. <<>> \in Seq(Plain) /\ <<>> \in Seq(Bundle)
  OBVIOUS
<1>4. <<>> \o <<>> = <<>>
  BY <1>3, ConcatEmptySeq
<1>. QED  BY <1>1, <1>2, <1>3, <1>4, MeaningOfNothing DEF CommandsInv, CommandInv

\* Where a reset leaves no unfinished command, the words sent begin anew.
LEMMA ResetKeeps ==
  ASSUME NEW g, GpuIs(g), ~g.active, g.left = 0, g.params = <<>>
  PROVE  CommandInv(g, <<>>, g.calls)
<1>1. <<>> \in Seq(Plain) /\ <<>> \o <<>> = <<>>
  BY ConcatEmptySeq
<1>2. Pending(g, <<>>)
  BY DEF Pending
<1>3. g.calls \in Seq(Bundle) /\ g.calls \o <<>> = g.calls
  BY ConcatEmptySeq DEF GpuIs
<1>. QED  BY <1>1, <1>2, <1>3, MeaningOfNothing DEF CommandInv

\* Every step of the game keeps it: words are sent, or the unfinished command is
\* dropped together with its words.
LEMMA CommandsNext ==
  ASSUME NoPolylines
  PROVE  WalkInv /\ CommandsInv /\ [Next]_vars => CommandsInv'
<1>. SUFFICES ASSUME WalkInv, CommandsInv, [Next]_vars PROVE CommandInv(gpu', sent', base')
  BY DEF CommandsInv
<1>1. CommandInv(gpu, sent, base) /\ GpuIs(gpu)
  BY DEF CommandsInv, CommandInv
<1>2. ASSUME NEW ws \in Seq(Plain), NEW who, Send(ws, who) PROVE CommandInv(gpu', sent', base')
  BY <1>1, <1>2, WordsKeep DEF Send
<1>3. CASE WriteGP0
  <2>1. PICK w \in Words : Send(<<w>>, "port")
    BY <1>3 DEF WriteGP0
  <2>2. <<w>> \in Seq(Plain)
    BY OneIs DEF NoPolylines
  <2>. QED  BY <1>2, <2>1, <2>2
<1>4. CASE DmaBlock
  <2>1. PICK b \in Blocks : Send(b, "port")
    BY <1>4 DEF DmaBlock
  <2>2. b \in Seq(Plain)
    BY DEF NoPolylines
  <2>. QED  BY <1>2, <2>1, <2>2
<1>5. CASE ResetGPU
  <2>1. gpu' = [[Ready EXCEPT !.staging = gpu.staging] EXCEPT !.calls = gpu.calls] /\ sent' = <<>> /\ base' = gpu.calls
    BY <1>5 DEF ResetGPU
  <2>2. GpuIs(gpu') /\ ~(gpu'.active) /\ gpu'.left = 0 /\ gpu'.params = <<>> /\ gpu'.calls = gpu.calls
    BY <1>1, <2>1 DEF Ready, GpuIs
  <2>. QED  BY <2>1, <2>2, ResetKeeps
<1>6. CASE ResetCommandBuffer
  <2>1. CASE gpu.active
    BY <1>1, <1>6, <2>1 DEF ResetCommandBuffer
  <2>2. CASE ~gpu.active
    <3>1. gpu' = Idle(gpu) /\ sent' = <<>> /\ base' = gpu.calls
      BY <1>6, <2>2 DEF ResetCommandBuffer
    <3>2. gpu.left = 0
      BY <1>1, <2>2 DEF CommandInv, Pending
    <3>3. GpuIs(gpu') /\ ~(gpu'.active) /\ gpu'.left = 0 /\ gpu'.params = <<>> /\ gpu'.calls = gpu.calls
      BY <1>1, <2>2, <3>1, <3>2 DEF Idle, GpuIs
    <3>. QED  BY <3>1, <3>3, ResetKeeps
  <2>. QED  BY <2>1, <2>2
<1>7. ASSUME UNCHANGED <<sent, base>>, \E z : gpu' = [gpu EXCEPT !.answer = z] PROVE CommandInv(gpu', sent', base')
  <2>1. /\ GpuIs(gpu') /\ gpu'.active = gpu.active /\ gpu'.left = gpu.left /\ gpu'.params = gpu.params
        /\ gpu'.staging = gpu.staging /\ gpu'.calls = gpu.calls
    BY <1>1, <1>7 DEF GpuIs
  <2>2. \A b : Pending(gpu, b) => Pending(gpu', b)
    BY <2>1 DEF Pending
  <2>. QED  BY <1>1, <1>7, <2>1, <2>2 DEF CommandInv
<1>8. CASE GetGPUInfo
  BY <1>7, <1>8 DEF GetGPUInfo
<1>9. CASE ReadGPUREAD
  BY <1>7, <1>9 DEF ReadGPUREAD
<1>10. CASE DrawOTag
  BY <1>1, <1>10 DEF DrawOTag
<1>11. CASE WalkStep
  <2>1. CASE steps = Limit \/ table[ptr].kernel
    BY <1>1, <1>11, <2>1 DEF WalkStep
  <2>2. CASE ~(steps = Limit \/ table[ptr].kernel)
    <3>1. Send(table[ptr].words, "table")
      BY <1>11, <2>2 DEF WalkStep
    <3>2. table[ptr].words \in Seq(Plain)
      BY <1>11 DEF WalkStep, WalkInv, NoPolylines
    <3>. QED  BY <1>2, <3>1, <3>2
  <2>. QED  BY <2>1, <2>2
<1>12. CASE UNCHANGED vars
  BY <1>1, <1>12 DEF vars
<1>. QED  BY <1>3, <1>4, <1>5, <1>6, <1>8, <1>9, <1>10, <1>11, <1>12 DEF Next

\* The unfinished command says nothing yet, so the renderer was told the meaning
\* of all that was sent.
LEMMA CommandsAreOK ==
  ASSUME WalkInv, CommandsInv PROVE CommandsOK
<1>1. GpuIs(gpu) /\ sent \in Seq(Plain) /\ base \in Seq(Bundle)
  BY DEF CommandsInv, CommandInv
<1>2. PICK a \in Seq(Plain), b \in Seq(Plain) :
        sent = a \o b /\ Whole(a) /\ gpu.calls = base \o Meaning(a) /\ Pending(gpu, b)
  BY DEF CommandsInv, CommandInv
<1>3. DrawnAsSent
  <2>1. Meaning(b) = <<>>
    BY <1>1, <1>2, PendingShort, MeaningShort
  <2>2. Meaning(sent) = Meaning(a) \o Meaning(b)
    BY <1>2 DEF Whole
  <2>3. Meaning(a) \o <<>> = Meaning(a)
    BY MeaningType, ConcatEmptySeq
  <2>. QED  BY <1>2, <2>1, <2>2, <2>3 DEF DrawnAsSent
<1>4. gpu.left \in Nat /\ (gpu.active <=> gpu.left > 0)
  <2>1. CASE gpu.active
    BY <1>1, <1>2, <2>1 DEF Pending, GpuIs
  <2>2. CASE ~gpu.active
    BY <1>1, <1>2, <2>2 DEF Pending, GpuIs
  <2>. QED  BY <2>1, <2>2
<1>5. ASSUME gpu.active PROVE Len(gpu.params) = 3 /\ Len(gpu.staging) + gpu.left = Pixels(gpu.params[3])
  <2>1. PICK n \in Nat : n = Len(b) /\ n >= 3
    BY <1>2, <1>5 DEF Pending
  <2>2. gpu.params = SubSeq(b, 1, 3) /\ gpu.staging = Halves(SubSeq(b, 4, n)) /\ gpu.left + 2 * (n - 3) = Pixels(b[3])
    BY <1>2, <1>5, <2>1 DEF Pending
  <2>3. Len(gpu.params) = 3 /\ gpu.params[3] = b[3]
    <3>1. \A i \in 1..3 : b[i] \in Plain
      BY <2>1
    <3>2. Len(SubSeq(b, 1, 3)) = 3 /\ \A i \in 1..3 : SubSeq(b, 1, 3)[i] = b[i]
      BY <3>1, SubSeqProperties
    <3>. QED  BY <2>2, <3>2
  <2>4. Len(gpu.staging) = 2 * (n - 3)
    <3>1. \A i \in 4..n : b[i] \in Plain
      BY <2>1
    <3>2. SubSeq(b, 4, n) \in Seq(Plain) /\ Len(SubSeq(b, 4, n)) = IF 4 <= n THEN n - 4 + 1 ELSE 0
      BY <3>1, SubSeqProperties
    <3>3. Len(SubSeq(b, 4, n)) = n - 3
      BY <2>1, <3>2
    <3>. QED  BY <2>2, <3>2, <3>3, HalvesIs
  <2>5. 2 * (n - 3) + gpu.left = gpu.left + 2 * (n - 3)
    BY <2>1, <1>4
  <2>. QED  BY <2>2, <2>3, <2>4, <2>5
<1>. QED  BY <1>3, <1>4, <1>5 DEF CommandsOK, TypeOK, WalkInv

\* WriteGP0 and the transfers: for all words that begin no polyline, however
\* they are spread over stores, blocks and tables and wherever the game resets,
\* the renderer has been told the commands they make up in sequence, each
\* complete, and nothing else; a running upload has as many pixels to come as
\* its rectangle lacks.
THEOREM CommandsAlwaysDrawn ==
  ASSUME NoPolylines
  PROVE  Spec => []CommandsOK
<1>1. WalkInv /\ CommandsInv => CommandsOK
  BY CommandsAreOK
<1>2. WalkInv /\ CommandsInv /\ [Next]_vars => CommandsInv'
  BY CommandsNext
<1>. QED  BY <1>1, <1>2, WalkInit, WalkNext, CommandsInit, PTL DEF Spec

=============================================================================
