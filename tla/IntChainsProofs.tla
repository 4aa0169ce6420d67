-------------------------- MODULE IntChainsProofs --------------------------
(***************************************************************************)
(* For any handlers, number of chains and limits, whatever the handlers    *)
(* do to the chains: the lists stay lists of handlers, and VSync never     *)
(* passes its loop guard.  If no chain is longer than SysDeqIntRP looks,   *)
(* the links are the queues the game asked for (ChainInv), and VSync is at *)
(* a place of the queue of its chain behind which it called nothing        *)
(* (WalkInv), wherever handlers were put in and taken out meanwhile; the   *)
(* loop guard counts what it called (CountInv).                            *)
(***************************************************************************)
EXTENDS IntChains, FiniteSetTheorems, WellFoundedInduction, TLAPS
----------------------------------------------------------------------------
\* A queue without one of its handlers is a queue.
LEMMA WithoutIsQueue ==
  ASSUME NEW q \in Seq(Handlers), NEW h \in Handlers, \E i \in DOMAIN q : q[i] = h
  PROVE  Without(q, h) \in Seq(Handlers)
  <1> DEFINE k == CHOOSE i \in DOMAIN q : q[i] = h
  <1>1. k \in 1..Len(q)
    OBVIOUS
  <1>2. SubSeq(q, 1, k - 1) \in Seq(Handlers)
    BY <1>1
  <1>3. SubSeq(q, k + 1, Len(q)) \in Seq(Handlers)
    BY <1>1
  <1> HIDE DEF k
  <1>4. RemoveAt(q, k) \in Seq(Handlers)
    BY <1>2, <1>3 DEF RemoveAt
  <1> QED
    BY <1>4 DEF Without, k

\* The histories keep their types whatever a call asks of them.
LEMMA RememberTyped ==
  ASSUME TypeOK, NEW sound \in BOOLEAN, NEW asked \in [Priorities -> Seq(Handlers)],
         NEW gone, Remember(sound, asked, gone)
  PROVE  /\ clean' \in BOOLEAN /\ torn' \in BOOLEAN
         /\ queue' \in [Priorities -> Seq(Handlers)]
         /\ stayed' \subseteq Handlers
         /\ calls' \in [Handlers -> 0..2]
  <1>1. clean' \in BOOLEAN /\ torn' \in BOOLEAN
    BY Zenon DEF Remember
  <1>2. queue' \in [Priorities -> Seq(Handlers)]
    BY DEF Remember, Nothing
  <1>3. stayed' \subseteq Handlers
    BY DEF Remember, TypeOK
  <1>4. calls' \in [Handlers -> 0..2]
    BY DEF Remember, TypeOK, NoCalls
  <1> QED
    BY <1>1, <1>2, <1>3, <1>4

\* VSync turning to a chain.
LEMMA TurnTyped ==
  ASSUME TypeOK, ~inside, NEW p \in 0..(Chains + 1), Turn(p)
  PROVE  TypeOK'
  <1> USE LimitsAssumption DEF Priorities, Pointers
  <1>1. walk' \in [chain : 0..(Chains + 1), ptr : Pointers, guard : 0..Limit]
    BY DEF Turn, TypeOK, Idle
  <1>2. calls' \in [Handlers -> 0..2] /\ stayed' \subseteq Handlers /\ torn' = FALSE
    BY DEF Turn, NoCalls
  <1>3. /\ head' = head /\ link' = link /\ inside' = FALSE
        /\ queue' = queue /\ clean' = clean
    BY DEF Turn, chainVars, TypeOK
  <1> QED
    BY <1>1, <1>2, <1>3 DEF TypeOK

\* The empty chains.
LEMMA InitTyped == Init => TypeOK
  <1> SUFFICES ASSUME Init PROVE TypeOK
    OBVIOUS
  <1> USE LimitsAssumption DEF Priorities, Pointers
  <1>1. walk \in [chain : 0..(Chains + 1), ptr : Pointers, guard : 0..Limit]
    BY DEF Init, Idle
  <1>2. calls \in [Handlers -> 0..2] /\ queue \in [Priorities -> Seq(Handlers)]
    BY DEF Init, NoCalls, Nothing
  <1> QED
    BY <1>1, <1>2 DEF Init, TypeOK

\* Every step keeps the types.
LEMMA StepTyped == TypeOK /\ [Next]_vars => TypeOK'
  <1> SUFFICES ASSUME TypeOK, [Next]_vars PROVE TypeOK'
    OBVIOUS
  <1>1. ASSUME NEW p \in Priorities, NEW h \in Handlers, SysEnqIntRP(p, h)
        PROVE  TypeOK'
    <2>1. head' \in [Priorities -> Pointers] /\ link' \in [Handlers -> Pointers]
      BY <1>1 DEF SysEnqIntRP, TypeOK, Pointers
    <2>2. [queue EXCEPT ![p] = <<h>> \o @] \in [Priorities -> Seq(Handlers)]
      BY DEF TypeOK
    <2>3. (~Linked(h)) \in BOOLEAN
      OBVIOUS
    <2>4. Remember(~Linked(h), [queue EXCEPT ![p] = <<h>> \o @], {})
      BY <1>1 DEF SysEnqIntRP
    <2>5. /\ clean' \in BOOLEAN /\ torn' \in BOOLEAN
          /\ queue' \in [Priorities -> Seq(Handlers)]
          /\ stayed' \subseteq Handlers /\ calls' \in [Handlers -> 0..2]
      BY <2>2, <2>3, <2>4, RememberTyped
    <2>6. walk' = walk /\ inside' = inside
      BY <1>1 DEF SysEnqIntRP
    <2> QED
      BY <2>1, <2>5, <2>6 DEF TypeOK, Walking
  <1>2. ASSUME NEW p \in Priorities, NEW h \in Handlers, SysDeqIntRP(p, h)
        PROVE  TypeOK'
    <2>1. head' \in [Priorities -> Pointers] /\ link' \in [Handlers -> Pointers]
      <3>1. Dequeued(p, h)
        BY <1>2 DEF SysDeqIntRP
      <3>2. CASE head[p] = h
        BY <3>1, <3>2 DEF Dequeued, TypeOK
      <3>3. CASE head[p] # h
        <4>1. head' = head
          BY <3>1, <3>3 DEF Dequeued
        <4>2. link' = link \/ \E g : link' = [link EXCEPT ![g] = link[h]]
          BY <3>1, <3>3 DEF Dequeued
        <4> QED
          BY <4>1, <4>2 DEF TypeOK
      <3> QED
        BY <3>2, <3>3
    <2>2. /\ clean' \in BOOLEAN /\ torn' \in BOOLEAN
          /\ queue' \in [Priorities -> Seq(Handlers)]
          /\ stayed' \subseteq Handlers /\ calls' \in [Handlers -> 0..2]
      <3>1. CASE Holds(p, h)
        <4>1. Without(queue[p], h) \in Seq(Handlers)
          BY <3>1, WithoutIsQueue DEF Holds, TypeOK
        <4>2. [queue EXCEPT ![p] = Without(@, h)] \in [Priorities -> Seq(Handlers)]
          BY <4>1 DEF TypeOK
        <4>3. Remember(TRUE, [queue EXCEPT ![p] = Without(@, h)], {h})
          BY <1>2, <3>1 DEF SysDeqIntRP
        <4> QED
          BY <4>2, <4>3, RememberTyped
      <3>2. CASE ~Holds(p, h)
        <4>1. Remember(TRUE, queue, {}) /\ queue \in [Priorities -> Seq(Handlers)]
          BY <1>2, <3>2 DEF SysDeqIntRP, TypeOK
        <4> QED
          BY <4>1, RememberTyped
      <3> QED
        BY <3>1, <3>2
    <2>3. walk' = walk /\ inside' = inside
      BY <1>2 DEF SysDeqIntRP
    <2> QED
      BY <2>1, <2>2, <2>3 DEF TypeOK, Walking
  <1>3. CASE VSync
    <2>1. ~inside
      BY <1>3 DEF VSync, TypeOK
    <2>2. 0 \in 0..(Chains + 1)
      BY LimitsAssumption
    <2> QED
      BY <1>3, <2>1, <2>2, TurnTyped DEF VSync
  <1>4. CASE CallHandler
    <2>1. inside' = TRUE /\ Walking /\ walk.ptr # None /\ walk.guard < Limit
      BY <1>4 DEF CallHandler, More
    <2>2. /\ head' = head /\ link' = link /\ walk' = walk /\ queue' = queue
          /\ clean' = clean /\ torn' = torn /\ stayed' = stayed
      BY <1>4 DEF CallHandler, chainVars
    <2>3. calls' \in [Handlers -> 0..2]
      <3>1. walk.ptr \in Handlers
        BY <2>1 DEF TypeOK, Pointers
      <3>2. calls[walk.ptr] \in 0..2
        BY <3>1 DEF TypeOK
      <3> QED
        BY <1>4, <3>1, <3>2 DEF CallHandler, TypeOK
    <2> QED
      BY <2>1, <2>2, <2>3 DEF TypeOK, Walking
  <1>5. CASE HandlerReturns
    <2>1. inside /\ inside' = FALSE /\ walk' = Advanced
      BY <1>5 DEF HandlerReturns
    <2>2. walk.ptr \in Handlers /\ walk.guard < Limit /\ walk.guard \in 0..Limit
      BY <2>1 DEF TypeOK, Pointers
    <2>3. link[walk.ptr] \in Pointers /\ walk.guard + 1 \in 0..Limit
      BY <2>2, LimitsAssumption DEF TypeOK
    <2>4. walk' \in [chain : 0..(Chains + 1), ptr : Pointers, guard : 0..Limit]
      BY <2>1, <2>3 DEF Advanced, TypeOK
    <2>5. /\ head' = head /\ link' = link /\ queue' = queue /\ clean' = clean
          /\ torn' = torn /\ stayed' = stayed /\ calls' = calls
      BY <1>5 DEF HandlerReturns, chainVars, turnVars
    <2> QED
      BY <2>1, <2>4, <2>5 DEF TypeOK
  <1>6. CASE NextChain
    <2>1. ~inside /\ Turn(walk.chain + 1)
      BY <1>6 DEF NextChain
    <2>2. walk.chain + 1 \in 0..(Chains + 1)
      BY <1>6, LimitsAssumption DEF NextChain, Walking, Priorities
    <2> QED
      BY <2>1, <2>2, TurnTyped
  <1>7. CASE UNCHANGED vars
    BY <1>7 DEF vars, chainVars, turnVars, TypeOK, Walking
  <1> QED
    BY <1>1, <1>2, <1>3, <1>4, <1>5, <1>6, <1>7 DEF Next, GameCalls, PumpStep

\* The lists stay lists of handlers and VSync stays below its loop guard.
THEOREM TypeCorrect == Spec => []TypeOK
  <1>1. Init => TypeOK
    BY InitTyped
  <1>2. TypeOK /\ [Next]_vars => TypeOK'
    BY StepTyped
  <1> QED
    BY <1>1, <1>2, PTL DEF Spec
----------------------------------------------------------------------------
\* The handler at a place of a chain, or none behind its end.
Nth(p, k) == IF k <= Len(queue[p]) THEN queue[p][k] ELSE None
\* The links are the queues ...
Lists == \A p \in Priorities :
           /\ head[p] = Nth(p, 1)
           /\ \A i \in 1..Len(queue[p]) : link[queue[p][i]] = Nth(p, i + 1)
\* ... and no handler has two places.
OnePlace == \A p, r \in Priorities : \A i \in 1..Len(queue[p]), j \in 1..Len(queue[r]) :
              queue[p][i] = queue[r][j] => p = r /\ i = j
ChainInv == clean => Lists /\ OnePlace

\* VSync goes on at place k of its chain: nothing behind it was called, and what
\* stayed linked and is before it was.
GoesOnAt(k) ==
  LET q == queue[walk.chain]
  IN  /\ k \in 1..(Len(q) + 1)
      /\ \A i \in k..Len(q) : calls[q[i]] = 0
      /\ \A h \in stayed : \E i \in 1..Len(q) : q[i] = h /\ (i < k => calls[h] = 1)
      /\ ~inside => walk.ptr = Nth(walk.chain, k)
      /\ inside => \/ k > 1 /\ q[k - 1] = walk.ptr
                   \/ Left /\ link[walk.ptr] = Nth(walk.chain, k)
WalkInv == clean /\ ~torn => /\ \A h \in Handlers : calls[h] < 2
                             /\ Walking => \E k \in Nat : GoesOnAt(k)
\* The loop guard counts the handlers called.
CountInv == clean /\ ~torn /\ Walking => walk.guard + (IF inside THEN 1 ELSE 0) = Cardinality(Called)
----------------------------------------------------------------------------
\* Induction on the naturals: a set of them that is not all has a least gap.
LEMMA EveryNat ==
  ASSUME NEW T, 0 \in T, \A n \in Nat : n \in T => n + 1 \in T
  PROVE  \A n \in Nat : n \in T
  <1> SUFFICES ASSUME NEW g \in Nat, g \notin T PROVE FALSE
    OBVIOUS
  <1> DEFINE S == {0..x : x \in Nat \ T}
  <1>1. S \subseteq FiniteSubsetsOf(Nat) /\ S # {}
    <2>1. \A x \in Nat : 0..x \in SUBSET Nat /\ IsFiniteSet(0..x)
      BY FS_Interval
    <2>2. 0..g \in S
      OBVIOUS
    <2> QED
      BY <2>1, <2>2 DEF FiniteSubsetsOf
  <1>2. PICK t \in S : \A u \in S : <<u, t>> \notin StrictSubsetOrdering(Nat)
    <2> HIDE DEF S
    <2> QED
      BY <1>1, FS_StrictSubsetOrderingWellFounded, WFMin
  <1>3. PICK x \in Nat \ T : t = 0..x
    OBVIOUS
  <1>4. x - 1 \in Nat /\ x - 1 \notin T /\ (x - 1) + 1 = x
    BY <1>3
  <1>5. 0..(x - 1) \in S /\ 0..(x - 1) \subseteq 0..x /\ x \in 0..x /\ x \notin 0..(x - 1)
    BY <1>4
  <1>6. <<0..(x - 1), 0..x>> \in StrictSubsetOrdering(Nat)
    BY <1>5 DEF StrictSubsetOrdering
  <1> QED
    BY <1>2, <1>3, <1>5, <1>6

\* A queue in which no handler comes twice is no longer than there are handlers.
LEMMA NoLongerThanReach ==
  ASSUME HandlersFit, NEW q \in Seq(Handlers), \A i, j \in 1..Len(q) : q[i] = q[j] => i = j
  PROVE  Len(q) <= Reach + 1
  <1> DEFINE n == Len(q)
  <1>1. n \in Nat /\ q \in [1..n -> Handlers]
    OBVIOUS
  <1> HIDE DEF n
  <1>2. IsFiniteSet(1..n) /\ Cardinality(1..n) = n
    BY <1>1, FS_Interval
  <1>3. IsFiniteSet(Handlers) /\ Cardinality(Handlers) <= Reach + 1 /\ Cardinality(Handlers) \in Nat
    BY FS_CardinalityType DEF HandlersFit
  <1>4. ASSUME Cardinality(Handlers) < n PROVE FALSE
    <2>1. \E i, j \in 1..n : i # j /\ q[i] = q[j]
      BY <1>1, <1>2, <1>3, <1>4, FS_PigeonHole
    <2> QED
      BY <2>1 DEF n
  <1>5. n <= Reach + 1
    BY <1>1, <1>3, <1>4, LimitsAssumption
  <1> QED
    BY <1>5 DEF n

\* The places of a queue without one of its handlers.
LEMMA WithoutPlaces ==
  ASSUME NEW q \in Seq(Handlers), NEW j \in 1..Len(q), NEW h, q[j] = h,
         \A i \in 1..Len(q) : q[i] = h => i = j
  PROVE  /\ Without(q, h) \in Seq(Handlers) /\ Len(Without(q, h)) = Len(q) - 1
         /\ \A i \in 1..(Len(q) - 1) : Without(q, h)[i] = IF i < j THEN q[i] ELSE q[i + 1]
  <1>1. (CHOOSE i \in DOMAIN q : q[i] = h) = j
    OBVIOUS
  <1> DEFINE a == SubSeq(q, 1, j - 1)
             b == SubSeq(q, j + 1, Len(q))
  <1>2. Without(q, h) = a \o b
    BY <1>1 DEF Without, RemoveAt
  <1>3. /\ a \in Seq(Handlers) /\ Len(a) = j - 1 /\ \A i \in 1..(j - 1) : a[i] = q[i]
        /\ b \in Seq(Handlers) /\ Len(b) = Len(q) - j /\ \A i \in 1..(Len(q) - j) : b[i] = q[j + i]
    OBVIOUS
  <1> HIDE DEF a, b
  <1>4. a \o b \in Seq(Handlers) /\ Len(a \o b) = Len(q) - 1
    BY <1>3
  <1>5. ASSUME NEW i \in 1..(Len(q) - 1) PROVE (a \o b)[i] = IF i < j THEN q[i] ELSE q[i + 1]
    <2>1. CASE i < j
      <3>1. i \in 1..Len(a)
        BY <1>3, <2>1
      <3>2. (a \o b)[i] = a[i]
        BY <1>3, <3>1
      <3> QED
        BY <1>3, <2>1, <3>2
    <2>2. CASE i >= j
      <3>1. i - (j - 1) \in 1..(Len(q) - j) /\ j + (i - (j - 1)) = i + 1
        BY <2>2
      <3>2. (a \o b)[i] = b[i - (j - 1)]
        BY <1>3, <1>4, <2>2
      <3> QED
        BY <1>3, <2>2, <3>1, <3>2
    <2>3. i < j \/ i >= j
      OBVIOUS
    <2> QED
      BY <2>1, <2>2, <2>3
  <1> QED
    BY <1>2, <1>4, <1>5

\* What SysDeqIntRP finds behind the head is the queue.
LEMMA BehindIsQueue ==
  ASSUME TypeOK, Lists, NEW p \in Priorities
  PROVE  \A i \in 0..Reach : Behind(p)[i] = Nth(p, i + 1)
  <1> DEFINE W == [i \in 0..Reach |-> Nth(p, i + 1)]
             R(f) == f = [i \in 0..Reach |-> IF i = 0 THEN head[p]
                                             ELSE IF f[i - 1] = None THEN None ELSE link[f[i - 1]]]
             at == CHOOSE f : R(f)
  <1>0. Reach \in Nat /\ queue[p] \in Seq(Handlers) /\ Len(queue[p]) \in Nat
    BY LimitsAssumption DEF TypeOK
  <1>1. ASSUME NEW i \in 0..Reach, i # 0
        PROVE  Nth(p, i + 1) = IF Nth(p, i) = None THEN None ELSE link[Nth(p, i)]
    <2>1. CASE i <= Len(queue[p])
      <3>1. i \in 1..Len(queue[p])
        BY <1>0, <1>1, <2>1
      <3>2. queue[p][i] \in Handlers /\ Nth(p, i) = queue[p][i]
        BY <1>0, <2>1, <3>1 DEF Nth
      <3> QED
        BY <3>1, <3>2, NoneAssumption DEF Lists
    <2>2. CASE i > Len(queue[p])
      BY <1>0, <1>1, <2>2 DEF Nth
    <2> QED
      BY <1>0, <1>1, <2>1, <2>2
  <1>2. R(W)
    <2>1. \A i \in 0..Reach : W[i] = IF i = 0 THEN head[p] ELSE IF W[i - 1] = None THEN None ELSE link[W[i - 1]]
      <3> SUFFICES ASSUME NEW i \in 0..Reach
                   PROVE  W[i] = IF i = 0 THEN head[p] ELSE IF W[i - 1] = None THEN None ELSE link[W[i - 1]]
        OBVIOUS
      <3>1. CASE i = 0
        BY <3>1 DEF Lists
      <3>2. CASE i # 0
        <4>1. W[i] = Nth(p, i + 1) /\ W[i - 1] = Nth(p, i)
          BY <1>0, <3>2
        <4> HIDE DEF W
        <4> QED
          BY <1>1, <3>2, <4>1
      <3> QED
        BY <3>1, <3>2
    <2> QED
      BY <2>1
  <1>3. R(at)
    <2> HIDE DEF R
    <2> QED
      BY <1>2
  <1>4. Behind(p) = at
    BY DEF Behind
  <1>5. /\ at[0] = head[p]
        /\ \A i \in 0..Reach : i # 0 => at[i] = IF at[i - 1] = None THEN None ELSE link[at[i - 1]]
    <2> HIDE DEF at
    <2> QED
      BY <1>0, <1>3
  <1> HIDE DEF at, R
  <1> DEFINE T == {i \in Nat : i <= Reach => at[i] = Nth(p, i + 1)}
  <1>6. 0 \in T
    BY <1>5 DEF Lists
  <1>7. ASSUME NEW i \in Nat, i \in T PROVE i + 1 \in T
    <2>1. ASSUME i + 1 <= Reach PROVE at[i + 1] = Nth(p, i + 2)
      <3>1. at[i] = Nth(p, i + 1) /\ i + 1 \in 0..Reach /\ i + 1 # 0 /\ (i + 1) - 1 = i /\ (i + 1) + 1 = i + 2
        BY <1>0, <1>7, <2>1
      <3> QED
        BY <1>1, <1>5, <3>1
    <2> QED
      BY <2>1
  <1> HIDE DEF T
  <1>8. \A i \in Nat : i \in T
    BY <1>6, <1>7, EveryNat
  <1> QED
    BY <1>0, <1>4, <1>8 DEF T
----------------------------------------------------------------------------
\* Putting a handler in front of a chain it is not in.
LEMMA EnqueuedPlaces ==
  ASSUME TypeOK, NEW p \in Priorities, NEW h \in Handlers, SysEnqIntRP(p, h), clean'
  PROVE  /\ clean /\ ~Linked(h)
         /\ Len(queue'[p]) = Len(queue[p]) + 1 /\ queue'[p][1] = h
         /\ \A i \in 1..Len(queue[p]) : queue'[p][i + 1] = queue[p][i]
         /\ \A r \in Priorities : r # p => queue'[r] = queue[r]
         /\ head' = [head EXCEPT ![p] = h] /\ link' = [link EXCEPT ![h] = head[p]]
  <1>1. /\ Remember(~Linked(h), [queue EXCEPT ![p] = <<h>> \o @], {})
        /\ head' = [head EXCEPT ![p] = h] /\ link' = [link EXCEPT ![h] = head[p]]
    BY DEF SysEnqIntRP
  <1>2. clean /\ ~Linked(h)
    BY <1>1, Zenon DEF Remember
  <1>3. queue' = [queue EXCEPT ![p] = <<h>> \o queue[p]]
    BY <1>1 DEF Remember
  <1>4. queue[p] \in Seq(Handlers) /\ queue \in [Priorities -> Seq(Handlers)]
    BY DEF TypeOK
  <1>5. queue'[p] = <<h>> \o queue[p] /\ \A r \in Priorities : r # p => queue'[r] = queue[r]
    BY <1>3, <1>4
  <1> QED
    BY <1>1, <1>2, <1>4, <1>5

\* ... whose links are that queue.
LEMMA EnqueueHolds ==
  ASSUME TypeOK, ChainInv, NEW p \in Priorities, NEW h \in Handlers, SysEnqIntRP(p, h)
  PROVE  ChainInv'
  <1> SUFFICES ASSUME clean' PROVE Lists' /\ OnePlace'
    BY DEF ChainInv
  <1>1. /\ clean /\ ~Linked(h)
        /\ Len(queue'[p]) = Len(queue[p]) + 1 /\ queue'[p][1] = h
        /\ \A i \in 1..Len(queue[p]) : queue'[p][i + 1] = queue[p][i]
        /\ \A r \in Priorities : r # p => queue'[r] = queue[r]
        /\ head' = [head EXCEPT ![p] = h] /\ link' = [link EXCEPT ![h] = head[p]]
    BY EnqueuedPlaces
  <1>2. Lists /\ OnePlace
    BY <1>1 DEF ChainInv
  <1>3. /\ head \in [Priorities -> Pointers] /\ link \in [Handlers -> Pointers]
        /\ \A r \in Priorities : /\ Len(queue[r]) \in Nat
                                 /\ \A i \in 1..Len(queue[r]) : queue[r][i] \in Handlers
    BY DEF TypeOK
  <1>4. \A r \in Priorities : \A i \in 1..Len(queue[r]) : queue[r][i] # h
    BY <1>1, <1>3 DEF Linked, Holds
  <1>5. ASSUME NEW i \in 1..Len(queue'[p]), i # 1
        PROVE  i - 1 \in 1..Len(queue[p]) /\ queue'[p][i] = queue[p][i - 1]
    <2>1. i - 1 \in 1..Len(queue[p]) /\ (i - 1) + 1 = i
      BY <1>1, <1>3, <1>5
    <2> QED
      BY <1>1, <2>1
  <1>6. OnePlace'
    <2> SUFFICES ASSUME NEW q \in Priorities, NEW r \in Priorities,
                        NEW i \in 1..Len(queue'[q]), NEW j \in 1..Len(queue'[r]), queue'[q][i] = queue'[r][j]
                 PROVE  q = r /\ i = j
      BY DEF OnePlace
    <2>1. CASE q # p /\ r # p
      BY <1>1, <1>2, <2>1 DEF OnePlace
    <2>2. CASE q = p /\ r = p
      <3>1. CASE i = 1 \/ j = 1
        BY <1>1, <1>4, <1>5, <2>2, <3>1
      <3>2. CASE i # 1 /\ j # 1
        <4>1. i - 1 = j - 1
          BY <1>2, <1>5, <2>2, <3>2 DEF OnePlace
        <4> QED
          BY <1>1, <1>3, <2>2, <4>1
      <3> QED
        BY <3>1, <3>2
    <2>3. CASE q = p /\ r # p
      <3>1. queue'[r] = queue[r]
        BY <1>1, <2>3
      <3>2. i # 1
        BY <1>1, <1>4, <2>3, <3>1
      <3> QED
        BY <1>2, <1>5, <2>3, <3>1, <3>2 DEF OnePlace
    <2>4. CASE q # p /\ r = p
      <3>1. queue'[q] = queue[q]
        BY <1>1, <2>4
      <3>2. j # 1
        BY <1>1, <1>4, <2>4, <3>1
      <3> QED
        BY <1>2, <1>5, <2>4, <3>1, <3>2 DEF OnePlace
    <2> QED
      BY <2>1, <2>2, <2>3, <2>4
  <1>7. Lists'
    <2> SUFFICES ASSUME NEW r \in Priorities
                 PROVE  /\ head'[r] = Nth(r, 1)'
                        /\ \A i \in 1..Len(queue'[r]) : link'[queue'[r][i]] = Nth(r, i + 1)'
      BY DEF Lists
    <2>1. CASE r # p
      <3>1. queue'[r] = queue[r] /\ head'[r] = head[r]
        BY <1>1, <1>3, <2>1
      <3>2. \A i \in 1..Len(queue[r]) : link'[queue[r][i]] = link[queue[r][i]]
        BY <1>1, <1>3, <1>4
      <3> QED
        BY <1>2, <3>1, <3>2 DEF Lists, Nth
    <2>2. CASE r = p
      <3>1. \A k \in Nat : k >= 1 => Nth(p, k + 1)' = Nth(p, k)
        <4> SUFFICES ASSUME NEW k \in Nat, k >= 1 PROVE Nth(p, k + 1)' = Nth(p, k)
          OBVIOUS
        <4>1. CASE k <= Len(queue[p])
          <5>1. k \in 1..Len(queue[p]) /\ k + 1 <= Len(queue'[p])
            BY <1>1, <1>3, <4>1
          <5> QED
            BY <1>1, <4>1, <5>1 DEF Nth
        <4>2. CASE k > Len(queue[p])
          <5>1. ~(k + 1 <= Len(queue'[p])) /\ ~(k <= Len(queue[p]))
            BY <1>1, <1>3, <4>2
          <5> QED
            BY <5>1 DEF Nth
        <4> QED
          BY <1>3, <4>1, <4>2
      <3>2. head'[p] = Nth(p, 1)'
        <4>1. 1 <= Len(queue'[p])
          BY <1>1, <1>3
        <4> QED
          BY <1>1, <1>3, <4>1 DEF Nth
      <3>3. link'[h] = Nth(p, 1) /\ link'[queue'[p][1]] = Nth(p, 1 + 1)'
        BY <1>1, <1>2, <1>3, <3>1 DEF Lists
      <3>4. ASSUME NEW i \in 1..Len(queue'[p]), i # 1 PROVE link'[queue'[p][i]] = Nth(p, i + 1)'
        <4>1. i - 1 \in 1..Len(queue[p]) /\ queue'[p][i] = queue[p][i - 1]
          BY <1>5, <3>4
        <4>2. link'[queue'[p][i]] = link[queue[p][i - 1]]
          BY <1>1, <1>3, <1>4, <4>1
        <4>3. (i - 1) + 1 = i /\ i \in Nat /\ i >= 1
          BY <4>1
        <4>4. link[queue[p][i - 1]] = Nth(p, i)
          BY <1>2, <4>1, <4>3 DEF Lists
        <4> QED
          BY <3>1, <4>2, <4>3, <4>4
      <3> QED
        BY <2>2, <3>2, <3>3, <3>4
    <2> QED
      BY <2>1, <2>2
  <1> QED
    BY <1>6, <1>7
----------------------------------------------------------------------------
\* Taking out a handler: the queue closes up, and so do the links.
LEMMA DequeuedLinks ==
  ASSUME TypeOK, Lists, OnePlace, HandlersFit, NEW p \in Priorities, NEW h \in Handlers, Dequeued(p, h)
  PROVE  /\ ~Holds(p, h) => head' = head /\ link' = link
         /\ \A j \in 1..Len(queue[p]) : queue[p][j] = h =>
              /\ j = 1 => head' = [head EXCEPT ![p] = link[h]] /\ link' = link
              /\ j > 1 => head' = head /\ link' = [link EXCEPT ![queue[p][j - 1]] = link[h]]
  <1> DEFINE n == Len(queue[p])
  <1>1. /\ n \in Nat /\ \A i \in 1..n : queue[p][i] \in Handlers
        /\ n <= Reach + 1 /\ Reach \in Nat /\ Reach >= 1
    <2>1. queue[p] \in Seq(Handlers) /\ \A i, j \in 1..n : queue[p][i] = queue[p][j] => i = j
      BY DEF TypeOK, OnePlace
    <2>2. n <= Reach + 1
      BY <2>1, NoLongerThanReach
    <2> QED
      BY <2>1, <2>2, LimitsAssumption
  <1>2. \A i \in 0..Reach : Behind(p)[i] = Nth(p, i + 1)
    BY BehindIsQueue
  <1>3. head[p] = h <=> n >= 1 /\ queue[p][1] = h
    BY <1>1, NoneAssumption DEF Lists, Nth
  <1> DEFINE hits == {i \in 0..(Reach - 1) : Behind(p)[i] # None /\ link[Behind(p)[i]] = h}
  <1>4. ASSUME NEW i \in hits PROVE i + 2 \in 1..n /\ queue[p][i + 2] = h /\ Behind(p)[i] = queue[p][i + 1]
    <2>1. i \in 0..Reach /\ Nth(p, i + 1) # None /\ link[Nth(p, i + 1)] = h /\ Behind(p)[i] = Nth(p, i + 1)
      BY <1>1, <1>2, <1>4
    <2>2. i + 1 \in 1..n /\ Nth(p, i + 1) = queue[p][i + 1]
      BY <1>1, <2>1 DEF Nth
    <2>3. Nth(p, i + 2) = h
      <3>1. (i + 1) + 1 = i + 2
        BY <2>1
      <3> QED
        BY <2>1, <2>2, <3>1 DEF Lists
    <2>4. i + 2 <= n /\ queue[p][i + 2] = h
      BY <1>1, <2>1, <2>3, NoneAssumption DEF Nth
    <2> QED
      BY <1>1, <2>1, <2>2, <2>4
  <1>5. ASSUME NEW j \in 1..n, queue[p][j] = h, j > 1 PROVE hits = {j - 2} /\ Before(p, h) = queue[p][j - 1]
    <2>1. j - 2 \in 0..(Reach - 1) /\ j - 2 \in 0..Reach /\ (j - 2) + 1 = j - 1 /\ j - 1 \in 1..n /\ (j - 1) + 1 = j
      BY <1>1, <1>5
    <2>2. Behind(p)[j - 2] = queue[p][j - 1]
      BY <1>1, <1>2, <2>1 DEF Nth
    <2>3. link[queue[p][j - 1]] = h
      <3>1. Nth(p, j) = h
        BY <1>1, <1>5 DEF Nth
      <3> QED
        BY <2>1, <3>1 DEF Lists
    <2>4. j - 2 \in hits
      BY <1>1, <2>1, <2>2, <2>3, NoneAssumption
    <2>5. ASSUME NEW i \in hits PROVE i = j - 2
      <3>1. i + 2 \in 1..n /\ queue[p][i + 2] = h /\ i \in 0..(Reach - 1)
        BY <1>4, <2>5
      <3>2. i + 2 = j
        BY <1>5, <3>1 DEF OnePlace
      <3> QED
        BY <1>1, <3>1, <3>2
    <2>6. hits = {j - 2}
      BY <2>4, <2>5
    <2>7. Min(hits) = j - 2
      <3> HIDE DEF hits
      <3> QED
        BY <2>1, <2>6 DEF Min
    <2>8. Before(p, h) = Behind(p)[Min(hits)]
      BY <2>6 DEF Before
    <2> QED
      BY <2>2, <2>6, <2>7, <2>8
  <1>6. CASE ~Holds(p, h)
    <2>1. head[p] # h
      BY <1>1, <1>3, <1>6 DEF Holds, TypeOK
    <2>2. hits = {}
      BY <1>1, <1>4, <1>6 DEF Holds, TypeOK
    <2>3. Before(p, h) = None
      BY <2>2 DEF Before
    <2>4. head' = head /\ link' = link
      BY <2>1, <2>3 DEF Dequeued
    <2>5. \A j \in 1..n : queue[p][j] # h
      BY <1>6 DEF Holds, TypeOK
    <2> QED
      BY <2>4, <2>5
  <1>7. CASE Holds(p, h)
    <2>1. ASSUME NEW j \in 1..n, queue[p][j] = h
          PROVE  /\ j = 1 => head' = [head EXCEPT ![p] = link[h]] /\ link' = link
                 /\ j > 1 => head' = head /\ link' = [link EXCEPT ![queue[p][j - 1]] = link[h]]
      <3>1. CASE j = 1
        BY <1>1, <1>3, <2>1, <3>1 DEF Dequeued
      <3>2. CASE j > 1
        <4>1. head[p] # h
          <5>1. ASSUME head[p] = h PROVE FALSE
            <6>1. 1 \in 1..n /\ queue[p][1] = h
              BY <1>1, <1>3, <5>1
            <6>2. 1 = j
              BY <2>1, <6>1 DEF OnePlace
            <6> QED
              BY <3>2, <6>2
          <5> QED
            BY <5>1
        <4>2. Before(p, h) = queue[p][j - 1]
          BY <1>5, <2>1, <3>2
        <4>3. queue[p][j - 1] # None
          BY <1>1, <2>1, <3>2, NoneAssumption
        <4> QED
          BY <3>2, <4>1, <4>2, <4>3 DEF Dequeued
      <3> QED
        BY <3>1, <3>2
    <2> QED
      BY <1>7, <2>1
  <1> QED
    BY <1>6, <1>7

\* The places of the queue behind it.
LEMMA DequeuedPlaces ==
  ASSUME TypeOK, Lists, OnePlace, HandlersFit, NEW p \in Priorities, NEW h \in Handlers,
         SysDeqIntRP(p, h), clean', NEW j \in 1..Len(queue[p]), queue[p][j] = h
  PROVE  /\ Len(queue'[p]) = Len(queue[p]) - 1
         /\ \A i \in 1..(Len(queue[p]) - 1) : queue'[p][i] = IF i < j THEN queue[p][i] ELSE queue[p][i + 1]
         /\ \A r \in Priorities : r # p => queue'[r] = queue[r]
         /\ Remember(TRUE, [queue EXCEPT ![p] = Without(@, h)], {h})
  <1>1. Holds(p, h)
    BY DEF Holds, TypeOK
  <1>2. Remember(TRUE, [queue EXCEPT ![p] = Without(@, h)], {h})
    BY <1>1 DEF SysDeqIntRP
  <1>3. queue' = [queue EXCEPT ![p] = Without(queue[p], h)]
    BY <1>2 DEF Remember
  <1>4. queue[p] \in Seq(Handlers) /\ queue \in [Priorities -> Seq(Handlers)]
    BY DEF TypeOK
  <1>5. \A i \in 1..Len(queue[p]) : queue[p][i] = h => i = j
    BY DEF OnePlace
  <1>6. /\ Len(Without(queue[p], h)) = Len(queue[p]) - 1
        /\ \A i \in 1..(Len(queue[p]) - 1) :
             Without(queue[p], h)[i] = IF i < j THEN queue[p][i] ELSE queue[p][i + 1]
    BY <1>4, <1>5, WithoutPlaces
  <1>7. queue'[p] = Without(queue[p], h) /\ \A r \in Priorities : r # p => queue'[r] = queue[r]
    BY <1>3, <1>4
  <1> QED
    BY <1>2, <1>6, <1>7

\* ... and its links.
LEMMA DequeueHolds ==
  ASSUME TypeOK, ChainInv, HandlersFit, NEW p \in Priorities, NEW h \in Handlers, SysDeqIntRP(p, h)
  PROVE  ChainInv'
  <1> SUFFICES ASSUME clean' PROVE Lists' /\ OnePlace'
    BY DEF ChainInv
  <1>1. clean /\ Dequeued(p, h)
    BY Zenon DEF SysDeqIntRP, Remember
  <1>2. Lists /\ OnePlace
    BY <1>1 DEF ChainInv
  <1>3. /\ head \in [Priorities -> Pointers] /\ link \in [Handlers -> Pointers]
        /\ \A r \in Priorities : /\ Len(queue[r]) \in Nat
                                 /\ \A i \in 1..Len(queue[r]) : queue[r][i] \in Handlers
    BY DEF TypeOK
  <1>4. CASE ~Holds(p, h)
    <2>1. head' = head /\ link' = link
      BY <1>1, <1>2, <1>4, DequeuedLinks
    <2>2. queue' = queue
      BY <1>4 DEF SysDeqIntRP, Remember
    <2> QED
      BY <1>2, <2>1, <2>2 DEF Lists, OnePlace, Nth
  <1>5. CASE Holds(p, h)
    <2>1. PICK j \in 1..Len(queue[p]) : queue[p][j] = h
      BY <1>5 DEF Holds, TypeOK
    <2>2. /\ j = 1 => head' = [head EXCEPT ![p] = link[h]] /\ link' = link
          /\ j > 1 => head' = head /\ link' = [link EXCEPT ![queue[p][j - 1]] = link[h]]
      BY <1>1, <1>2, <2>1, DequeuedLinks
    <2>3. /\ Len(queue'[p]) = Len(queue[p]) - 1
          /\ \A i \in 1..(Len(queue[p]) - 1) : queue'[p][i] = IF i < j THEN queue[p][i] ELSE queue[p][i + 1]
          /\ \A r \in Priorities : r # p => queue'[r] = queue[r]
      BY <1>2, <2>1, DequeuedPlaces
    <2>4. link[h] = Nth(p, j + 1)
      BY <1>2, <2>1 DEF Lists
    \* The place a handler had.
    <2> DEFINE was(r, i) == IF r = p /\ i >= j THEN i + 1 ELSE i
    <2>5. ASSUME NEW r \in Priorities, NEW i \in 1..Len(queue'[r])
          PROVE  was(r, i) \in 1..Len(queue[r]) /\ queue'[r][i] = queue[r][was(r, i)]
      BY <1>3, <2>3
    <2>6. OnePlace'
      <3> SUFFICES ASSUME NEW q \in Priorities, NEW r \in Priorities,
                          NEW i \in 1..Len(queue'[q]), NEW k \in 1..Len(queue'[r]), queue'[q][i] = queue'[r][k]
                   PROVE  q = r /\ i = k
        BY DEF OnePlace
      <3>1. /\ was(q, i) \in 1..Len(queue[q]) /\ was(r, k) \in 1..Len(queue[r])
            /\ queue[q][was(q, i)] = queue[r][was(r, k)]
        BY <2>5
      <3> HIDE DEF was
      <3>2. q = r /\ was(q, i) = was(r, k)
        BY <1>2, <3>1 DEF OnePlace
      <3>3. i \in Int /\ k \in Int
        OBVIOUS
      <3> QED
        BY <3>2, <3>3 DEF was
    <2>7. ASSUME NEW k \in Nat, k >= 1 PROVE Nth(p, k)' = IF k < j THEN Nth(p, k) ELSE Nth(p, k + 1)
      <3> DEFINE n == Len(queue[p])
      <3>1. n \in Nat /\ j \in 1..n /\ Len(queue'[p]) = n - 1
        BY <1>3, <2>3
      <3>2. CASE k <= n - 1
        <4> HIDE DEF n
        <4>3. k \in 1..(n - 1)
          BY <2>7, <3>1, <3>2
        <4>1. queue'[p][k] = IF k < j THEN queue[p][k] ELSE queue[p][k + 1]
          BY <2>3, <4>3 DEF n
        <4>2. k <= n /\ k + 1 <= n
          BY <3>1, <3>2
        <4> QED
          BY <3>1, <3>2, <4>1, <4>2 DEF Nth, n
      <3>3. CASE k > n - 1
        <4> HIDE DEF n
        <4>1. ~(k <= n - 1) /\ ~(k + 1 <= n) /\ ~(k < j)
          BY <3>1, <3>3
        <4> QED
          BY <3>1, <4>1 DEF Nth, n
      <3>4. k <= n - 1 \/ k > n - 1
        BY <3>1
      <3> QED
        BY <3>2, <3>3, <3>4
    <2>8. Lists'
      <3> SUFFICES ASSUME NEW r \in Priorities
                   PROVE  /\ head'[r] = Nth(r, 1)'
                          /\ \A i \in 1..Len(queue'[r]) : link'[queue'[r][i]] = Nth(r, i + 1)'
        BY DEF Lists
      <3>1. CASE r # p
        <4>1. queue'[r] = queue[r] /\ head'[r] = head[r]
          BY <1>3, <2>1, <2>2, <2>3, <3>1
        <4>2. ASSUME NEW i \in 1..Len(queue[r]) PROVE link'[queue[r][i]] = link[queue[r][i]]
          <5>1. CASE j = 1
            BY <2>2, <5>1
          <5>2. CASE j > 1
            <6>1. j - 1 \in 1..Len(queue[p])
              BY <1>3, <5>2
            <6>2. queue[r][i] # queue[p][j - 1]
              BY <1>2, <3>1, <6>1 DEF OnePlace
            <6> QED
              BY <1>3, <2>2, <5>2, <6>2
          <5> QED
            BY <5>1, <5>2
        <4> QED
          BY <1>2, <4>1, <4>2 DEF Lists, Nth
      <3>2. CASE r = p
        <4>1. head'[p] = Nth(p, 1)'
          <5>1. CASE j = 1
            BY <1>3, <2>2, <2>4, <2>7, <5>1
          <5>2. CASE j > 1
            BY <1>2, <2>2, <2>7, <5>2 DEF Lists
          <5> QED
            BY <5>1, <5>2
        <4>2. ASSUME NEW i \in 1..Len(queue'[p]) PROVE link'[queue'[p][i]] = Nth(p, i + 1)'
          <5>1. /\ i \in Nat /\ i >= 1 /\ i + 1 \in Nat /\ i + 1 >= 1 /\ (i + 1) + 1 = i + 2
                /\ i \in 1..(Len(queue[p]) - 1) /\ i \in 1..Len(queue[p]) /\ i + 1 \in 1..Len(queue[p])
            BY <1>3, <2>3
          <5>2. CASE i >= j
            <6>1. queue'[p][i] = queue[p][i + 1] /\ ~(i + 1 < j)
              BY <2>3, <5>1, <5>2
            <6>2. Nth(p, i + 1)' = Nth(p, i + 2)
              BY <2>7, <5>1, <6>1
            <6>3. link[queue[p][i + 1]] = Nth(p, i + 2)
              BY <1>2, <5>1 DEF Lists
            <6>4. link'[queue[p][i + 1]] = link[queue[p][i + 1]]
              <7>1. CASE j = 1
                BY <2>2, <7>1
              <7>2. CASE j > 1
                <8>1. j - 1 \in 1..Len(queue[p]) /\ i + 1 # j - 1
                  BY <1>3, <5>2, <7>2
                <8>2. queue[p][i + 1] # queue[p][j - 1]
                  BY <1>2, <5>1, <8>1 DEF OnePlace
                <8> QED
                  BY <1>3, <2>2, <5>1, <7>2, <8>2
              <7> QED
                BY <7>1, <7>2
            <6> QED
              BY <6>1, <6>2, <6>3, <6>4
          <5>3. CASE i < j - 1
            <6>1. queue'[p][i] = queue[p][i] /\ i + 1 < j /\ j > 1 /\ j - 1 \in 1..Len(queue[p]) /\ i # j - 1
              BY <1>3, <2>3, <5>1, <5>3
            <6>2. Nth(p, i + 1)' = Nth(p, i + 1)
              BY <2>7, <5>1, <6>1
            <6>3. queue[p][i] # queue[p][j - 1]
              BY <1>2, <5>1, <6>1 DEF OnePlace
            <6>4. link'[queue[p][i]] = link[queue[p][i]]
              BY <1>3, <2>2, <5>1, <6>1, <6>3
            <6> QED
              BY <1>2, <5>1, <6>1, <6>2, <6>4 DEF Lists
          <5>4. CASE i = j - 1
            <6>1. queue'[p][i] = queue[p][j - 1] /\ j > 1 /\ i + 1 = j
              BY <2>3, <5>1, <5>4
            <6>2. Nth(p, i + 1)' = Nth(p, j + 1)
              BY <2>7, <5>1, <6>1
            <6>3. link'[queue[p][j - 1]] = link[h]
              BY <1>3, <2>2, <5>1, <5>4, <6>1
            <6> QED
              BY <2>4, <6>1, <6>2, <6>3
          <5>5. i >= j \/ i < j - 1 \/ i = j - 1
            BY <5>1
          <5> QED
            BY <5>2, <5>3, <5>4, <5>5
        <4> QED
          BY <3>2, <4>1, <4>2
      <3> QED
        BY <3>1, <3>2
    <2> QED
      BY <2>6, <2>8
  <1> QED
    BY <1>4, <1>5

\* Nothing but the game's calls changes the chains.
LEMMA ChainStep == HandlersFit /\ TypeOK /\ ChainInv /\ [Next]_vars => ChainInv'
  <1> SUFFICES ASSUME HandlersFit, TypeOK, ChainInv, [Next]_vars PROVE ChainInv'
    OBVIOUS
  <1>1. CASE GameCalls
    BY <1>1, EnqueueHolds, DequeueHolds DEF GameCalls
  <1>2. CASE VSync \/ PumpStep \/ UNCHANGED vars
    <2>1. UNCHANGED <<head, link, queue, clean>>
      BY <1>2 DEF VSync, PumpStep, CallHandler, HandlerReturns, NextChain, Turn, vars, chainVars
    <2> QED
      BY <2>1 DEF ChainInv, Lists, OnePlace, Nth
  <1> QED
    BY <1>1, <1>2 DEF Next

\* No chain holds anything at first.
LEMMA ChainInit == Init => ChainInv
  BY DEF Init, ChainInv, Lists, OnePlace, Nth, Nothing

\* For any handlers that SysDeqIntRP can reach, any chains and limits: as long
\* as the game links no handler twice, every chain is the list of what was
\* enqueued and not dequeued, newest first (runtime.c:2926-2970).
THEOREM ChainsAlwaysHoldQueues ==
  ASSUME HandlersFit
  PROVE  Spec => []ChainsHoldQueues
  <1>1. TypeOK /\ ChainInv => ChainsHoldQueues
    <2> SUFFICES ASSUME TypeOK, ChainInv, clean, NEW p \in Priorities
                 PROVE  /\ head[p] = IF queue[p] = <<>> THEN None ELSE queue[p][1]
                        /\ \A i \in DOMAIN queue[p] :
                             link[queue[p][i]] = IF i = Len(queue[p]) THEN None ELSE queue[p][i + 1]
      BY DEF ChainsHoldQueues
    <2>1. queue[p] \in Seq(Handlers) /\ Len(queue[p]) \in Nat /\ DOMAIN queue[p] = 1..Len(queue[p])
      BY DEF TypeOK
    <2>2. head[p] = Nth(p, 1) /\ \A i \in 1..Len(queue[p]) : link[queue[p][i]] = Nth(p, i + 1)
      BY DEF ChainInv, Lists
    <2>3. queue[p] = <<>> <=> ~(1 <= Len(queue[p]))
      BY <2>1
    <2> QED
      BY <2>1, <2>2, <2>3 DEF Nth
  <1>2. TypeOK /\ ChainInv /\ [Next]_vars => ChainInv'
    BY ChainStep
  <1> QED
    BY <1>1, <1>2, ChainInit, TypeCorrect, PTL DEF Spec
----------------------------------------------------------------------------
\* What a call of the game does to the histories of VSync's turn.
LEMMA RememberKeeps ==
  ASSUME NEW sound \in BOOLEAN, NEW asked, NEW gone, Remember(sound, asked, gone), clean', ~torn'
  PROVE  clean /\ ~torn /\ ~Left /\ stayed' = stayed \ gone /\ calls' = calls
  <1>1. clean /\ ~torn /\ ~Left
    BY Zenon DEF Remember
  <1>2. stayed' = stayed \ gone /\ calls' = calls
    BY DEF Remember
  <1> QED
    BY <1>1, <1>2

\* A handler that is put in comes before the place VSync goes on at.
LEMMA WalkEnqueue ==
  ASSUME TypeOK, ChainInv, ChainInv', WalkInv, NEW p \in Priorities, NEW h \in Handlers, SysEnqIntRP(p, h)
  PROVE  WalkInv'
  <1> SUFFICES ASSUME clean', ~torn' PROVE (\A g \in Handlers : calls'[g] < 2) /\ (Walking' => \E k \in Nat : GoesOnAt(k)')
    BY DEF WalkInv
  <1>1. /\ clean /\ ~Linked(h)
        /\ Len(queue'[p]) = Len(queue[p]) + 1 /\ queue'[p][1] = h
        /\ \A i \in 1..Len(queue[p]) : queue'[p][i + 1] = queue[p][i]
        /\ \A r \in Priorities : r # p => queue'[r] = queue[r]
    BY EnqueuedPlaces
  <1>2. ~torn /\ ~Left /\ stayed' = stayed /\ calls' = calls
    <2>1. Remember(~Linked(h), [queue EXCEPT ![p] = <<h>> \o @], {})
      BY DEF SysEnqIntRP
    <2>2. (~Linked(h)) \in BOOLEAN
      OBVIOUS
    <2>3. clean /\ ~torn /\ ~Left /\ stayed' = stayed \ {} /\ calls' = calls
      BY <2>1, <2>2, RememberKeeps
    <2> QED
      BY <2>3
  <1>3. GameRuns /\ walk' = walk /\ inside' = inside
    BY DEF SysEnqIntRP
  <1>4. \A g \in Handlers : calls[g] < 2
    BY <1>1, <1>2 DEF WalkInv
  <1>5. ASSUME Walking PROVE \E k \in Nat : GoesOnAt(k)'
    <2> DEFINE c == walk.chain
               n == Len(queue[c])
    <2>1. inside /\ c \in Priorities /\ n \in Nat
      BY <1>3, <1>5 DEF GameRuns, Walking, TypeOK
    <2>2. PICK k \in Nat : GoesOnAt(k)
      BY <1>1, <1>2, <1>5 DEF WalkInv
    <2>3. /\ k \in 1..(n + 1) /\ \A i \in k..n : calls[queue[c][i]] = 0
          /\ \A g \in stayed : \E i \in 1..n : queue[c][i] = g /\ (i < k => calls[g] = 1)
          /\ k > 1 /\ queue[c][k - 1] = walk.ptr
      BY <1>2, <2>1, <2>2 DEF GoesOnAt
    <2>4. CASE c # p
      <3>1. queue'[c] = queue[c]
        BY <1>1, <2>1, <2>4
      <3>2. GoesOnAt(k)'
        BY <1>2, <1>3, <2>1, <2>3, <3>1 DEF GoesOnAt
      <3> QED
        BY <3>2
    <2>5. CASE c = p
      <3> DEFINE q == queue'[c]
      <3>1. /\ Len(q) = n + 1 /\ \A i \in 1..n : q[i + 1] = queue[c][i]
        BY <1>1, <2>5
      <3> HIDE DEF q, n
      <3>2. k + 1 \in 1..(Len(q) + 1) /\ k + 1 > 1
        BY <2>1, <2>3, <3>1
      <3>3. ASSUME NEW i \in (k + 1)..Len(q) PROVE calls[q[i]] = 0
        <4>1. i - 1 \in k..n /\ i - 1 \in 1..n /\ (i - 1) + 1 = i
          BY <2>1, <2>3, <3>1
        <4> QED
          BY <2>3, <3>1, <4>1
      <3>4. ASSUME NEW g \in stayed PROVE \E i \in 1..Len(q) : q[i] = g /\ (i < k + 1 => calls[g] = 1)
        <4>1. PICK i \in 1..n : queue[c][i] = g /\ (i < k => calls[g] = 1)
          BY <2>3
        <4>2. i + 1 \in 1..Len(q) /\ q[i + 1] = g /\ (i + 1 < k + 1 => calls[g] = 1)
          BY <2>1, <3>1, <4>1
        <4> QED
          BY <4>2
      <3>5. q[(k + 1) - 1] = walk.ptr
        <4>1. k - 1 \in 1..n /\ (k - 1) + 1 = (k + 1) - 1
          BY <2>1, <2>3
        <4> QED
          BY <2>3, <3>1, <4>1
      <3>6. GoesOnAt(k + 1)'
        BY <1>2, <1>3, <2>1, <3>2, <3>3, <3>4, <3>5 DEF GoesOnAt, q
      <3> QED
        BY <3>6
    <2> QED
      BY <2>4, <2>5
  <1>6. Walking' = Walking
    BY <1>3 DEF Walking
  <1> QED
    BY <1>2, <1>4, <1>5, <1>6

\* A handler that is taken out is before that place, behind it, or the one that runs.
LEMMA WalkDequeue ==
  ASSUME TypeOK, ChainInv, WalkInv, HandlersFit, NEW p \in Priorities, NEW h \in Handlers, SysDeqIntRP(p, h)
  PROVE  WalkInv'
  <1> SUFFICES ASSUME clean', ~torn' PROVE (\A g \in Handlers : calls'[g] < 2) /\ (Walking' => \E k \in Nat : GoesOnAt(k)')
    BY DEF WalkInv
  <1>1. GameRuns /\ walk' = walk /\ inside' = inside /\ Dequeued(p, h)
    BY DEF SysDeqIntRP
  <1>2. /\ clean /\ ~torn /\ ~Left /\ calls' = calls /\ stayed' \subseteq stayed
        /\ Holds(p, h) => stayed' = stayed \ {h}
    <2>1. CASE Holds(p, h)
      <3>1. Remember(TRUE, [queue EXCEPT ![p] = Without(@, h)], {h})
        BY <2>1 DEF SysDeqIntRP
      <3> QED
        BY <3>1, RememberKeeps
    <2>2. CASE ~Holds(p, h)
      <3>1. Remember(TRUE, queue, {})
        BY <2>2 DEF SysDeqIntRP
      <3>2. clean /\ ~torn /\ ~Left /\ stayed' = stayed \ {} /\ calls' = calls
        BY <3>1, RememberKeeps
      <3> QED
        BY <2>2, <3>2
    <2> QED
      BY <2>1, <2>2
  <1>3. Lists /\ OnePlace /\ \A g \in Handlers : calls[g] < 2
    BY <1>2 DEF ChainInv, WalkInv
  <1>4. ASSUME Walking PROVE \E k \in Nat : GoesOnAt(k)'
    <2> DEFINE c == walk.chain
               n == Len(queue[c])
    <2>1. /\ inside /\ c \in Priorities /\ n \in Nat /\ link \in [Handlers -> Pointers]
          /\ \A r \in Priorities : Len(queue[r]) \in Nat /\ \A i \in 1..Len(queue[r]) : queue[r][i] \in Handlers
      BY <1>1, <1>4 DEF GameRuns, Walking, TypeOK
    <2>2. PICK k \in Nat : GoesOnAt(k)
      BY <1>2, <1>4 DEF WalkInv
    <2>3. /\ k \in 1..(n + 1) /\ \A i \in k..n : calls[queue[c][i]] = 0
          /\ \A g \in stayed : \E i \in 1..n : queue[c][i] = g /\ (i < k => calls[g] = 1)
          /\ k > 1 /\ queue[c][k - 1] = walk.ptr
      BY <1>2, <2>1, <2>2 DEF GoesOnAt
    <2>4. ASSUME queue'[c] = queue[c] PROVE GoesOnAt(k)'
      BY <1>1, <1>2, <2>1, <2>3, <2>4 DEF GoesOnAt
    <2>5. CASE ~Holds(p, h)
      <3>1. queue' = queue
        BY <2>5 DEF SysDeqIntRP, Remember
      <3> QED
        BY <2>4, <3>1
    <2>6. CASE Holds(p, h)
      <3>1. PICK j \in 1..Len(queue[p]) : queue[p][j] = h
        BY <2>6 DEF Holds, TypeOK
      <3>2. /\ Len(queue'[p]) = Len(queue[p]) - 1
            /\ \A i \in 1..(Len(queue[p]) - 1) : queue'[p][i] = IF i < j THEN queue[p][i] ELSE queue[p][i + 1]
            /\ \A r \in Priorities : r # p => queue'[r] = queue[r]
        <4>1. Lists /\ OnePlace
          BY <1>3
        <4> QED
          BY <3>1, <4>1, DequeuedPlaces
      <3>3. CASE c # p
        BY <2>1, <2>4, <3>2, <3>3
      <3>4. CASE c = p
        <4> DEFINE q == queue'[c]
                   o == queue[c]
        <4>7. k - 1 \in Nat
          BY <2>3
        <4>0. PICK k1 \in Nat : k1 = IF j < k THEN k - 1 ELSE k
          BY <4>7
        <4>1. /\ Len(q) = n - 1 /\ j \in 1..n /\ o[j] = h
              /\ \A i \in 1..(n - 1) : q[i] = IF i < j THEN o[i] ELSE o[i + 1]
          BY <3>1, <3>2, <3>4
        <4>2. /\ k \in 1..(n + 1) /\ k > 1 /\ n \in Nat /\ o[k - 1] = walk.ptr
              /\ \A i \in k..n : calls[o[i]] = 0
              /\ \A g \in stayed : \E i \in 1..n : o[i] = g /\ (i < k => calls[g] = 1)
          BY <2>1, <2>3
        <4> HIDE DEF n, q, o
        <4>3. k1 \in 1..(Len(q) + 1)
          BY <4>0, <4>1, <4>2
        <4>4. ASSUME NEW i \in k1..Len(q) PROVE calls[q[i]] = 0
          <5>1. i \in 1..(n - 1) /\ (i < j => i \in k..n) /\ (~(i < j) => i + 1 \in k..n)
            BY <4>0, <4>1, <4>2
          <5> QED
            BY <4>1, <4>2, <5>1
        <4>5. ASSUME NEW g \in stayed, g # h PROVE \E i \in 1..Len(q) : q[i] = g /\ (i < k1 => calls[g] = 1)
          <5>1. PICK i \in 1..n : o[i] = g /\ (i < k => calls[g] = 1)
            BY <4>2
          <5>2. i # j
            BY <4>1, <4>5, <5>1
          <5>3. CASE i < j
            <6>1. i \in 1..(n - 1) /\ q[i] = g /\ (i < k1 => i < k)
              BY <4>0, <4>1, <4>2, <5>1, <5>3
            <6> QED
              BY <4>1, <5>1, <6>1
          <5>4. CASE i > j
            <6>1. i - 1 \in 1..(n - 1) /\ ~(i - 1 < j) /\ (i - 1) + 1 = i /\ (i - 1 < k1 => i < k)
              BY <4>0, <4>1, <4>2, <5>1, <5>4
            <6>2. q[i - 1] = g
              BY <4>1, <5>1, <6>1
            <6> QED
              BY <4>1, <5>1, <6>1, <6>2
          <5> QED
            BY <4>1, <5>2, <5>3, <5>4
        <4>6. \/ k1 > 1 /\ q[k1 - 1] = walk.ptr
              \/ Left' /\ link'[walk.ptr] = Nth(p, k1)'
          <5>1. CASE j >= k
            <6>1. k1 = k /\ k - 1 \in 1..(n - 1) /\ k - 1 < j
              BY <4>0, <4>1, <4>2, <5>1
            <6> QED
              BY <4>1, <4>2, <6>1
          <5>2. CASE j < k - 1
            <6>1. k1 = k - 1 /\ k1 > 1 /\ k1 - 1 \in 1..(n - 1) /\ ~(k1 - 1 < j) /\ (k1 - 1) + 1 = k - 1
              BY <4>0, <4>1, <4>2, <5>2
            <6> QED
              BY <4>1, <4>2, <6>1
          <5>3. CASE j = k - 1
            <6>1. k1 = j /\ walk.ptr = h
              BY <4>0, <4>1, <4>2, <5>3
            <6>2. ASSUME Linked(h)' PROVE FALSE
              <7>1. PICK r \in Priorities : Holds(r, h)'
                BY <6>2 DEF Linked
              <7>2. PICK i \in DOMAIN queue'[r] : queue'[r][i] = h
                BY <7>1 DEF Holds
              <7>3. CASE r # p
                <8>1. queue'[r] = queue[r] /\ i \in 1..Len(queue[r])
                  BY <2>1, <3>2, <7>2, <7>3 DEF TypeOK
                <8> QED
                  BY <1>3, <3>1, <7>2, <7>3, <8>1 DEF OnePlace
              <7>4. CASE r = p
                <8>1. i \in 1..(n - 1)
                  <9>1. TypeOK'
                    BY StepTyped DEF Next, GameCalls
                  <9>2. i \in 1..Len(queue'[p])
                    BY <7>2, <7>4, <9>1 DEF TypeOK
                  <9> QED
                    BY <3>4, <4>1, <9>2 DEF q
                <8>2. \E x \in 1..n : o[x] = h /\ x # j
                  <9>1. CASE i < j
                    BY <3>4, <4>1, <4>2, <7>2, <7>4, <8>1, <9>1 DEF q
                  <9>2. CASE i >= j
                    <10>1. i + 1 \in 1..n /\ i + 1 # j /\ ~(i < j)
                      BY <4>1, <4>2, <8>1, <9>2
                    <10> QED
                      BY <3>4, <4>1, <7>2, <7>4, <8>1, <10>1 DEF q
                  <9>3. i < j \/ i >= j
                    BY <4>1, <8>1
                  <9> QED
                    BY <9>1, <9>2, <9>3
                <8> QED
                  BY <1>3, <3>1, <3>4, <8>2 DEF OnePlace, o, n
              <7> QED
                BY <7>3, <7>4
            <6>3. Left'
              BY <1>1, <2>1, <6>1, <6>2 DEF Left
            <6>4. link'[h] = link[h]
              <7>1. CASE j = 1
                BY <1>1, <1>3, <3>1, <7>1, DequeuedLinks
              <7>2. CASE j > 1
                <8>1. link' = [link EXCEPT ![queue[p][j - 1]] = link[h]]
                  BY <1>1, <1>3, <3>1, <7>2, DequeuedLinks
                <8>2. j - 1 \in 1..Len(queue[p]) /\ j - 1 # j
                  BY <2>1, <7>2
                <8>3. queue[p][j - 1] # h
                  BY <1>3, <3>1, <8>2 DEF OnePlace
                <8> QED
                  BY <2>1, <8>1, <8>3
              <7> QED
                BY <4>1, <7>1, <7>2
            <6>5. link[h] = Nth(p, j + 1)
              BY <1>3, <3>1 DEF Lists
            <6>6. Nth(p, j + 1) = Nth(p, j)'
              <7>1. CASE j <= n - 1
                <8>1. j \in 1..(n - 1) /\ j + 1 <= n /\ ~(j < j)
                  BY <4>1, <4>2, <7>1
                <8>2. q[j] = o[j + 1]
                  BY <4>1, <8>1
                <8> QED
                  BY <3>4, <4>1, <7>1, <8>1, <8>2 DEF Nth, q, o, n
              <7>2. CASE j = n
                <8>1. ~(j + 1 <= n) /\ ~(j <= n - 1)
                  BY <4>1, <4>2, <7>2
                <8> QED
                  BY <3>4, <4>1, <8>1 DEF Nth, q, n
              <7> QED
                BY <4>1, <4>2, <7>1, <7>2
            <6> QED
              BY <3>4, <6>1, <6>3, <6>4, <6>5, <6>6
          <5> QED
            BY <4>1, <4>2, <5>1, <5>2, <5>3
        <4>8. stayed' = stayed \ {h}
          BY <1>2, <2>6
        <4>9. GoesOnAt(k1)'
          BY <1>1, <1>2, <2>1, <3>4, <4>3, <4>4, <4>5, <4>6, <4>8 DEF GoesOnAt, q
        <4> QED
          BY <4>9
      <3> QED
        BY <3>3, <3>4
    <2> QED
      BY <2>5, <2>6
  <1>5. Walking' = Walking
    BY <1>1 DEF Walking
  <1> QED
    BY <1>2, <1>3, <1>4, <1>5

\* VSync turns to a chain: its place is the head.
LEMMA WalkTurn ==
  ASSUME TypeOK, TypeOK', ChainInv, ~inside, NEW p \in 0..(Chains + 1), Turn(p)
  PROVE  WalkInv'
  <1> SUFFICES ASSUME clean', ~torn' PROVE (\A g \in Handlers : calls'[g] < 2) /\ (Walking' => \E k \in Nat : GoesOnAt(k)')
    BY DEF WalkInv
  <1>1. /\ UNCHANGED <<head, link, inside, queue, clean>> /\ calls' = NoCalls
        /\ stayed' = {h \in Handlers : p \in Priorities /\ Holds(p, h)}
        /\ walk' = IF p \in Priorities THEN [chain |-> p, ptr |-> head[p], guard |-> 0] ELSE Idle
    BY DEF Turn, chainVars
  <1>2. \A g \in Handlers : calls'[g] = 0
    BY <1>1 DEF NoCalls
  <1>3. ASSUME Walking' PROVE GoesOnAt(1)'
    <2>1. p \in Priorities /\ walk'.chain = p /\ walk'.ptr = head[p]
      <3>1. Idle.chain \notin Priorities
        BY LimitsAssumption DEF Idle, Priorities
      <3> QED
        BY <1>1, <1>3, <3>1 DEF Walking
    <2>2. head[p] = Nth(p, 1) /\ Nth(p, 1)' = Nth(p, 1)
      BY <1>1, <2>1 DEF ChainInv, Lists, Nth
    <2>3. queue[p] \in Seq(Handlers) /\ Len(queue[p]) \in Nat /\ DOMAIN queue[p] = 1..Len(queue[p])
          /\ \A i \in 1..Len(queue[p]) : queue[p][i] \in Handlers
      BY <2>1 DEF TypeOK
    <2>4. \A i \in 1..Len(queue[p]) : calls'[queue[p][i]] = 0
      BY <1>2, <2>3
    <2>5. \A h \in stayed' : \E i \in 1..Len(queue[p]) : queue[p][i] = h
      BY <1>1, <2>3 DEF Holds
    <2> QED
      BY <1>1, <2>1, <2>2, <2>3, <2>4, <2>5 DEF GoesOnAt
  <1> QED
    BY <1>2, <1>3

\* The handler at the place is called, and the place moves on.
LEMMA WalkCall ==
  ASSUME TypeOK, ChainInv, WalkInv, CallHandler
  PROVE  WalkInv'
  <1>1. /\ Walking /\ ~inside /\ inside' = TRUE /\ walk.ptr # None
        /\ UNCHANGED <<head, link, walk, queue, clean, torn, stayed>>
        /\ calls' = IF clean /\ calls[walk.ptr] < 2 THEN [calls EXCEPT ![walk.ptr] = @ + 1] ELSE calls
    BY DEF CallHandler, More, chainVars
  <1> SUFFICES ASSUME clean, ~torn PROVE (\A g \in Handlers : calls'[g] < 2) /\ \E k \in Nat : GoesOnAt(k)'
    BY <1>1 DEF WalkInv
  <1> DEFINE c == walk.chain
             q == queue[c]
             n == Len(q)
  <1>2. /\ c \in Priorities /\ n \in Nat /\ (\A i \in 1..n : q[i] \in Handlers)
        /\ calls \in [Handlers -> 0..2] /\ \A g \in Handlers : calls[g] < 2
    BY <1>1 DEF Walking, TypeOK, WalkInv
  <1>3. PICK k \in Nat : GoesOnAt(k)
    BY <1>1 DEF WalkInv
  <1>4. /\ k \in 1..(n + 1) /\ \A i \in k..n : calls[q[i]] = 0
        /\ \A g \in stayed : \E i \in 1..n : q[i] = g /\ (i < k => calls[g] = 1)
        /\ walk.ptr = Nth(c, k)
    BY <1>1, <1>3 DEF GoesOnAt
  <1>5. k \in 1..n /\ k \in k..n /\ walk.ptr = q[k] /\ walk.ptr \in Handlers
    <2>1. k <= n /\ walk.ptr = q[k]
      BY <1>1, <1>4 DEF Nth
    <2> QED
      BY <1>2, <1>4, <2>1
  <1>6. calls[walk.ptr] = 0 /\ calls' = [calls EXCEPT ![walk.ptr] = 1]
    <2>1. calls[walk.ptr] = 0
      BY <1>4, <1>5
    <2> QED
      BY <1>1, <1>2, <1>5, <2>1
  <1>7. \A g \in Handlers : calls'[g] = IF g = walk.ptr THEN 1 ELSE calls[g]
    BY <1>2, <1>5, <1>6
  <1>8. \A i, j \in 1..n : q[i] = q[j] => i = j
    BY <1>2 DEF ChainInv, OnePlace
  <1> HIDE DEF n, q
  <1>9. ASSUME NEW i \in (k + 1)..n PROVE calls'[q[i]] = 0
    <2>1. i \in 1..n /\ i # k /\ i \in k..n
      BY <1>2, <1>4, <1>9
    <2> QED
      BY <1>2, <1>4, <1>5, <1>7, <1>8, <2>1
  <1>10. ASSUME NEW g \in stayed PROVE \E i \in 1..n : q[i] = g /\ (i < k + 1 => calls'[g] = 1)
    <2>1. PICK i \in 1..n : q[i] = g /\ (i < k => calls[g] = 1)
      BY <1>4
    <2>2. g \in Handlers
      BY <1>2, <2>1
    <2>3. i < k + 1 => calls'[g] = 1
      <3>1. CASE i = k
        BY <1>5, <1>7, <2>1, <2>2, <3>1
      <3>2. CASE i # k
        <4>1. i < k + 1 => i < k
          BY <1>2, <1>4, <3>2
        <4> QED
          BY <1>7, <2>1, <2>2, <4>1
      <3> QED
        BY <3>1, <3>2
    <2> QED
      BY <2>1, <2>3
  <1>11. k + 1 \in 1..(n + 1) /\ k + 1 > 1 /\ (k + 1) - 1 = k /\ k + 1 \in Nat
    BY <1>2, <1>5
  <1>12. GoesOnAt(k + 1)'
    BY <1>1, <1>5, <1>9, <1>10, <1>11 DEF GoesOnAt, q, n
  <1>13. \A g \in Handlers : calls'[g] < 2
    BY <1>2, <1>7
  <1> QED
    BY <1>11, <1>12, <1>13

\* The link is read when the handler has returned.
LEMMA WalkReturn ==
  ASSUME TypeOK, ChainInv, WalkInv, HandlerReturns
  PROVE  WalkInv'
  <1>1. /\ inside /\ inside' = FALSE /\ walk' = Advanced
        /\ UNCHANGED <<head, link, queue, clean, torn, stayed, calls>>
    BY DEF HandlerReturns, chainVars, turnVars
  <1>2. walk'.chain = walk.chain /\ walk'.ptr = link[walk.ptr] /\ walk.chain \in Priorities /\ Walking
    BY <1>1 DEF Advanced, TypeOK, Walking
  <1> SUFFICES ASSUME clean, ~torn PROVE \E k \in Nat : GoesOnAt(k)'
    BY <1>1, <1>2 DEF WalkInv
  <1>3. PICK k \in Nat : GoesOnAt(k)
    BY <1>2 DEF WalkInv
  <1>4. link[walk.ptr] = Nth(walk.chain, k)
    <2>1. CASE k > 1 /\ queue[walk.chain][k - 1] = walk.ptr
      <3>1. k - 1 \in 1..Len(queue[walk.chain]) /\ (k - 1) + 1 = k
        <4>1. k \in 1..(Len(queue[walk.chain]) + 1) /\ Len(queue[walk.chain]) \in Nat
          BY <1>2, <1>3 DEF GoesOnAt, TypeOK
        <4> QED
          BY <2>1, <4>1
      <3>2. Lists
        BY DEF ChainInv
      <3> QED
        BY <1>2, <2>1, <3>1, <3>2 DEF Lists
    <2> QED
      BY <1>1, <1>3, <2>1 DEF GoesOnAt
  <1>5. GoesOnAt(k)'
    BY <1>1, <1>2, <1>3, <1>4 DEF GoesOnAt, Nth
  <1> QED
    BY <1>5

\* Every step of VSync and of the handlers it calls.
LEMMA WalkStep == HandlersFit /\ TypeOK /\ TypeOK' /\ ChainInv /\ ChainInv' /\ WalkInv /\ [Next]_vars => WalkInv'
  <1> SUFFICES ASSUME HandlersFit, TypeOK, TypeOK', ChainInv, ChainInv', WalkInv, [Next]_vars PROVE WalkInv'
    OBVIOUS
  <1>1. CASE GameCalls
    BY <1>1, WalkEnqueue, WalkDequeue DEF GameCalls
  <1>2. CASE VSync
    <2>1. ~inside /\ 0 \in 0..(Chains + 1)
      BY <1>2, LimitsAssumption DEF VSync, TypeOK
    <2> QED
      BY <1>2, <2>1, WalkTurn DEF VSync
  <1>3. CASE NextChain
    <2>1. ~inside /\ Turn(walk.chain + 1)
      BY <1>3 DEF NextChain
    <2>2. walk.chain + 1 \in 0..(Chains + 1)
      BY <1>3, LimitsAssumption DEF NextChain, Walking, Priorities
    <2> QED
      BY <2>1, <2>2, WalkTurn
  <1>4. CASE UNCHANGED vars
    BY <1>4 DEF vars, chainVars, turnVars, WalkInv, GoesOnAt, Nth, Left, Linked, Holds, Walking
  <1> QED
    BY <1>1, <1>2, <1>3, <1>4, WalkCall, WalkReturn DEF Next, PumpStep

\* The next handler has not been called in this turn.
LEMMA NextUncalled ==
  ASSUME TypeOK, WalkInv, clean, ~torn, Walking, ~inside, walk.ptr # None
  PROVE  walk.ptr \in Handlers /\ calls[walk.ptr] = 0
  <1> DEFINE n == Len(queue[walk.chain])
  <1>1. /\ walk.chain \in Priorities /\ n \in Nat /\ \A i \in 1..n : queue[walk.chain][i] \in Handlers
    BY DEF Walking, TypeOK
  <1>2. PICK k \in Nat : GoesOnAt(k)
    BY DEF WalkInv
  <1>3. /\ k \in 1..(n + 1) /\ walk.ptr = Nth(walk.chain, k)
        /\ \A i \in k..n : calls[queue[walk.chain][i]] = 0
    BY <1>2 DEF GoesOnAt
  <1>4. k <= n /\ walk.ptr = queue[walk.chain][k]
    BY <1>3 DEF Nth
  <1> HIDE DEF n
  <1>5. k \in 1..n /\ k \in k..n
    BY <1>1, <1>3, <1>4
  <1> QED
    BY <1>1, <1>3, <1>4, <1>5

\* ... so every call counts one handler more.
LEMMA CountStep ==
  HandlersFit /\ TypeOK /\ WalkInv /\ CountInv /\ [Next]_vars => CountInv'
  <1> SUFFICES ASSUME HandlersFit, TypeOK, WalkInv, CountInv, [Next]_vars, clean', ~torn', Walking'
               PROVE  (walk.guard + (IF inside THEN 1 ELSE 0) = Cardinality(Called))'
    BY DEF CountInv
  <1>1. calls \in [Handlers -> 0..2] /\ walk.guard \in Nat /\ inside \in BOOLEAN
    BY DEF TypeOK
  <1>2. ASSUME UNCHANGED <<walk, inside, calls>>, clean, ~torn
        PROVE  (walk.guard + (IF inside THEN 1 ELSE 0) = Cardinality(Called))'
    BY <1>2 DEF CountInv, Called, Walking
  <1>3. CASE GameCalls
    <2>1. /\ UNCHANGED <<walk, inside>>
          /\ \E sound, asked, gone : Remember(sound, asked, gone)
      BY <1>3 DEF GameCalls, SysEnqIntRP, SysDeqIntRP
    <2>2. clean /\ ~torn /\ calls' = calls
      BY <2>1 DEF Remember
    <2> QED
      BY <1>2, <2>1, <2>2
  <1>4. ASSUME NEW p \in 0..(Chains + 1), ~inside, Turn(p)
        PROVE  (walk.guard + (IF inside THEN 1 ELSE 0) = Cardinality(Called))'
    <2>1. inside' = inside /\ calls' = NoCalls /\ walk'.guard = 0
      BY <1>4 DEF Turn, Idle
    <2>2. Called' = {}
      BY <2>1 DEF Called, NoCalls
    <2> QED
      BY <1>4, <2>1, <2>2, FS_EmptySet
  <1>5. CASE VSync
    <2>1. ~inside /\ 0 \in 0..(Chains + 1)
      BY <1>5, LimitsAssumption DEF VSync, TypeOK
    <2> QED
      BY <1>4, <1>5, <2>1 DEF VSync
  <1>6. CASE NextChain
    <2>1. ~inside /\ Turn(walk.chain + 1) /\ walk.chain + 1 \in 0..(Chains + 1)
      BY <1>6, LimitsAssumption DEF NextChain, Walking, Priorities
    <2> QED
      BY <1>4, <2>1
  <1>7. CASE CallHandler
    <2>1. /\ Walking /\ ~inside /\ inside' = TRUE /\ walk.ptr # None
          /\ UNCHANGED <<walk, clean, torn>>
          /\ calls' = IF clean /\ calls[walk.ptr] < 2 THEN [calls EXCEPT ![walk.ptr] = @ + 1] ELSE calls
      BY <1>7 DEF CallHandler, More
    <2>2. walk.ptr \in Handlers /\ calls[walk.ptr] = 0
      BY <2>1, NextUncalled
    <2>3. calls' = [calls EXCEPT ![walk.ptr] = 1]
      BY <1>1, <2>1, <2>2
    <2>4. Called' = Called \cup {walk.ptr} /\ walk.ptr \notin Called
      BY <1>1, <2>2, <2>3 DEF Called
    <2>5. IsFiniteSet(Called)
      BY FS_Subset DEF HandlersFit, Called
    <2>6. Cardinality(Called') = Cardinality(Called) + 1
      BY <2>4, <2>5, FS_AddElement
    <2>7. walk.guard = Cardinality(Called)
      BY <1>1, <2>1 DEF CountInv
    <2> QED
      BY <2>1, <2>6, <2>7
  <1>8. CASE HandlerReturns
    <2>1. /\ inside /\ inside' = FALSE /\ UNCHANGED <<clean, torn, calls>>
          /\ walk' = Advanced
      BY <1>8 DEF HandlerReturns, turnVars
    <2>2. Walking /\ walk'.guard = walk.guard + 1
      BY <2>1 DEF TypeOK, Advanced, Walking
    <2>3. Called' = Called
      BY <2>1 DEF Called
    <2>4. walk.guard + 1 = Cardinality(Called)
      BY <2>1, <2>2 DEF CountInv
    <2> QED
      BY <1>1, <2>1, <2>2, <2>3, <2>4
  <1>9. CASE UNCHANGED vars
    BY <1>2, <1>9 DEF vars, turnVars
  <1> QED
    BY <1>3, <1>5, <1>6, <1>7, <1>8, <1>9 DEF Next, PumpStep

\* VSync has not begun.
LEMMA WalkInit == Init => WalkInv /\ CountInv
  BY LimitsAssumption DEF Init, WalkInv, CountInv, Walking, Idle, NoCalls, Priorities

\* Whatever handlers do to the chains while they run, unless one leaves its chain
\* and goes on changing them: VSync calls no handler twice and none that is not
\* linked, and it calls every handler that stays linked, or Limit handlers of a chain
\* that is longer (runtime.c:3930-3944).
THEOREM AlwaysCalledOnce ==
  ASSUME HandlersFit
  PROVE  Spec => []EachCalledOnce
  <1>1. TypeOK /\ ChainInv /\ WalkInv /\ CountInv => EachCalledOnce
    <2> SUFFICES ASSUME TypeOK, ChainInv, WalkInv, CountInv, clean, ~torn PROVE EachCalledOnce
      BY DEF EachCalledOnce, CalledOnceLinked, NoHandlerMissed
    <2>1. \A h \in Handlers : calls[h] < 2
      BY DEF WalkInv
    <2>2. ASSUME Walking, ~inside
          PROVE  /\ More => Linked(walk.ptr)
                 /\ ~More => stayed \subseteq Called \/ Cardinality(Called) >= Limit
      <3> DEFINE n == Len(queue[walk.chain])
      <3>1. /\ walk.chain \in Priorities /\ n \in Nat /\ DOMAIN queue[walk.chain] = 1..n
            /\ \A i \in 1..n : queue[walk.chain][i] \in Handlers
        BY <2>2 DEF Walking, TypeOK
      <3>2. PICK k \in Nat : GoesOnAt(k)
        BY <2>2 DEF WalkInv
      <3>3. /\ k \in 1..(n + 1) /\ walk.ptr = Nth(walk.chain, k)
            /\ \A h \in stayed : \E i \in 1..n : queue[walk.chain][i] = h /\ (i < k => calls[h] = 1)
        BY <2>2, <3>2 DEF GoesOnAt
      <3>4. k <= n => walk.ptr = queue[walk.chain][k] /\ walk.ptr # None
        BY <3>1, <3>3, NoneAssumption DEF Nth
      <3>5. ~(k <= n) => walk.ptr = None
        BY <3>3 DEF Nth
      <3> HIDE DEF n
      <3>6. More => Linked(walk.ptr)
        <4>1. More => k \in 1..n
          BY <3>1, <3>3, <3>5 DEF More
        <4> QED
          BY <3>1, <3>4, <4>1 DEF Linked, Holds
      <3>7. walk.ptr = None => stayed \subseteq Called
        <4>1. walk.ptr = None => \A i \in 1..n : i < k
          BY <3>1, <3>3, <3>4
        <4> QED
          BY <3>3, <4>1 DEF TypeOK, Called
      <3>8. ~(walk.guard < Limit) => Cardinality(Called) >= Limit
        <4>1. walk.guard = Cardinality(Called) /\ walk.guard \in Nat
          BY <2>2 DEF CountInv, TypeOK
        <4> QED
          BY <4>1, LimitsAssumption
      <3> QED
        BY <3>6, <3>7, <3>8 DEF More
    <2> QED
      BY <2>1, <2>2 DEF EachCalledOnce, CalledOnceLinked, NoHandlerMissed
  <1>2. TypeOK /\ ChainInv /\ [Next]_vars => ChainInv'
    BY ChainStep
  <1>3. TypeOK /\ TypeOK' /\ ChainInv /\ ChainInv' /\ WalkInv /\ [Next]_vars => WalkInv'
    BY WalkStep
  <1>4. TypeOK /\ WalkInv /\ CountInv /\ [Next]_vars => CountInv'
    BY CountStep
  <1> QED
    BY <1>1, <1>2, <1>3, <1>4, ChainInit, WalkInit, TypeCorrect, PTL DEF Spec
============================================================================
