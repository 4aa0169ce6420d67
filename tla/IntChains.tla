----------------------------- MODULE IntChains -----------------------------
(***************************************************************************)
(* The interrupt chains of the runner (runtime.c): the BIOS calls          *)
(* SysEnqIntRP and SysDeqIntRP keep one list of handlers per priority in    *)
(* game memory, and VSync calls every handler of every list.  A handler is *)
(* game code: it may enqueue and dequeue handlers, itself included, before *)
(* it returns and its link is read.                                        *)
(*                                                                         *)
(* A handler's record holds its link and its function; every record here   *)
(* has a function.                                                         *)
(***************************************************************************)
EXTENDS Integers, SequencesExt

CONSTANTS
  Handlers,  \* the records the game enqueues
  Chains,    \* bound: the chains are 0..Chains (0..3 in the code)
  Limit,     \* handlers VSync calls of one chain (10)
  Reach,     \* records SysDeqIntRP looks at (16)
  None       \* the null pointer

ASSUME LimitsAssumption == Chains \in Nat /\ Limit \in Nat \ {0} /\ Reach \in Nat \ {0}
ASSUME NoneAssumption == None \notin Handlers

Priorities == 0..Chains
Pointers == Handlers \cup {None}

VARIABLES
  head,    \* g_int_chains
  link,    \* the first word of each record
  walk,    \* where VSync is: its chain, its pointer and its loop guard
  inside,  \* is the handler at the pointer running?
  queue,   \* history: what the game's calls ask each chain to hold, in order
  clean,   \* history: no handler was enqueued while it was linked
  torn,    \* history: chains changed under a running handler that had left its own
  stayed,  \* history: linked since VSync began this chain
  calls    \* history: how often this chain's turn called each handler (2: more than once)

chainVars == <<head, link>>
turnVars == <<torn, stayed, calls>>
vars == <<chainVars, walk, inside, queue, clean, turnVars>>

Idle == [chain |-> Chains + 1, ptr |-> None, guard |-> 0]
Walking == walk.chain \in Priorities
Holds(p, h) == \E i \in DOMAIN queue[p] : queue[p][i] = h
Linked(h) == \E p \in Priorities : Holds(p, h)
\* A queue without one of its handlers.
Without(q, h) == RemoveAt(q, CHOOSE i \in DOMAIN q : q[i] = h)
Nothing == [p \in Priorities |-> <<>>]
NoCalls == [h \in Handlers |-> 0]

Init == /\ head = [p \in Priorities |-> None]
        /\ link = [h \in Handlers |-> None]
        /\ walk = Idle /\ inside = FALSE
        /\ queue = Nothing /\ clean = TRUE
        /\ torn = FALSE /\ stayed = {} /\ calls = NoCalls
----------------------------------------------------------------------------
\* The game calls the BIOS outside VSync, a handler while it runs.
GameRuns == ~Walking \/ inside
\* The running handler is in no chain any more.
Left == inside /\ ~Linked(walk.ptr)

\* What the histories make of a call: they stop at the first misuse.
Remember(sound, asked, gone) ==
  /\ clean' = (clean /\ sound)
  /\ queue' = IF clean' THEN asked ELSE Nothing
  /\ torn' = (clean' /\ (torn \/ Left))
  /\ stayed' = IF clean' THEN stayed \ gone ELSE {}
  /\ calls' = IF clean' THEN calls ELSE NoCalls

SysEnqIntRP(p, h) ==
  /\ GameRuns
  /\ link' = [link EXCEPT ![h] = head[p]]
  /\ head' = [head EXCEPT ![p] = h]
  /\ Remember(~Linked(h), [queue EXCEPT ![p] = <<h>> \o @], {})
  /\ UNCHANGED <<walk, inside>>

\* The record a number of links behind the head.
Behind(p) ==
  LET at[i \in 0..Reach] ==
        IF i = 0 THEN head[p] ELSE IF at[i - 1] = None THEN None ELSE link[at[i - 1]]
  IN at
\* The first record that links to h, if SysDeqIntRP reaches it.
Before(p, h) ==
  LET hits == {i \in 0..(Reach - 1) : Behind(p)[i] # None /\ link[Behind(p)[i]] = h}
  IN IF hits = {} THEN None ELSE Behind(p)[Min(hits)]

\* Mutant: only the head of a chain can be taken out.
DequeuedHead(p, h) ==
  /\ head' = IF head[p] = h THEN [head EXCEPT ![p] = link[h]] ELSE head
  /\ link' = link
\* Mutant: the link of the record taken out is cleared as well.
DequeuedCleared(p, h) ==
  IF head[p] = h
  THEN head' = [head EXCEPT ![p] = link[h]] /\ link' = [link EXCEPT ![h] = None]
  ELSE /\ head' = head
       /\ link' = IF Before(p, h) = None THEN link
                  ELSE [link EXCEPT ![Before(p, h)] = link[h], ![h] = None]

Dequeued(p, h) ==
  IF head[p] = h
  THEN head' = [head EXCEPT ![p] = link[h]] /\ link' = link
  ELSE /\ head' = head
       /\ link' = IF Before(p, h) = None THEN link
                  ELSE [link EXCEPT ![Before(p, h)] = link[h]]

SysDeqIntRP(p, h) ==
  /\ GameRuns
  /\ Dequeued(p, h)
  /\ IF Holds(p, h)
     THEN Remember(TRUE, [queue EXCEPT ![p] = Without(@, h)], {h})
     ELSE Remember(TRUE, queue, {})
  /\ UNCHANGED <<walk, inside>>
----------------------------------------------------------------------------
\* VSync turns to a chain.
Turn(p) ==
  /\ walk' = IF p \in Priorities THEN [chain |-> p, ptr |-> head[p], guard |-> 0] ELSE Idle
  /\ stayed' = {h \in Handlers : p \in Priorities /\ Holds(p, h)}
  /\ calls' = NoCalls
  /\ torn' = FALSE
  /\ UNCHANGED <<chainVars, inside, queue, clean>>

VSync == ~Walking /\ Turn(0)

\* Mutant: the pointer alone decides.
MoreUnguarded == walk.ptr # None
More == walk.ptr # None /\ walk.guard < Limit

CallHandler ==
  /\ Walking /\ ~inside /\ More
  /\ inside' = TRUE
  /\ calls' = IF clean /\ calls[walk.ptr] < 2 THEN [calls EXCEPT ![walk.ptr] = @ + 1] ELSE calls
  /\ UNCHANGED <<chainVars, walk, queue, clean, torn, stayed>>

\* Mutant: the loop guard is not counted.
AdvancedUnguarded == [walk EXCEPT !.ptr = link[walk.ptr]]
Advanced == [walk EXCEPT !.ptr = link[walk.ptr], !.guard = @ + 1]

HandlerReturns ==
  /\ inside
  /\ inside' = FALSE
  /\ walk' = Advanced
  /\ UNCHANGED <<chainVars, queue, clean, turnVars>>

NextChain == Walking /\ ~inside /\ ~More /\ Turn(walk.chain + 1)

GameCalls == \E p \in Priorities, h \in Handlers : SysEnqIntRP(p, h) \/ SysDeqIntRP(p, h)
PumpStep == CallHandler \/ HandlerReturns \/ NextChain
Next == GameCalls \/ VSync \/ PumpStep
Spec == Init /\ [][Next]_vars
\* VSync runs on, and a handler returns.
FairSpec == Spec /\ WF_vars(PumpStep)
----------------------------------------------------------------------------
\* The variables keep their types, and VSync never passes its loop guard.
TypeOK == /\ head \in [Priorities -> Pointers]
          /\ link \in [Handlers -> Pointers]
          /\ walk \in [chain : 0..(Chains + 1), ptr : Pointers, guard : 0..Limit]
          /\ inside \in BOOLEAN /\ clean \in BOOLEAN /\ torn \in BOOLEAN
          /\ queue \in [Priorities -> Seq(Handlers)]
          /\ stayed \subseteq Handlers
          /\ calls \in [Handlers -> 0..2]
          /\ inside => Walking /\ walk.ptr # None /\ walk.guard < Limit

\* A chain is never longer than SysDeqIntRP looks: a record more, and the one it
\* is asked to take out may stay.  The game has a handful of handlers.
HandlersFit == IsFiniteSet(Handlers) /\ Cardinality(Handlers) <= Reach + 1

\* runtime.c:2926-2970: as long as the game links no handler twice, every chain
\* is the list of what was enqueued and not dequeued, newest first.
ChainsHoldQueues ==
  clean => \A p \in Priorities :
    /\ head[p] = IF queue[p] = <<>> THEN None ELSE queue[p][1]
    /\ \A i \in DOMAIN queue[p] :
         link[queue[p][i]] = IF i = Len(queue[p]) THEN None ELSE queue[p][i + 1]

\* runtime.c:3930-3944: the link is read after the handler returned.  Whatever
\* handlers do, only one that leaves its chain and goes on changing chains can
\* make VSync call a handler twice or call one that is not linked.
CalledOnceLinked ==
  clean /\ ~torn => /\ \A h \in Handlers : calls[h] < 2
                    /\ Walking /\ ~inside /\ More => Linked(walk.ptr)

\* When VSync turns to the next chain, each handler that stayed linked was called,
\* unless the chain is longer than the loop guard allows: then as many were called
\* as that, and those behind them were cut off.
Called == {h \in Handlers : calls[h] = 1}
NoHandlerMissed ==
  clean /\ ~torn /\ Walking /\ ~inside /\ ~More =>
    stayed \subseteq Called \/ Cardinality(Called) >= Limit

\* runtime.c:3934-3945: the pump calls each handler that stays linked, up to its
\* guard, and calls it once.
EachCalledOnce == CalledOnceLinked /\ NoHandlerMissed

\* Rings included, VSync comes to the end of the chains.
PumpEnds == Walking ~> ~Walking
============================================================================
