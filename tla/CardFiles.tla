----------------------------- MODULE CardFiles -----------------------------
(***************************************************************************)
(* What the memory card promises, without directory entries or links: a    *)
(* name owns a set of blocks.  A file is created with one block, grows by  *)
(* one block at a time and never loses one.  A block set aside for a       *)
(* growing file is attached to it or, if the process dies first, is lost   *)
(* for good; no block is ever owned twice.                                 *)
(***************************************************************************)
EXTENDS FiniteSets

CONSTANTS Blocks, Names

VARIABLES content,   \* the blocks each name owns
          held,      \* the block set aside by a creating open, if any
          lost       \* blocks no file owns and no file will get

vars == <<content, held, lost>>

Free == Blocks \ (held \cup lost \cup UNION {content[n] : n \in Names})

Init == content = [n \in Names |-> {}] /\ held = {} /\ lost = {}

Create(n, b) == /\ content[n] = {} /\ held = {}
                /\ content' = [content EXCEPT ![n] = {b}]
                /\ UNCHANGED <<held, lost>>

Reserve(b) == /\ held = {}
              /\ held' = {b}
              /\ UNCHANGED <<content, lost>>

Attach(n) == /\ content[n] # {} /\ held # {}
             /\ content' = [content EXCEPT ![n] = @ \cup held]
             /\ held' = {}
             /\ UNCHANGED lost

Lose == /\ held # {}
        /\ lost' = lost \cup held
        /\ held' = {}
        /\ UNCHANGED content

Next == \/ \E b \in Free : Reserve(b) \/ \E n \in Names : Create(n, b)
        \/ \E n \in Names : Attach(n)
        \/ Lose

Spec == Init /\ [][Next]_vars
============================================================================
