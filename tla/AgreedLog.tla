----------------------------- MODULE AgreedLog ------------------------------
(***************************************************************************)
(* What block synchronisation promises, with no messages, no database and  *)
(* no crash in sight: nodes climb one height at a time, always onto a      *)
(* block that some node decided; what a node holds it holds for ever; and  *)
(* from height FirstAgreed on, a height is decided at most once.           *)
(***************************************************************************)
EXTENDS Naturals

CONSTANTS
    Nodes,        \* the nodes
    Block,        \* the blocks, records with an index
    FirstAgreed   \* the first height at which there is a single proposer

VARIABLES
    decided,      \* the blocks decided so far
    height,       \* height[n]: the height of node n
    held          \* held[n]: the blocks node n can serve

logVars == <<decided, height, held>>

Init ==
    /\ decided = {}
    /\ height = [n \in Nodes |-> 0]
    /\ held = [n \in Nodes |-> {}]

\* Node n moves up to block b, and keeps it unless it loses it on the way.
ClimbTo(n, b) ==
    /\ b.index = height[n] + 1
    /\ height' = [height EXCEPT ![n] = b.index]
    /\ \/ held' = [held EXCEPT ![n] = @ \cup {b}]
       \/ held' = held

Decide(n, b) ==
    /\ b.index >= FirstAgreed => \A d \in decided : d.index # b.index
    /\ decided' = decided \cup {b}
    /\ ClimbTo(n, b)

Adopt(n, b) ==
    /\ b \in decided
    /\ ClimbTo(n, b)
    /\ UNCHANGED decided

Next == \E n \in Nodes, b \in Block : Decide(n, b) \/ Adopt(n, b)

Spec == Init /\ [][Next]_logVars

\* From FirstAgreed on, no two decided blocks share a height.
Linear ==
    \A b, d \in decided : b.index = d.index /\ b.index >= FirstAgreed => b = d

=============================================================================
