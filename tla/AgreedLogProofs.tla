-------------------------- MODULE AgreedLogProofs ---------------------------
(***************************************************************************)
(* That the abstract log keeps its promise.                                *)
(***************************************************************************)
EXTENDS AgreedLog, TLAPS

Served == \A n \in Nodes : held[n] \subseteq decided

LogInv ==
    /\ held \in [Nodes -> SUBSET decided]
    /\ Linear

LEMMA LogInvHolds == Spec => []LogInv
<1>1. Init => LogInv
  BY DEF Init, LogInv, Linear
<1>2. LogInv /\ [Next]_logVars => LogInv'
  <2> SUFFICES ASSUME LogInv, [Next]_logVars
               PROVE  LogInv'
    OBVIOUS
  <2>1. ASSUME NEW n \in Nodes, NEW b \in Block, Decide(n, b)
        PROVE  LogInv'
    <3>1. Linear'
      BY <2>1 DEF Decide, LogInv, Linear
    <3>2. b \in decided' /\ decided \subseteq decided'
      BY <2>1 DEF Decide
    <3>3. held' \in [Nodes -> SUBSET decided']
      BY <2>1, <3>2 DEF Decide, ClimbTo, LogInv
    <3> QED
      BY <3>1, <3>3 DEF LogInv
  <2>2. ASSUME NEW n \in Nodes, NEW b \in Block, Adopt(n, b)
        PROVE  LogInv'
    BY <2>2 DEF Adopt, ClimbTo, LogInv, Linear
  <2>3. CASE UNCHANGED logVars
    BY <2>3 DEF logVars, LogInv, Linear
  <2> QED
    BY <2>1, <2>2, <2>3 DEF Next
<1> QED
  BY <1>1, <1>2, PTL DEF Spec

\* From FirstAgreed on a height is decided once, and what a node serves was
\* decided: two nodes that serve a block of the same height serve the same.
THEOREM LogAgrees == Spec => [](Linear /\ Served)
<1>1. LogInv => Linear /\ Served
  BY DEF LogInv, Served
<1> QED
  BY <1>1, LogInvHolds, PTL

=============================================================================
