-------------------------- MODULE NodeStoreProofs ---------------------------
(***************************************************************************)
(* Theorems about the store of a node, for every number of connections,    *)
(* every height and every number of faults.                                *)
(***************************************************************************)
EXTENDS NodeStore, FiniteSetTheorems, TLAPS

-----------------------------------------------------------------------------
(* Types.                                                                   *)

Steps == {"begin", "txUpdate", "txCommit", "txRoot", "txSwap", "check",
          "current", "last", "update", "commit", "swap", "root"}

LEMMA AfterSteps ==
    /\ DOMAIN After = Steps
    /\ \A s \in Steps : After[s] \in Steps \cup {"idle"}
  BY DEF After, Steps

ReadType == [trie : Tries \cup {"none"}, item : Block, seen : SUBSET Block, live : BOOLEAN]

SaveType == [step : Steps \cup {"idle"}, block : Block, tx : Block,
             lastRead : Heights, by : Peers \cup {"proposer", "nobody"}]

Faults == {"death", "lost", "stray", "loss"}

Types ==
    /\ up \in BOOLEAN
    /\ current \in Heights
    /\ last \in Heights
    /\ root \in [Tries -> SUBSET Block]
    /\ mem \in [Tries -> SUBSET Block]
    /\ open \in [Tries -> BOOLEAN]
    /\ save \in SaveType
    /\ reading \in [Peers -> ReadType]
    /\ claiming \in [Peers -> [index : Heights, read : Heights]]
    /\ outbox \subseteq Block
    /\ net \in Heights
    /\ served \subseteq Block
    /\ budget \in [Faults \cup {"all"} -> Nat]
    /\ budget.death <= MaxDeaths /\ budget.lost <= MaxLost
    /\ budget.stray <= MaxStrays

LEMMA Constants ==
    /\ MaxHeight \in Nat /\ Turn \subseteq Heights
    /\ 0 \in Heights
    /\ Heights \subseteq Nat
    /\ Genesis \in Block
    /\ \A b \in Block : TxOf(b) \in Block /\ b.index \in Nat
    /\ NoSave \in SaveType
    /\ NoRead \in ReadType
    /\ NoClaim \in [index : Heights, read : Heights]
  BY NodeStoreAssumption DEF Heights, Block, Genesis, TxOf, NoSave, SaveType,
     NoRead, ReadType, NoClaim

LEMMA TypesInit == Init => Types
  BY Constants, NodeStoreAssumption DEF Init, Types, Tries, Faults

LEMMA AdvanceType ==
    ASSUME Types, NEW s, s \in Steps \cup {"idle"}
    PROVE  GoTo(s) \in SaveType
  BY Constants DEF Types, GoTo, SaveType

\* A step of a save keeps the types of what it leaves alone.
LEMMA AdvanceTypes ==
    ASSUME Types, save.step \in Steps, Advance
    PROVE  save' \in SaveType
  BY AdvanceType, AfterSteps DEF Advance

LEMMA StartType ==
    ASSUME Types, NEW b \in Block, NEW x \in Block, NEW s \in Steps,
           NEW p \in Peers \cup {"proposer"}, StartSave(b, x, s, p)
    PROVE  save' \in SaveType
  BY Constants DEF StartSave, SaveType

LEMMA BeginType ==
    ASSUME Types, NEW b \in Block, NEW p \in Peers \cup {"proposer"}, Begin(b, p)
    PROVE  save' \in SaveType
<1>1. After.begin \in Steps /\ "check" \in Steps
  BY DEF After, Steps
<1> QED
  BY <1>1, Constants, StartType DEF Begin

LEMMA StopTypes ==
    ASSUME Types, Stop
    PROVE  /\ up' = FALSE
           /\ mem' \in [Tries -> SUBSET Block]
           /\ open' \in [Tries -> BOOLEAN]
           /\ save' \in SaveType
           /\ reading' \in [Peers -> ReadType]
           /\ claiming' \in [Peers -> [index : Heights, read : Heights]]
           /\ outbox' \subseteq Block
           /\ UNCHANGED <<current, last, root, net, served>>
  BY Constants DEF Types, Stop, disk

LEMMA SpendTypes ==
    ASSUME Types, NEW f \in Faults, Spend(f)
    PROVE  /\ budget' \in [Faults \cup {"all"} -> Nat]
           /\ budget'[f] = budget[f] - 1
           /\ \A g \in Faults \ {f} : budget'[g] = budget[g]
           /\ budget'.death <= MaxDeaths /\ budget'.lost <= MaxLost
           /\ budget'.stray <= MaxStrays
<1>1. /\ f # "all" /\ \A g \in Faults : g # "all"
      /\ {"death", "lost", "stray"} \subseteq Faults
  BY DEF Faults
<1>2. /\ budget \in [Faults \cup {"all"} -> Nat]
      /\ budget[f] > 0 /\ budget["all"] > 0
      /\ budget' = [budget EXCEPT ![f] = @ - 1, !["all"] = @ - 1]
  BY DEF Types, Spend
<1>3. /\ budget' \in [Faults \cup {"all"} -> Nat]
      /\ budget'[f] = budget[f] - 1
      /\ \A g \in Faults \ {f} : budget'[g] = budget[g]
  BY <1>1, <1>2
<1>4. \A g \in Faults : budget'[g] <= budget[g]
  BY <1>2, <1>3
<1> QED
  BY <1>1, <1>2, <1>3, <1>4, NodeStoreAssumption DEF Types

LEMMA LeavesTypes ==
    ASSUME Types, NEW b \in Block, Leaves(b)
    PROVE  served' \subseteq Block /\ net' \in Heights
  BY DEF Types, Leaves, Block

LEMMA AnswerTypes ==
    ASSUME Types, NEW p \in Peers, Answer(p)
    PROVE  /\ reading' \in [Peers -> ReadType]
           /\ served' \subseteq Block /\ net' \in Heights
<1>1. reading[p].item \in Block
  BY DEF Types, ReadType
<1>2. reading' \in [Peers -> ReadType]
  BY Constants DEF Types, Answer
<1> QED
  BY <1>1, <1>2, LeavesTypes DEF Answer, Types

LEMMA TypesStep == Types /\ Next => Types'
<1> SUFFICES ASSUME Types, Next PROVE Types'
  OBVIOUS
<1> USE DEF disk, tries, loops
<1>1. CASE Propose
  <2>1. [index |-> current + 1, life |-> Life] \in Block
    BY <1>1, Constants, NodeStoreAssumption DEF Propose, Types, Block, Life, Ends, Faults
  <2>2. save' \in SaveType
    BY <1>1, <2>1, BeginType DEF Propose
  <2> QED
    BY <1>1, <2>2 DEF Propose, Types
<1>2. CASE CheckIndex
  <2>1. save' \in SaveType
    <3>1. After.check \in Steps \cup {"idle"}
      BY AfterSteps DEF Steps
    <3>2. GoTo(After.check) \in SaveType
      BY <3>1, AdvanceType
    <3>3. NoSave \in SaveType /\ last \in Heights
      BY Constants DEF Types
    <3> QED
      BY <1>2, <3>2, <3>3 DEF CheckIndex, SaveType
  <2> QED
    BY <1>2, <2>1 DEF CheckIndex, Types
<1>3. CASE SaveCurrentBlock
  <2>1. save' \in SaveType
    BY <1>3, AdvanceTypes DEF SaveCurrentBlock, At, Steps
  <2> QED
    BY <1>3, <2>1 DEF SaveCurrentBlock, Types, SaveType, Block
<1>4. CASE SaveLastBlock
  <2>1. save' \in SaveType
    BY <1>4, AdvanceTypes DEF SaveLastBlock, At, Steps
  <2> QED
    BY <1>4, <2>1 DEF SaveLastBlock, Types, SaveType, Block
<1>5. ASSUME NEW t \in Tries, Update(t) \/ Commit(t) \/ Swap(t) \/ PutRoot(t)
      PROVE  Types'
  <2>1. save.step \in Steps /\ Advance
    BY <1>5 DEF Update, Commit, Swap, PutRoot, At, Steps, Tries, UpdateStep,
       CommitStep, SwapStep, RootStep
  <2>2. save' \in SaveType /\ save.block \in Block /\ save.tx \in Block
    BY <2>1, AdvanceTypes DEF Types, SaveType
  <2>3. CASE Update(t)
    <3>1. Item(t) \in Block
      BY <2>2, Constants DEF Item
    <3> QED
      BY <2>2, <2>3, <3>1 DEF Update, Types
  <2>4. CASE Commit(t)
    BY <2>2, <2>4 DEF Commit, Types
  <2>5. CASE Swap(t)
    <3>1. reading' \in [Peers -> ReadType]
      BY <2>5 DEF Swap, Types, ReadType
    <3> QED
      BY <2>2, <2>5, <3>1 DEF Swap, Types
  <2>6. CASE PutRoot(t)
    BY <2>2, <2>6 DEF PutRoot, Types
  <2> QED
    BY <1>5, <2>3, <2>4, <2>5, <2>6
<1>6. CASE Grow
  BY <1>6, Constants DEF Grow, Types, Heights
<1>7. CASE Die
  BY <1>7, StopTypes, SpendTypes DEF Die, Types, Faults
<1>8. CASE Restart
  BY <1>8 DEF Restart, Types
<1>9. ASSUME NEW p \in Peers, NEW k \in Heights, BlockArrives(p, k)
      PROVE  Types'
  <2>1. save' \in SaveType
    BY <1>9, BeginType DEF BlockArrives, Arriving
  <2> QED
    BY <1>9, <2>1 DEF BlockArrives, Types
<1>10. ASSUME NEW p \in Peers, NEW k \in Heights, ClaimBegin(p, k)
       PROVE  Types'
  BY <1>10 DEF ClaimBegin, Types
<1>11. ASSUME NEW p \in Peers, NEW t \in Tries, ReadBegin(p, t)
       PROVE  Types'
  <2>1. reading' \in [Peers -> ReadType]
    BY <1>11 DEF ReadBegin, Types, ReadType
  <2> QED
    BY <1>11, <2>1 DEF ReadBegin, Types
<1>12. ASSUME NEW p \in Peers, ReadEnd(p)
       PROVE  Types'
  BY <1>12, AnswerTypes DEF ReadEnd, Types
<1>13. ASSUME NEW p \in Peers, ReadEndUndoes(p)
       PROVE  Types'
  <2>1. mem' \in [Tries -> SUBSET Block]
    BY <1>13 DEF ReadEndUndoes, Types, ReadType
  <2> QED
    BY <1>13, <2>1, AnswerTypes, SpendTypes DEF ReadEndUndoes, Types, Faults
<1>14. ASSUME NEW p \in Peers, ClaimPut(p)
       PROVE  Types'
  BY <1>14, Constants DEF ClaimPut, Types
<1>15. ASSUME NEW t \in Tries, CommitPanics(t)
       PROVE  Types'
  BY <1>15, StopTypes DEF CommitPanics, Types
<1>16. ASSUME NEW b \in Block, SendProposal(b)
       PROVE  Types'
  BY <1>16, LeavesTypes DEF SendProposal, Types
<1>17. ASSUME NEW b \in Block, LoseProposal(b)
       PROVE  Types'
  BY <1>17, SpendTypes DEF LoseProposal, Types, Faults
<1>18. CASE LoopFails
  BY <1>18, SpendTypes, Constants DEF LoopFails, Types, Faults
<1>19. ASSUME NEW p \in Peers, NEW k \in Heights, BlockStrays(p, k)
       PROVE  Types'
  <2>1. After.begin \in Steps /\ "check" \in Steps
    BY DEF After, Steps
  <2>2. \A b \in Block, i \in 1..net : TxOf([b EXCEPT !.index = i]) \in Block
    BY Constants DEF Block, TxOf, Heights, Types
  <2>3. save' \in SaveType
    BY <1>19, <2>1, <2>2, StartType, Constants DEF BlockStrays, Arriving
  <2> QED
    BY <1>19, <2>3, SpendTypes DEF BlockStrays, Types, Faults
<1> QED
  BY <1>1, <1>2, <1>3, <1>4, <1>5, <1>6, <1>7, <1>8, <1>9, <1>10, <1>11, <1>12,
     <1>13, <1>14, <1>15, <1>16, <1>17, <1>18, <1>19 DEF Next, SaveStep

LEMMA TypesStutter == Types /\ UNCHANGED vars => Types'
  BY DEF vars, disk, tries, loops, Types

\* The type invariant without what it says of the tries between two saves.
THEOREM StoreTypes == Spec => []Types
<1>1. Types /\ [Next]_vars => Types'
  BY TypesStep, TypesStutter
<1> QED
  BY <1>1, TypesInit, PTL DEF Spec

-----------------------------------------------------------------------------
(* Blocks.                                                                  *)

\* Block b is in this node somewhere, or was.
Held(b) ==
    \/ b \in mem["block"] \/ b \in root["block"] \/ b \in served \/ b \in outbox
    \/ \E p \in Peers : reading[p].trie = "block" /\ b \in reading[p].seen

\* The steps of a save from the Put of CURRENT_BLOCK on.
Saving == {"last", "update", "commit", "swap", "root"}

\* Nothing is held above CURRENT_BLOCK, and one block for each height; the
\* block being saved is the one for its height.
Single ==
    /\ \A b \in Block : Held(b) => b.index <= current
    /\ \A b, d \in Block : Held(b) /\ Held(d) /\ b.index = d.index => b = d
    /\ save.step = "current" => save.block.index = current + 1
    /\ save.step \in Saving =>
          /\ save.block.index = current
          /\ \A b \in Block : Held(b) /\ b.index = current => b = save.block
    /\ \A p \in Peers : reading[p].trie = "block" => reading[p].item \in reading[p].seen

\* What becomes of the save in a step that does not write CURRENT_BLOCK.
SaveGoesOn ==
    \/ save' = save
    \/ save'.step \notin Saving \cup {"current"}
    \/ save'.step = "current" /\ save'.block.index = current + 1
    \/ save.step \in Saving /\ save'.step \in Saving /\ save'.block = save.block

\* Such a step holds no new block but the one that is being saved.
HoldsOn ==
    /\ current' = current
    /\ SaveGoesOn
    /\ \A b \in Block : Held(b)' => Held(b) \/ (save.step \in Saving /\ b = save.block)
    /\ \A p \in Peers : reading'[p].trie = "block" => reading'[p].item \in reading'[p].seen

LEMMA SingleInit == Init => Single
<1> SUFFICES ASSUME Init PROVE Single
  OBVIOUS
<1>1. \A b : Held(b) => b = Genesis
  BY DEF Init, Held, NoRead
<1> QED
  BY <1>1 DEF Init, Single, Genesis, NoSave, NoRead, Saving

LEMMA HoldsOnKeepsSingle ==
    ASSUME Types, Single, HoldsOn
    PROVE  Single'
<1>1. ASSUME NEW b \in Block, Held(b)'
      PROVE  /\ b.index <= current
             /\ \A d \in Block : Held(d)' /\ b.index = d.index => b = d
             /\ save.step \in Saving /\ b.index = current => b = save.block
  BY <1>1 DEF HoldsOn, Single, Types, SaveType, Heights, Block
<1>2. save'.step = "current" => save'.block.index = current' + 1
  BY DEF HoldsOn, SaveGoesOn, Single, Saving
<1>3. save'.step \in Saving =>
        /\ save'.block.index = current'
        /\ save'.block = save.block /\ save.step \in Saving
  BY DEF HoldsOn, SaveGoesOn, Single, Saving
<1>4. current' = current
  BY DEF HoldsOn
<1> QED
  BY <1>1, <1>2, <1>3, <1>4 DEF HoldsOn, Single

\* The steps that touch no block and no save.
LEMMA QuietHolds ==
    ASSUME Single, UNCHANGED <<current, root, mem, save, outbox, served, reading>>
    PROVE  HoldsOn
  BY DEF HoldsOn, SaveGoesOn, Held, Single

\* The order of the steps of a save.
LEMMA Order ==
    /\ After["txUpdate"] = "txCommit" /\ After["txCommit"] = "txRoot"
    /\ After["txRoot"] = "txSwap" /\ After["txSwap"] = "check"
    /\ After["check"] = "current" /\ After["current"] = "last"
    /\ After["last"] = "update" /\ After["update"] = "commit"
    /\ After["commit"] = "swap" /\ After["swap"] = "root"
    /\ After["root"] = "idle" /\ After["begin"] = "txUpdate"
  BY DEF After

LEMMA AdvanceGoesOn ==
    ASSUME Types, Advance, save.step \in Steps \ {"begin", "check", "current"}
    PROVE  /\ SaveGoesOn
           /\ save.step # "root" => /\ save'.step = After[save.step]
                                   /\ save'.block = save.block /\ save'.tx = save.tx
           /\ save.step = "root" => save' = NoSave
  BY Order DEF Advance, GoTo, SaveGoesOn, Saving, Steps, Types, SaveType, NoSave

LEMMA BeginGoesOn ==
    ASSUME NEW b, NEW p, Begin(b, p)
    PROVE  SaveGoesOn
  BY Order DEF Begin, StartSave, SaveGoesOn, Saving

LEMMA StraysGoesOn ==
    ASSUME NEW p, NEW k, BlockStrays(p, k)
    PROVE  /\ up /\ save.step = "idle"
           /\ save'.step \in {"check", "txUpdate"}
           /\ SaveGoesOn
<1>1. \A b, x, s : StartSave(b, x, s, p) => save = NoSave /\ save'.step = s
  BY DEF StartSave
<1>2. After.begin = "txUpdate"
  BY DEF After
<1>3. up /\ save = NoSave /\ save'.step \in {"check", "txUpdate"}
  BY <1>1, <1>2 DEF BlockStrays, Arriving
<1> QED
  BY <1>3 DEF NoSave, SaveGoesOn, Saving

LEMMA AnswerHolds ==
    ASSUME Types, Single, NEW p \in Peers, Answer(p)
    PROVE  /\ \A b \in Block : b \in served' => Held(b)
           /\ \A q \in Peers : \/ reading'[q] = reading[q]
                               \/ reading'[q] = NoRead
  BY DEF Types, Single, Answer, Leaves, Held

LEMMA StepHolds ==
    ASSUME Types, Single, Next, ~SaveCurrentBlock
    PROVE  HoldsOn
<1> USE DEF disk, tries, loops
<1>1. CASE Propose
  BY <1>1, BeginGoesOn DEF Propose, HoldsOn, Held, Single
<1>2. CASE CheckIndex
  <2>1. SaveGoesOn
    BY <1>2, Order DEF CheckIndex, At, GoTo, SaveGoesOn, Saving, NoSave, Types, SaveType
  <2> QED
    BY <1>2, <2>1 DEF CheckIndex, HoldsOn, Held, Single
<1>3. CASE SaveLastBlock
  <2>1. SaveGoesOn
    BY <1>3, AdvanceGoesOn DEF SaveLastBlock, At, Steps
  <2> QED
    BY <1>3, <2>1 DEF SaveLastBlock, HoldsOn, Held, Single
<1>4. ASSUME NEW t \in Tries, Update(t) \/ Commit(t) \/ Swap(t) \/ PutRoot(t)
      PROVE  HoldsOn
  <2>1. SaveGoesOn
    BY <1>4, AdvanceGoesOn DEF Update, Commit, Swap, PutRoot, At, Steps, Tries,
       UpdateStep, CommitStep, SwapStep, RootStep
  <2>2. CASE Update(t)
    <3>1. \A b : b \in mem'["block"] =>
                   b \in mem["block"] \/ (save.step \in Saving /\ b = save.block)
      BY <2>2 DEF Update, At, Tries, UpdateStep, Item, Saving, Types
    <3> QED
      BY <2>1, <2>2, <3>1 DEF Update, HoldsOn, Held, Single
  <2>3. CASE Commit(t)
    BY <2>1, <2>3 DEF Commit, HoldsOn, Held, Single
  <2>4. CASE Swap(t)
    <3>1. \A p \in Peers : /\ reading'[p].trie = reading[p].trie
                           /\ reading'[p].seen = reading[p].seen
                           /\ reading'[p].item = reading[p].item
      BY <2>4 DEF Swap, Types, ReadType
    <3> QED
      BY <2>1, <2>4, <3>1 DEF Swap, HoldsOn, Held, Single
  <2>5. CASE PutRoot(t)
    <3>1. /\ \A b : b \in root'["block"] => b \in root["block"] \/ b \in mem["block"]
          /\ \A b : b \in outbox' =>
                     b \in outbox \/ (save.step \in Saving /\ b = save.block)
      BY <2>5 DEF PutRoot, At, Tries, RootStep, Saving, Types
    <3> QED
      BY <2>1, <2>5, <3>1 DEF PutRoot, HoldsOn, Held, Single
  <2> QED
    BY <1>4, <2>2, <2>3, <2>4, <2>5
<1>5. CASE Grow
  BY <1>5, QuietHolds DEF Grow
<1>6. ASSUME Stop
      PROVE  HoldsOn
  BY <1>6 DEF Stop, HoldsOn, SaveGoesOn, NoSave, NoRead, Saving, Held, Single
<1>7. CASE Restart
  BY <1>7, QuietHolds DEF Restart
<1>8. ASSUME NEW p \in Peers, NEW k \in Heights, BlockArrives(p, k)
      PROVE  HoldsOn
  BY <1>8, BeginGoesOn DEF BlockArrives, HoldsOn, Held, Single
<1>9. ASSUME NEW p \in Peers, NEW k \in Heights, ClaimBegin(p, k)
      PROVE  HoldsOn
  BY <1>9, QuietHolds DEF ClaimBegin
<1>10. ASSUME NEW p \in Peers, NEW t \in Tries, ReadBegin(p, t)
       PROVE  HoldsOn
  <2>1. \A q \in Peers :
          \/ reading'[q] = reading[q]
          \/ reading'[q].trie = t /\ reading'[q].seen = mem[t] /\ reading'[q].item \in mem[t]
    BY <1>10 DEF ReadBegin, Types
  <2> QED
    BY <1>10, <2>1 DEF ReadBegin, HoldsOn, SaveGoesOn, Held, Single
<1>11. ASSUME NEW p \in Peers, ReadEnd(p)
       PROVE  HoldsOn
  BY <1>11, AnswerHolds DEF ReadEnd, HoldsOn, SaveGoesOn, Held, Single, NoRead
<1>12. ASSUME NEW p \in Peers, ReadEndUndoes(p)
       PROVE  HoldsOn
  <2>1. \A b \in Block : b \in mem'["block"] => Held(b)
    BY <1>12 DEF ReadEndUndoes, Types, Held
  <2> QED
    BY <1>12, <2>1, AnswerHolds DEF ReadEndUndoes, HoldsOn, SaveGoesOn, Held, Single, NoRead
<1>13. ASSUME NEW p \in Peers, ClaimPut(p)
       PROVE  HoldsOn
  BY <1>13, QuietHolds DEF ClaimPut
<1>14. ASSUME NEW b \in Block, SendProposal(b) \/ LoseProposal(b)
       PROVE  HoldsOn
  BY <1>14 DEF SendProposal, LoseProposal, Leaves, HoldsOn, SaveGoesOn, Held, Single
<1>15. CASE LoopFails
  BY <1>15 DEF LoopFails, NoSave, HoldsOn, SaveGoesOn, Saving, Held, Single
<1>16. ASSUME NEW p \in Peers, NEW k \in Heights, BlockStrays(p, k)
       PROVE  HoldsOn
  BY <1>16, StraysGoesOn DEF BlockStrays, HoldsOn, Held, Single
<1> QED
  BY <1>1, <1>2, <1>3, <1>4, <1>5, <1>6, <1>7, <1>8, <1>9, <1>10, <1>11, <1>12,
     <1>13, <1>14, <1>15, <1>16 DEF Next, SaveStep, Die, CommitPanics

\* CURRENT_BLOCK moves past all that is held.
LEMMA CurrentKeepsSingle ==
    ASSUME Types, Single, SaveCurrentBlock
    PROVE  Single'
<1>1. /\ current' = current + 1 /\ current \in Nat
      /\ save'.step = "last" /\ save'.block = save.block
      /\ save.block.index = current + 1
  BY Order, Constants DEF SaveCurrentBlock, At, Advance, GoTo, Types, SaveType, Single
<1>2. \A b \in Block : Held(b)' <=> Held(b)
  BY DEF SaveCurrentBlock, Held, tries, loops
<1>3. \A b \in Block : Held(b) => b.index <= current /\ b.index \in Nat
  BY Constants DEF Single
<1>4. reading' = reading
  BY DEF SaveCurrentBlock, loops
<1> QED
  BY <1>1, <1>2, <1>3, <1>4 DEF Single, Saving

\* Types and the single block of each height.
THEOREM StoreInvariance == Spec => [](Types /\ Single)
<1>1. Init => Types /\ Single
  BY TypesInit, SingleInit
<1>2. Types /\ Single /\ [Next]_vars => Types' /\ Single'
  <2> SUFFICES ASSUME Types, Single, [Next]_vars PROVE Single'
    BY TypesStep, TypesStutter
  <2>1. CASE UNCHANGED vars
    BY <2>1, QuietHolds, HoldsOnKeepsSingle DEF vars, disk, tries, loops
  <2>2. CASE SaveCurrentBlock
    BY <2>2, CurrentKeepsSingle
  <2>3. CASE Next /\ ~SaveCurrentBlock
    BY <2>3, StepHolds, HoldsOnKeepsSingle
  <2> QED
    BY <2>1, <2>2, <2>3
<1> QED
  BY <1>1, <1>2, PTL DEF Spec

\* No peer ever gets two blocks of this node for one height, whatever dies,
\* races or is lost (SaveBlockToTrie writes CURRENT_BLOCK first).
THEOREM ServesOnce == Spec => []ServedOnce
<1>1. Types /\ Single => ServedOnce
  BY DEF Types, Single, Held, ServedOnce
<1> QED
  BY <1>1, StoreInvariance, PTL

=============================================================================
