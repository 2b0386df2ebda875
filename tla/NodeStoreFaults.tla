-------------------------- MODULE NodeStoreFaults --------------------------
(***************************************************************************)
(* What faults can cost the store of a node, for every number of them: the *)
(* tries in memory follow those in LevelDB, a block is missing for a fault *)
(* only, and a block comes with its transactions.                          *)
(***************************************************************************)
EXTENDS NodeStoreProofs, Counting

-----------------------------------------------------------------------------
(* A trie in memory is the one in LevelDB, but for the item being saved.    *)

\* The steps at which the item may be in memory and not in LevelDB.
Trail(t) == IF t = "tx" THEN {"txCommit", "txRoot"} ELSE {"commit", "swap", "root"}

\* The steps at which the trie refuses reads.
Closed(t) == IF t = "tx" THEN {"txRoot", "txSwap"} ELSE {"swap"}

Mirror(t) ==
    /\ root[t] \subseteq mem[t]
    /\ mem[t] \subseteq root[t] \cup {Item(t)}
    /\ save.step \notin Trail(t) => mem[t] = root[t]
    /\ open[t] <=> save.step \notin Closed(t)

\* A reader of the trie in use saw what it is now, but while an update waits
\* for its Commit.
Sees(r) ==
    r.live =>
        /\ r.trie \in Tries
        /\ open[r.trie] =>
              /\ root[r.trie] \subseteq r.seen
              /\ r.seen \subseteq root[r.trie] \cup {Item(r.trie)}
              /\ save.step # CommitStep[r.trie] => r.seen = mem[r.trie]

Follows ==
    /\ \A t \in Tries : Mirror(t)
    /\ \A p \in Peers : Sees(reading[p])
    /\ ~up => save = NoSave

\* The readers of a step: some go on, some end, some begin.
ReadsOn ==
    \A p \in Peers :
        \/ reading'[p] = reading[p]
        \/ reading'[p] = NoRead
        \/ /\ reading'[p].trie \in Tries
           /\ open[reading'[p].trie]
           /\ reading'[p].seen = mem[reading'[p].trie]

\* The steps at which both tries are as in LevelDB.
Calm == {"idle", "txUpdate", "check", "current", "last", "update"}

\* What no trie notices.
Unnoticed ==
    /\ UNCHANGED <<mem, root, open>>
    /\ ReadsOn
    /\ \/ save' = save
       \/ save.step \in Calm /\ save'.step \in Calm
    /\ ~up' => save' = NoSave

LEMMA FollowsInit == Init => Follows
<1> SUFFICES ASSUME Init PROVE Follows
  OBVIOUS
<1>1. \A t \in Tries : Mirror(t)
  BY DEF Init, Tries, Mirror, Closed, NoSave
<1>2. \A p \in Peers : Sees(reading[p])
  BY DEF Init, Sees, NoRead
<1> QED
  BY <1>1, <1>2 DEF Init, Follows

\* Between updates a trie is as in LevelDB, and so are its readers.
LEMMA CalmTries ==
    ASSUME Follows, save.step \in Calm, NEW t \in Tries
    PROVE  /\ mem[t] = root[t] /\ open[t]
           /\ save.step # CommitStep[t]
<1>1. save.step \notin Trail(t) /\ save.step \notin Closed(t) /\ save.step # CommitStep[t]
  BY DEF Calm, Trail, Closed, Tries, CommitStep
<1> QED
  BY <1>1 DEF Follows, Mirror

LEMMA UnnoticedFollows ==
    ASSUME Types, Follows, Unnoticed
    PROVE  Follows'
<1>1. UNCHANGED <<mem, root, open>>
  BY DEF Unnoticed
<1>2. CASE save' = save
  <2>1. \A t : Item(t)' = Item(t)
    BY <1>2 DEF Item
  <2>2. \A t \in Tries : Mirror(t)'
    BY <1>1, <1>2, <2>1 DEF Follows, Mirror
  <2>3. ASSUME NEW p \in Peers PROVE Sees(reading[p])'
    <3>1. CASE reading'[p] = reading[p]
      BY <1>1, <1>2, <2>1, <3>1 DEF Follows, Sees
    <3>2. CASE reading'[p] = NoRead
      BY <3>2 DEF Sees, NoRead
    <3>3. CASE /\ reading'[p].trie \in Tries
               /\ reading'[p].seen = mem[reading'[p].trie]
      BY <1>1, <2>2, <3>3 DEF Mirror, Sees
    <3> QED
      BY <3>1, <3>2, <3>3 DEF Unnoticed, ReadsOn
  <2> QED
    BY <2>2, <2>3 DEF Follows, Unnoticed
<1>3. CASE save.step \in Calm /\ save'.step \in Calm
  <2>1. \A t \in Tries : mem[t] = root[t] /\ open[t] /\ save.step # CommitStep[t]
    BY <1>3, CalmTries
  <2>2. \A t \in Tries : Mirror(t)'
    <3>1. \A t \in Tries : save'.step \notin Closed(t)
      BY <1>3 DEF Calm, Closed, Tries
    <3> QED
      BY <1>1, <2>1, <3>1 DEF Mirror, Closed
  <2>3. ASSUME NEW p \in Peers, reading'[p].live
        PROVE  reading'[p].trie \in Tries /\ reading'[p].seen = mem[reading'[p].trie]
    <3>1. CASE reading'[p] = reading[p]
      BY <2>1, <2>3, <3>1 DEF Follows, Sees
    <3>2. CASE reading'[p] = NoRead
      BY <2>3, <3>2 DEF NoRead
    <3> QED
      BY <3>1, <3>2 DEF Unnoticed, ReadsOn
  <2>4. ASSUME NEW p \in Peers PROVE Sees(reading[p])'
    BY <1>1, <2>1, <2>3 DEF Sees
  <2> QED
    BY <2>2, <2>4 DEF Follows, Unnoticed
<1> QED
  BY <1>2, <1>3 DEF Unnoticed

\* The steps of a save of t, as t sees them and as the other trie does.
LEMMA StepsOfTrie ==
    ASSUME Types, NEW t \in Tries, Update(t) \/ Commit(t) \/ Swap(t) \/ PutRoot(t)
    PROVE  /\ up /\ up' = up
           /\ Update(t) \/ Commit(t) \/ Swap(t) =>
                 save'.block = save.block /\ save'.tx = save.tx
           /\ PutRoot(t) => \/ t = "tx" /\ save'.block = save.block
                            \/ t = "block" /\ save' = NoSave
           /\ Update(t) => /\ save.step \notin Trail(t) /\ save.step \notin Closed(t)
                           /\ save'.step \in Trail(t) /\ save'.step \notin Closed(t)
                           /\ save.step # CommitStep[t] /\ save'.step = CommitStep[t]
           /\ Commit(t) => /\ save.step \in Trail(t) /\ save'.step \in Trail(t)
                           /\ save'.step \in Closed(t)
           /\ Swap(t) => /\ save'.step \in Trail(t) <=> save.step \in Trail(t)
                         /\ save'.step \notin Closed(t)
           /\ PutRoot(t) => /\ save'.step \notin Trail(t)
                            /\ save'.step \in Closed(t) <=> save.step \in Closed(t)
                            /\ save.step # CommitStep[t]
           /\ \A u \in Tries \ {t} :
                 /\ save.step \notin Trail(u) /\ save.step \notin Closed(u)
                 /\ save'.step \notin Trail(u) /\ save'.step \notin Closed(u)
                 /\ save.step # CommitStep[u] /\ save'.step # CommitStep[u]
<1> USE DEF tries, loops, disk
<1>1. /\ save.step \in Steps \ {"begin", "check", "current"} /\ Advance
      /\ up /\ up' = up
  BY DEF Update, Commit, Swap, PutRoot, At, Steps, Tries, UpdateStep, CommitStep,
     SwapStep, RootStep
<1>2. /\ save.step # "root" => /\ save'.step = After[save.step]
                              /\ save'.block = save.block /\ save'.tx = save.tx
      /\ save.step = "root" => save' = NoSave
  BY <1>1, AdvanceGoesOn
<1>3. CASE t = "tx"
  <2>1. \A u \in Tries \ {t} : u = "block"
    BY <1>3 DEF Tries
  <2>2. /\ Update(t) => save.step = "txUpdate"
        /\ Commit(t) => save.step = "txCommit"
        /\ PutRoot(t) => save.step = "txRoot"
        /\ Swap(t) => save.step = "txSwap"
    BY <1>3 DEF Update, Commit, Swap, PutRoot, At, UpdateStep, CommitStep, SwapStep, RootStep
  <2> QED
    BY <1>1, <1>2, <1>3, <2>1, <2>2, Order DEF Trail, Closed, CommitStep
<1>4. CASE t = "block"
  <2>1. \A u \in Tries \ {t} : u = "tx"
    BY <1>4 DEF Tries
  <2>2. /\ Update(t) => save.step = "update"
        /\ Commit(t) => save.step = "commit"
        /\ Swap(t) => save.step = "swap"
        /\ PutRoot(t) => save.step = "root"
    BY <1>4 DEF Update, Commit, Swap, PutRoot, At, UpdateStep, CommitStep, SwapStep, RootStep
  <2> QED
    BY <1>1, <1>2, <1>4, <2>1, <2>2, Order DEF Trail, Closed, CommitStep, NoSave
<1> QED
  BY <1>3, <1>4 DEF Tries

\* What a step of a save of t leaves alone.
LEMMA OtherTrie ==
    ASSUME Types, Follows, NEW t \in Tries, NEW u \in Tries \ {t},
           Update(t) \/ Commit(t) \/ Swap(t) \/ PutRoot(t)
    PROVE  /\ mem[u] = root[u] /\ open[u]
           /\ mem'[u] = mem[u] /\ root'[u] = root[u] /\ open'[u] = open[u]
           /\ Mirror(u)'
<1>1. mem[u] = root[u] /\ open[u]
  BY StepsOfTrie DEF Follows, Mirror
<1>2. mem'[u] = mem[u] /\ root'[u] = root[u] /\ open'[u] = open[u]
  BY DEF Types, Update, Commit, Swap, PutRoot, disk, tries
<1>3. save'.step \notin Trail(u) /\ save'.step \notin Closed(u)
  BY StepsOfTrie
<1> QED
  BY <1>1, <1>2, <1>3 DEF Mirror

LEMMA SaveFollows ==
    ASSUME Types, Follows, NEW t \in Tries, Update(t) \/ Commit(t) \/ Swap(t) \/ PutRoot(t)
    PROVE  Follows'
<1> USE DEF tries, loops, disk
<1>1. Mirror(t)
  BY DEF Follows
<1>2. ASSUME NEW p \in Peers
      PROVE  /\ reading'[p].trie = reading[p].trie /\ reading'[p].seen = reading[p].seen
             /\ reading'[p].live => reading[p].live
             /\ Swap(t) /\ reading[p].trie = t => ~reading'[p].live
  <2>1. CASE Swap(t)
    <3>1. reading'[p] = [reading[p] EXCEPT !.live = @ /\ reading[p].trie # t]
      BY <2>1 DEF Swap
    <3>2. reading[p] \in ReadType
      BY DEF Types
    <3> QED
      BY <3>1, <3>2 DEF ReadType
  <2>2. CASE ~Swap(t)
    <3>1. reading' = reading
      BY <2>2 DEF Update, Commit, PutRoot
    <3> QED
      BY <2>2, <3>1
  <2> QED
    BY <2>1, <2>2
<1>3. save'.block = save.block /\ save'.tx = save.tx => Item(t)' = Item(t)
  BY DEF Item
<1>4. Mirror(t)'
  <2>1. CASE Update(t)
    <3>1. mem'[t] = mem[t] \cup {Item(t)} /\ root'[t] = root[t] /\ open'[t] = open[t]
      BY <2>1 DEF Update, Types
    <3>2. Item(t)' = Item(t)
      BY <1>3, <2>1, StepsOfTrie
    <3> QED
      BY <1>1, <2>1, <3>1, <3>2, StepsOfTrie DEF Mirror
  <2>2. CASE Commit(t)
    <3>1. mem'[t] = mem[t] /\ root'[t] = root[t] /\ open'[t] = FALSE
      BY <2>2 DEF Commit, Types
    <3>2. Item(t)' = Item(t)
      BY <1>3, <2>2, StepsOfTrie
    <3> QED
      BY <1>1, <2>2, <3>1, <3>2, StepsOfTrie DEF Mirror
  <2>3. CASE Swap(t)
    <3>1. mem'[t] = mem[t] /\ root'[t] = root[t] /\ open'[t] = TRUE
      BY <2>3 DEF Swap, Types
    <3>2. Item(t)' = Item(t)
      BY <1>3, <2>3, StepsOfTrie
    <3> QED
      BY <1>1, <2>3, <3>1, <3>2, StepsOfTrie DEF Mirror
  <2>4. CASE PutRoot(t)
    <3>1. mem'[t] = mem[t] /\ root'[t] = mem[t] /\ open'[t] = open[t]
      BY <2>4 DEF PutRoot, Types
    <3> QED
      BY <1>1, <2>4, <3>1, StepsOfTrie DEF Mirror
  <2> QED
    BY <2>1, <2>2, <2>3, <2>4
<1>5. ASSUME NEW p \in Peers, reading'[p].live, reading[p].trie # t
      PROVE  Sees(reading[p])'
  <2>1. reading[p].trie \in Tries \ {t} /\ reading[p].live
    BY <1>2, <1>5 DEF Follows, Sees
  <2>2. reading[p].seen = mem[reading[p].trie]
    BY <2>1, OtherTrie, StepsOfTrie DEF Follows, Sees
  <2> QED
    BY <1>2, <1>5, <2>1, <2>2, OtherTrie DEF Sees
<1>6. ASSUME NEW p \in Peers, reading'[p].live, reading[p].trie = t
      PROVE  Sees(reading[p])'
  <2>1. reading[p].live /\ ~Swap(t)
    BY <1>2, <1>6
  <2>2. CASE Update(t)
    <3>1. /\ mem[t] = root[t] /\ open[t] /\ reading[p].seen = mem[t]
          /\ root'[t] = root[t] /\ save'.step = CommitStep[t]
      BY <1>1, <1>6, <2>1, <2>2, StepsOfTrie DEF Follows, Sees, Mirror, Update
    <3> QED
      BY <1>2, <1>6, <3>1 DEF Sees
  <2>3. CASE Commit(t)
    <3>1. ~open'[t]
      BY <2>3 DEF Commit, Types
    <3> QED
      BY <1>2, <1>6, <3>1 DEF Sees
  <2>4. CASE PutRoot(t)
    <3>0. save.step # CommitStep[t]
      BY <2>4, StepsOfTrie
    <3>1. /\ open'[t] = open[t] /\ save.step # CommitStep[t]
          /\ root'[t] = mem[t] /\ mem'[t] = mem[t]
      BY <2>4, <3>0 DEF PutRoot, Types
    <3>2. open[t] => reading[p].seen = mem[t]
      BY <1>6, <2>1, <3>1 DEF Follows, Sees
    <3> QED
      BY <1>2, <1>6, <3>1, <3>2 DEF Sees
  <2> QED
    BY <2>1, <2>2, <2>3, <2>4
<1>7. \A p \in Peers : Sees(reading[p])'
  BY <1>5, <1>6 DEF Sees
<1>8. \A u \in Tries : Mirror(u)'
  BY <1>4, OtherTrie
<1> QED
  BY <1>7, <1>8, StepsOfTrie DEF Follows

\* An update can be undone while it waits for its Commit, and then only.
LEMMA UndoTrie ==
    ASSUME Types, Follows, NEW p \in Peers, ReadEndUndoes(p)
    PROVE  \E t \in Tries :
              /\ save.step = CommitStep[t] /\ save.step \in Trail(t)
              /\ root[t] \subseteq mem'[t] /\ mem'[t] \subseteq root[t] \cup {Item(t)}
              /\ \A u \in Tries \ {t} : mem'[u] = mem[u]
<1> DEFINE t == reading[p].trie
<1>1. /\ t \in Tries /\ open[t] /\ mem[t] # reading[p].seen
      /\ root[t] \subseteq reading[p].seen
      /\ reading[p].seen \subseteq root[t] \cup {Item(t)}
      /\ save.step = CommitStep[t]
  BY DEF ReadEndUndoes, Follows, Sees
<1>2. mem' = [mem EXCEPT ![t] = reading[p].seen]
  BY DEF ReadEndUndoes
<1>3. save.step \in Trail(t)
  BY <1>1 DEF Trail, CommitStep, Tries
<1>4. mem'[t] = reading[p].seen /\ \A u \in Tries \ {t} : mem'[u] = mem[u]
  BY <1>1, <1>2 DEF Types
<1> HIDE DEF t
<1> QED
  BY <1>1, <1>3, <1>4

LEMMA UndoFollows ==
    ASSUME Types, Follows, NEW p \in Peers, ReadEndUndoes(p)
    PROVE  Follows'
<1>1. PICK t \in Tries :
        /\ save.step = CommitStep[t] /\ save.step \in Trail(t)
        /\ root[t] \subseteq mem'[t] /\ mem'[t] \subseteq root[t] \cup {Item(t)}
        /\ \A u \in Tries \ {t} : mem'[u] = mem[u]
  BY UndoTrie
<1>2. /\ UNCHANGED <<up, root, open, save>>
      /\ \A u : Item(u)' = Item(u)
      /\ \A q \in Peers : reading'[q] = reading[q] \/ reading'[q] = NoRead
  BY DEF ReadEndUndoes, Answer, disk, Item, Types
<1>3. \A u \in Tries : Mirror(u)'
  BY <1>1, <1>2 DEF Follows, Mirror
<1>4. ASSUME NEW q \in Peers PROVE Sees(reading[q])'
  <2>1. CASE reading'[q] = NoRead
    BY <2>1 DEF Sees, NoRead
  <2>2. CASE reading'[q] = reading[q]
    BY <1>1, <1>2, <2>2 DEF Follows, Sees
  <2> QED
    BY <1>2, <2>1, <2>2
<1> QED
  BY <1>2, <1>3, <1>4 DEF Follows

LEMMA StopFollows ==
    ASSUME Types, Stop
    PROVE  Follows'
<1>1. \A t \in Tries : Mirror(t)'
  BY DEF Stop, disk, NoSave, Mirror, Closed, Tries
<1>2. \A p \in Peers : Sees(reading[p])'
  BY DEF Stop, Sees, NoRead
<1> QED
  BY <1>1, <1>2 DEF Stop, Follows

LEMMA ArrivingUp ==
    ASSUME NEW p, NEW k, NEW b \in Arriving(p, k)
    PROVE  up
  BY DEF Arriving

\* The steps of the store that no trie notices.
LEMMA StepUnnoticed ==
    ASSUME Types, Follows, Next
    PROVE  \/ Unnoticed
           \/ \E t \in Tries : Update(t) \/ Commit(t) \/ Swap(t) \/ PutRoot(t)
           \/ \E p \in Peers : ReadEndUndoes(p)
           \/ Stop
<1> USE DEF disk, tries, loops, ReadsOn
<1>1. CASE Propose
  BY <1>1, Order DEF Propose, Begin, StartSave, NoSave, Unnoticed, Calm
<1>2. CASE CheckIndex
  BY <1>2, Order DEF CheckIndex, At, GoTo, NoSave, Unnoticed, Calm, Types, SaveType
<1>3. CASE SaveCurrentBlock \/ SaveLastBlock
  BY <1>3, Order DEF SaveCurrentBlock, SaveLastBlock, At, Advance, GoTo, Unnoticed,
     Calm, Types, SaveType
<1>4. CASE Grow \/ Restart
  BY <1>4 DEF Grow, Restart, Unnoticed, Follows
<1>5. ASSUME NEW p \in Peers, NEW k \in Heights, BlockArrives(p, k)
      PROVE  Unnoticed
  BY <1>5, Order, ArrivingUp DEF BlockArrives, Begin, StartSave, NoSave, Unnoticed, Calm
<1>6. ASSUME NEW p \in Peers, NEW k \in Heights, ClaimBegin(p, k)
      PROVE  Unnoticed
  BY <1>6 DEF ClaimBegin, Unnoticed, Follows
<1>7. ASSUME NEW p \in Peers, NEW t \in Tries, ReadBegin(p, t)
      PROVE  Unnoticed
  <2>1. ReadsOn
    BY <1>7 DEF ReadBegin, Types
  <2> QED
    BY <1>7, <2>1 DEF ReadBegin, Unnoticed, Follows
<1>8. ASSUME NEW p \in Peers, ReadEnd(p) \/ ClaimPut(p)
      PROVE  Unnoticed
  <2>1. ReadsOn
    BY <1>8 DEF ReadEnd, Answer, ClaimPut, Types
  <2> QED
    BY <1>8, <2>1 DEF ReadEnd, ClaimPut, Unnoticed, Follows
<1>9. ASSUME NEW b \in Block, SendProposal(b) \/ LoseProposal(b)
      PROVE  Unnoticed
  BY <1>9 DEF SendProposal, LoseProposal, Unnoticed, Follows
<1>10. CASE LoopFails
  BY <1>10 DEF LoopFails, At, NoSave, Unnoticed, Calm
<1>11. ASSUME NEW p \in Peers, NEW k \in Heights, BlockStrays(p, k)
       PROVE  Unnoticed
  BY <1>11, StraysGoesOn DEF BlockStrays, Unnoticed, Calm
<1> QED
  BY <1>1, <1>2, <1>3, <1>4, <1>5, <1>6, <1>7, <1>8, <1>9, <1>10, <1>11 DEF Next, SaveStep, Die, CommitPanics

LEMMA FollowsStep == Types /\ Follows /\ [Next]_vars => Follows'
<1> SUFFICES ASSUME Types, Follows, [Next]_vars PROVE Follows'
  OBVIOUS
<1>1. CASE Next
  BY <1>1, StepUnnoticed, UnnoticedFollows, SaveFollows, UndoFollows, StopFollows
<1>2. CASE UNCHANGED vars
  BY <1>2, UnnoticedFollows
     DEF vars, disk, tries, loops, Unnoticed, ReadsOn, Follows
<1> QED
  BY <1>1, <1>2

\* The shape of the state: between two saves both tries can be read, and a
\* stopped node has no state but LevelDB (SaveBlockToTrie, RestoreTrieFromRootHash).
THEOREM StoreTypeCorrect == Spec => []TypeOK
<1>1. Types /\ Follows => TypeOK
  <2> SUFFICES ASSUME Types, Follows PROVE TypeOK
    OBVIOUS
  <2>1. save = NoSave => \A t \in Tries : open[t] /\ mem[t] = root[t]
    BY CalmTries DEF NoSave, Calm
  <2>2. ~up => mem = root /\ save = NoSave
    BY <2>1 DEF Types, Follows
  <2>3. save.step \in DOMAIN After \cup {"idle"} /\ save.block \in Block /\ save.lastRead \in Heights
    BY AfterSteps DEF Types, SaveType
  <2>4. \A p \in Peers : reading[p].live => reading[p].trie \in Tries
    BY DEF Follows, Sees
  <2> QED
    BY <2>1, <2>2, <2>3, <2>4 DEF Types, TypeOK, Faults
<1>2. Init => Types /\ Follows
  BY TypesInit, FollowsInit
<1>3. Types /\ Follows /\ [Next]_vars => Types' /\ Follows'
  BY TypesStep, TypesStutter, FollowsStep
<1> QED
  BY <1>1, <1>2, <1>3, PTL DEF Spec

-----------------------------------------------------------------------------
(* A block is missing for a fault.                                          *)

\* The heights without a block in LevelDB, but for that of a block of which
\* CURRENT_BLOCK is written and the rest is being saved.
Gaps == {h \in 1..current :
            /\ \A b \in root["block"] : b.index # h
            /\ save.step \in Saving => h # current}

\* A reader has undone the update of the block that is being saved, so that
\* the height will be a gap.
Pending == IF save.step \in Trail("block") /\ save.block \notin mem["block"] THEN 1 ELSE 0

GapsAreFaults == IsFiniteSet(Gaps) /\ Cardinality(Gaps) + Pending <= Ends

\* No block and no fault.
GapsStay == Gaps' \subseteq Gaps /\ Pending' <= Pending /\ Ends' = Ends

\* A fault, whatever it costs.
GapsPaid == Gaps' \subseteq Gaps \cup {current} /\ Pending' = 0 /\ Ends' = Ends + 1

GapsUndone == Gaps' \subseteq Gaps /\ Ends' = Ends + 1

\* What was undone is saved.
GapsFilled == Gaps' \subseteq Gaps \cup {current} /\ Pending = 1 /\ Pending' = 0 /\ Ends' = Ends

LEMMA GapsInit == Init => GapsAreFaults
<1> SUFFICES ASSUME Init PROVE GapsAreFaults
  OBVIOUS
<1>1. Gaps = {} /\ Ends = 0 /\ Pending = 0
  BY NodeStoreAssumption DEF Init, Gaps, Ends, Pending, NoSave, Trail
<1> QED
  BY <1>1, FS_EmptySet DEF GapsAreFaults

LEMMA GapsCount ==
    ASSUME Types, GapsAreFaults, GapsStay \/ GapsPaid \/ GapsUndone \/ GapsFilled
    PROVE  GapsAreFaults'
<1>1. /\ IsFiniteSet(Gaps') /\ Cardinality(Gaps) \in Nat /\ Cardinality(Gaps') \in Nat
      /\ Gaps' \subseteq Gaps => Cardinality(Gaps') <= Cardinality(Gaps)
      /\ Cardinality(Gaps') <= Cardinality(Gaps) + 1
  BY Grows DEF GapsAreFaults, GapsStay, GapsPaid, GapsUndone, GapsFilled
<1>2. Pending \in {0, 1} /\ Pending' \in {0, 1} /\ Ends \in Int
  BY NodeStoreAssumption DEF Pending, Ends, Types, Faults
<1> HIDE DEF Gaps, Pending, Ends
<1> QED
  BY <1>1, <1>2 DEF GapsAreFaults, GapsStay, GapsPaid, GapsUndone, GapsFilled

\* The steps that change no block, nor how far its save is.
LEMMA GapsUntouched ==
    ASSUME Types, root'["block"] = root["block"], mem'["block"] = mem["block"],
           current' = current, Ends' = Ends,
           \/ save' = save
           \/ save.step \notin Saving /\ save'.step \notin Saving
           \/ /\ save.step \in Saving /\ save'.step \in Saving /\ save'.block = save.block
              /\ save'.step \in Trail("block") => save.step \in Trail("block")
    PROVE  GapsStay
<1>1. Gaps' = Gaps
  BY DEF Gaps
<1>2. Pending' <= Pending
  BY DEF Pending, Trail, Saving
<1> QED
  BY <1>1, <1>2 DEF GapsStay

LEMMA EndsSpent ==
    ASSUME Types, NEW f \in {"death", "lost"}, Spend(f)
    PROVE  Ends' = Ends + 1
  BY SpendTypes, NodeStoreAssumption DEF Types, Ends, Faults

LEMMA EndsKept ==
    ASSUME Types, NEW f \in {"stray", "loss"}, Spend(f)
    PROVE  Ends' = Ends
  BY SpendTypes DEF Ends, Faults

\* Each step of the save of a block.
LEMMA GapsSave ==
    ASSUME Types, Single, Follows, NEW t \in Tries,
           Update(t) \/ Commit(t) \/ Swap(t) \/ PutRoot(t)
    PROVE  GapsStay \/ GapsFilled
<1> USE DEF disk, tries, loops
<1>1. Ends' = Ends /\ current' = current
  BY DEF Update, Commit, Swap, PutRoot, Ends
<1>2. CASE t = "tx"
  <2>1. root'["block"] = root["block"] /\ mem'["block"] = mem["block"]
    BY <1>2 DEF Update, Commit, Swap, PutRoot, Types, Tries
  <2>2. /\ save.step \in {"txUpdate", "txCommit", "txRoot", "txSwap"}
        /\ save'.step \in {"txCommit", "txRoot", "txSwap", "check"}
    BY <1>2, AdvanceGoesOn, Order DEF Update, Commit, Swap, PutRoot, At, Steps,
       UpdateStep, CommitStep, SwapStep, RootStep
  <2> QED
    BY <1>1, <2>1, <2>2, GapsUntouched DEF Saving
<1>3. CASE t = "block" /\ Update(t)
  <2>1. /\ save.step = "update" /\ save'.step = "commit" /\ save'.block = save.block
        /\ root' = root /\ mem'["block"] = mem["block"] \cup {save.block}
    BY <1>3, AdvanceGoesOn, Order DEF Update, At, Steps, UpdateStep, Item, Types, Tries
  <2>2. Gaps' = Gaps
    BY <1>1, <2>1 DEF Gaps, Saving
  <2>3. Pending' = 0 /\ Pending = 0
    BY <2>1 DEF Pending, Trail
  <2> QED
    BY <1>1, <2>2, <2>3 DEF GapsStay
<1>4. CASE t = "block" /\ (Commit(t) \/ Swap(t))
  <2>1. /\ save.step \in {"commit", "swap"} /\ save'.step \in {"swap", "root"}
        /\ save'.block = save.block
        /\ root' = root /\ mem' = mem
    BY <1>4, AdvanceGoesOn, Order DEF Commit, Swap, At, Steps, CommitStep, SwapStep
  <2> QED
    BY <1>1, <2>1, GapsUntouched DEF Saving, Trail
<1>5. CASE t = "block" /\ PutRoot(t)
  <2>1. /\ save.step = "root" /\ save' = NoSave
        /\ root'["block"] = mem["block"] /\ mem' = mem
    BY <1>5, AdvanceGoesOn DEF PutRoot, At, Steps, RootStep, Types, Tries
  <2>2. Pending' = 0 /\ save'.step \notin Saving
    BY <2>1 DEF Pending, NoSave, Trail, Saving
  <2>3. save.block.index = current /\ save.block \in Block
    BY <2>1 DEF Single, Saving, Types, SaveType
  <2>4. root["block"] \subseteq mem["block"]
    BY DEF Follows, Mirror, Tries
  <2>5. \A h \in Gaps' : h = current \/ h \in Gaps
    BY <1>1, <2>1, <2>4 DEF Gaps
  <2>6. CASE save.block \in mem["block"]
    <3>1. current \notin Gaps'
      BY <1>1, <2>1, <2>3, <2>6 DEF Gaps
    <3> QED
      BY <1>1, <2>2, <2>5, <3>1 DEF GapsStay, Pending
  <2>7. CASE save.block \notin mem["block"]
    <3>1. Pending = 1
      BY <2>1, <2>7 DEF Pending, Trail
    <3> QED
      BY <1>1, <2>2, <2>5, <3>1 DEF GapsFilled
  <2> QED
    BY <2>6, <2>7
<1> QED
  BY <1>2, <1>3, <1>4, <1>5 DEF Tries

\* What is left of a save when the process stops.
LEMMA GapsStop ==
    ASSUME Types, Single, Stop
    PROVE  /\ Gaps' \subseteq Gaps \cup {current}
           /\ save.step \notin Saving => Gaps' \subseteq Gaps
           /\ Pending' = 0
  BY DEF Stop, disk, Gaps, Pending, NoSave, Saving, Trail

LEMMA GapsStep ==
    ASSUME Types, Single, Follows, Next
    PROVE  GapsStay \/ GapsPaid \/ GapsUndone \/ GapsFilled
<1> USE DEF disk, tries, loops
<1>1. CASE Propose
  BY <1>1, GapsUntouched, Order DEF Propose, Begin, StartSave, NoSave, Ends, Saving
<1>2. CASE CheckIndex
  <2>1. save.step = "check" /\ save'.step \in {"current", "idle"}
    BY <1>2, Order DEF CheckIndex, At, GoTo, NoSave, Types, SaveType
  <2> QED
    BY <1>2, <2>1, GapsUntouched DEF CheckIndex, Ends, Saving
<1>3. CASE SaveCurrentBlock
  <2>1. /\ save.step = "current" /\ save'.step = "last" /\ save.block.index = current + 1
        /\ current' = current + 1 /\ current \in Nat
        /\ root' = root /\ Ends' = Ends
    BY <1>3, Constants, Order DEF SaveCurrentBlock, At, Advance, GoTo, Single, Types,
       SaveType, Ends
  <2>2. Gaps' \subseteq Gaps
    BY <2>1 DEF Gaps, Saving
  <2>3. Pending' = 0 /\ Pending = 0
    BY <2>1 DEF Pending, Trail
  <2> QED
    BY <2>1, <2>2, <2>3 DEF GapsStay
<1>4. CASE SaveLastBlock
  <2>1. save.step = "last" /\ save'.step = "update" /\ save'.block = save.block
    BY <1>4, Order, AdvanceGoesOn DEF SaveLastBlock, At, Steps
  <2> QED
    BY <1>4, <2>1, GapsUntouched DEF SaveLastBlock, Ends, Saving, Trail
<1>5. ASSUME NEW t \in Tries, Update(t) \/ Commit(t) \/ Swap(t) \/ PutRoot(t)
      PROVE  GapsStay \/ GapsFilled
  BY <1>5, GapsSave
<1>6. CASE Grow \/ Restart
  BY <1>6, GapsUntouched DEF Grow, Restart, Ends
<1>7. CASE Die
  BY <1>7, EndsSpent, GapsStop DEF Die, GapsPaid
<1>8. ASSUME NEW p \in Peers, NEW k \in Heights, BlockArrives(p, k)
      PROVE  GapsStay
  BY <1>8, GapsUntouched, Order DEF BlockArrives, Begin, StartSave, NoSave, Ends, Saving
<1>9. ASSUME NEW p \in Peers, NEW k \in Heights, ClaimBegin(p, k)
      PROVE  GapsStay
  BY <1>9, GapsUntouched DEF ClaimBegin, Ends
<1>10. ASSUME NEW p \in Peers, NEW t \in Tries, ReadBegin(p, t)
       PROVE  GapsStay
  BY <1>10, GapsUntouched DEF ReadBegin, Ends
<1>11. ASSUME NEW p \in Peers, ReadEnd(p) \/ ClaimPut(p)
       PROVE  GapsStay
  BY <1>11, GapsUntouched DEF ReadEnd, ClaimPut, Ends
<1>12. ASSUME NEW p \in Peers, ReadEndUndoes(p)
       PROVE  GapsUndone
  <2>1. Gaps' = Gaps
    BY <1>12 DEF ReadEndUndoes, Gaps
  <2> QED
    BY <1>12, <2>1, EndsSpent DEF ReadEndUndoes, GapsUndone
<1>13. ASSUME NEW t \in Tries, CommitPanics(t)
       PROVE  GapsStay \/ GapsFilled
  <2>1. Ends' = Ends /\ Stop
    BY <1>13 DEF CommitPanics, Ends
  <2>2. CASE t = "tx"
    <3>1. save.step \notin Saving
      BY <1>13, <2>2 DEF CommitPanics, At, CommitStep, Saving
    <3> QED
      BY <2>1, <3>1, GapsStop DEF GapsStay, Pending
  <2>3. CASE t = "block"
    <3>1. Pending = 1
      BY <1>13, <2>3 DEF CommitPanics, At, CommitStep, Item, Pending, Trail
    <3> QED
      BY <2>1, <3>1, GapsStop DEF GapsFilled
  <2> QED
    BY <2>2, <2>3 DEF Tries
<1>14. ASSUME NEW b \in Block, SendProposal(b)
       PROVE  GapsStay
  BY <1>14, GapsUntouched DEF SendProposal, Ends
<1>15. ASSUME NEW b \in Block, LoseProposal(b)
       PROVE  GapsStay
  <2>1. Ends' = Ends
    BY <1>15, EndsKept DEF LoseProposal
  <2> QED
    BY <1>15, <2>1, GapsUntouched DEF LoseProposal
<1>16. CASE LoopFails
  <2>1. Ends' = Ends
    BY <1>16, EndsKept DEF LoopFails
  <2> QED
    BY <1>16, <2>1, GapsUntouched DEF LoopFails, At, NoSave, Saving
<1>17. ASSUME NEW p \in Peers, NEW k \in Heights, BlockStrays(p, k)
       PROVE  GapsStay
  <2>1. Ends' = Ends
    BY <1>17, EndsKept DEF BlockStrays
  <2>2. save.step \notin Saving /\ save'.step \notin Saving
    BY <1>17, StraysGoesOn DEF Saving
  <2> QED
    BY <1>17, <2>1, <2>2, GapsUntouched DEF BlockStrays
<1> QED
  BY <1>1, <1>2, <1>3, <1>4, <1>5, <1>6, <1>7, <1>8, <1>9, <1>10, <1>11, <1>12,
     <1>13, <1>14, <1>15, <1>16, <1>17 DEF Next, SaveStep

\* The two invariants of the store together.
LEMMA StoreFollows == Spec => [](Types /\ Single /\ Follows)
<1>1. Init => Follows
  BY FollowsInit
<1>2. (Types /\ Single) /\ Follows /\ [Next]_vars => Follows'
  BY FollowsStep
<1> QED
  BY <1>1, <1>2, StoreInvariance, PTL DEF Spec

\* A block is missing under CURRENT_BLOCK only for a death of the process or a
\* concurrent reader that undid its update, one for each (SaveBlockToTrie).
THEOREM LosesForFaultsOnly == Spec => []HolesAreFaults
<1>1. Types /\ Single /\ GapsAreFaults => HolesAreFaults
  <2> SUFFICES ASSUME Types, Single, GapsAreFaults PROVE HolesAreFaults
    OBVIOUS
  <2>1. Holes \subseteq Gaps
    BY DEF Holes, Gaps, Single
  <2>2. Cardinality(Holes) <= Cardinality(Gaps) /\ Cardinality(Gaps) \in Nat
        /\ Cardinality(Holes) \in Nat
    BY <2>1, Grows DEF GapsAreFaults
  <2>3. Pending \in {0, 1} /\ Ends \in Int
    BY NodeStoreAssumption DEF Pending, Ends, Types, Faults
  <2> HIDE DEF Holes, Gaps, Pending, Ends
  <2> QED
    BY <2>2, <2>3 DEF GapsAreFaults, HolesAreFaults
<1>2. (Types /\ Single /\ Follows) /\ GapsAreFaults /\ [Next]_vars => GapsAreFaults'
  <2> SUFFICES ASSUME Types, Single, Follows, GapsAreFaults, [Next]_vars
               PROVE  GapsAreFaults'
    OBVIOUS
  <2>1. CASE Next
    BY <2>1, GapsStep, GapsCount
  <2>2. CASE UNCHANGED vars
    BY <2>2, GapsUntouched, GapsCount DEF vars, disk, tries, Ends
  <2> QED
    BY <2>1, <2>2
<1> QED
  BY <1>1, <1>2, GapsInit, StoreFollows, PTL DEF Spec

-----------------------------------------------------------------------------
(* A block comes with its transactions.                                     *)

\* The blocks in LevelDB whose transaction is not.
RootBare == {b \in root["block"] \ {Genesis} : TxOf(b) \notin root["tx"]}

\* The steps of a save once its transaction is, or should be, in LevelDB.
TxSaved == {"txSwap", "check", "current", "last", "update", "commit", "swap", "root"}

\* The block that is being saved will be without its transaction: a reader has
\* undone the save of it, its sender could not pay, or another one is saved.
PendingTx ==
    IF \/ save.step = "txUpdate" /\ save.tx # TxOf(save.block)
       \/ save.step \in Trail("tx") /\ TxOf(save.block) \notin mem["tx"]
       \/ save.step \in TxSaved /\ TxOf(save.block) \notin root["tx"]
    THEN 1 ELSE 0

Undone == (MaxLost - budget.lost) + (MaxStrays - budget.stray)

BareAreFaults == IsFiniteSet(RootBare) /\ Cardinality(RootBare) + PendingTx <= Undone

BareStay == RootBare' \subseteq RootBare /\ PendingTx' <= PendingTx /\ Undone' = Undone

BareUndone == RootBare' \subseteq RootBare /\ Undone' = Undone + 1

BareFilled ==
    /\ RootBare' \subseteq RootBare \cup {save.block}
    /\ PendingTx = 1 /\ PendingTx' = 0 /\ Undone' = Undone

LEMMA BareInit == Init => BareAreFaults
<1> SUFFICES ASSUME Init PROVE BareAreFaults
  OBVIOUS
<1>1. RootBare = {} /\ Undone = 0 /\ PendingTx = 0
  BY NodeStoreAssumption DEF Init, RootBare, Undone, PendingTx, NoSave, Trail, TxSaved
<1> QED
  BY <1>1, FS_EmptySet DEF BareAreFaults

LEMMA BareCount ==
    ASSUME Types, BareAreFaults, BareStay \/ BareUndone \/ BareFilled
    PROVE  BareAreFaults'
<1>1. /\ IsFiniteSet(RootBare') /\ Cardinality(RootBare) \in Nat
      /\ Cardinality(RootBare') \in Nat
      /\ RootBare' \subseteq RootBare => Cardinality(RootBare') <= Cardinality(RootBare)
      /\ Cardinality(RootBare') <= Cardinality(RootBare) + 1
  BY Grows DEF BareAreFaults, BareStay, BareUndone, BareFilled
<1>2. PendingTx \in {0, 1} /\ PendingTx' \in {0, 1} /\ Undone \in Int
  BY NodeStoreAssumption DEF PendingTx, Undone, Types, Faults
<1> HIDE DEF RootBare, PendingTx, Undone
<1> QED
  BY <1>1, <1>2 DEF BareAreFaults, BareStay, BareUndone, BareFilled

\* The steps that leave both tries alone, and the save or its transaction.
LEMMA BareUntouched ==
    ASSUME Types, root' = root, mem' = mem, Undone' = Undone,
           \/ save' = save
           \/ save'.step \notin Trail("tx") \cup TxSaved \cup {"txUpdate"}
           \/ /\ save.step \in Trail("tx") /\ save'.step \in Trail("tx")
              /\ save'.block = save.block
           \/ /\ save.step \in TxSaved /\ save'.step \in TxSaved
              /\ save'.block = save.block
    PROVE  BareStay
<1>1. RootBare' = RootBare
  BY DEF RootBare
<1>2. TxSaved \cap Trail("tx") = {} /\ "txUpdate" \notin TxSaved \cup Trail("tx")
  BY DEF TxSaved, Trail
<1>3. save'.block = save.block => TxOf(save'.block) = TxOf(save.block)
  OBVIOUS
<1>4. PendingTx' <= PendingTx
  <2> HIDE DEF TxSaved, Trail, TxOf
  <2> QED
    BY <1>2, <1>3 DEF PendingTx
<1> QED
  BY <1>1, <1>4 DEF BareStay

LEMMA BareBegin ==
    ASSUME Types, Follows, NEW b, NEW p, Begin(b, p), root' = root, mem' = mem,
           budget' = budget
    PROVE  BareStay
<1>1. RootBare' = RootBare /\ Undone' = Undone
  BY DEF RootBare, Undone
<1>2. mem["tx"] = root["tx"]
  BY CalmTries DEF Begin, StartSave, NoSave, Calm, Tries
<1>3. /\ save'.block = b /\ save'.tx = TxOf(b)
      /\ \/ save'.step = "check" /\ TxOf(b) \in mem["tx"]
         \/ save'.step = "txUpdate"
  BY Order DEF Begin, StartSave
<1>4. TxOf(save'.block) = TxOf(b)
  BY <1>3
<1>5. PendingTx' = 0
  BY <1>2, <1>3, <1>4 DEF PendingTx, Trail, TxSaved
<1> QED
  BY <1>1, <1>5 DEF BareStay, PendingTx

LEMMA BareSave ==
    ASSUME Types, Follows, NEW t \in Tries,
           Update(t) \/ Commit(t) \/ Swap(t) \/ PutRoot(t)
    PROVE  BareStay \/ BareFilled
<1> USE DEF disk, tries, loops
<1>1. Undone' = Undone
  BY DEF Update, Commit, Swap, PutRoot, Undone
<1>2. save.step \in Steps \ {"begin", "check", "current"} /\ Advance
  BY DEF Update, Commit, Swap, PutRoot, At, Steps, Tries, UpdateStep, CommitStep,
     SwapStep, RootStep
<1>3. /\ save.step # "root" => /\ save'.step = After[save.step]
                              /\ save'.block = save.block /\ save'.tx = save.tx
      /\ save.step = "root" => save' = NoSave
  BY <1>2, AdvanceGoesOn
<1>4. CASE t = "tx" /\ Update(t)
  <2>1. /\ save.step = "txUpdate" /\ save'.step = "txCommit"
        /\ save'.block = save.block /\ root' = root
        /\ mem'["tx"] = mem["tx"] \cup {save.tx}
    BY <1>3, <1>4, Order DEF Update, At, UpdateStep, Item, Types, Tries
  <2>2. RootBare' = RootBare
    BY <2>1 DEF RootBare
  <2>3. TxOf(save'.block) = TxOf(save.block)
    BY <2>1
  <2>4. CASE save.tx = TxOf(save.block)
    <3>1. PendingTx' = 0
      BY <2>1, <2>3, <2>4 DEF PendingTx, Trail, TxSaved
    <3> QED
      BY <1>1, <2>2, <3>1 DEF BareStay, PendingTx
  <2>5. CASE save.tx # TxOf(save.block)
    <3>1. PendingTx = 1
      BY <2>1, <2>5 DEF PendingTx
    <3> QED
      BY <1>1, <2>2, <3>1 DEF BareStay, PendingTx
  <2> QED
    BY <2>4, <2>5
<1>5. CASE t = "block" /\ Update(t)
  <2>1. /\ save.step = "update" /\ save'.step = "commit" /\ save'.block = save.block
        /\ root' = root
    BY <1>3, <1>5, Order DEF Update, At, UpdateStep
  <2>2. RootBare' = RootBare
    BY <2>1 DEF RootBare
  <2>3. TxOf(save'.block) = TxOf(save.block)
    BY <2>1
  <2>4. PendingTx' = PendingTx
    BY <2>1, <2>3 DEF PendingTx, Trail, TxSaved
  <2> QED
    BY <1>1, <2>2, <2>4 DEF BareStay, PendingTx
<1>6. CASE Commit(t) \/ Swap(t)
  <2>1. /\ \/ save.step = "txCommit" /\ save'.step = "txRoot"
           \/ save.step = "txSwap" /\ save'.step = "check"
           \/ save.step = "commit" /\ save'.step = "swap"
           \/ save.step = "swap" /\ save'.step = "root"
        /\ save'.block = save.block /\ root' = root /\ mem' = mem
    BY <1>3, <1>6, Order DEF Commit, Swap, At, CommitStep, SwapStep, Tries
  <2> QED
    BY <1>1, <2>1, BareUntouched DEF Trail, TxSaved
<1>7. CASE t = "tx" /\ PutRoot(t)
  <2>1. /\ save.step = "txRoot" /\ save'.step = "txSwap" /\ save'.block = save.block
        /\ root'["tx"] = mem["tx"] /\ root'["block"] = root["block"]
    BY <1>3, <1>7, Order DEF PutRoot, At, RootStep, Types, Tries
  <2>2. root["tx"] \subseteq mem["tx"]
    BY DEF Follows, Mirror, Tries
  <2>3. RootBare' \subseteq RootBare
    BY <2>1, <2>2 DEF RootBare
  <2>4. TxOf(save'.block) = TxOf(save.block)
    BY <2>1
  <2>5. PendingTx' = PendingTx
    BY <2>1, <2>4 DEF PendingTx, Trail, TxSaved
  <2> QED
    BY <1>1, <2>3, <2>5 DEF BareStay, PendingTx
<1>8. CASE t = "block" /\ PutRoot(t)
  <2>1. /\ save.step = "root" /\ save' = NoSave
        /\ root'["block"] = mem["block"] /\ root'["tx"] = root["tx"]
    BY <1>3, <1>8 DEF PutRoot, At, RootStep, Types, Tries
  <2>2. mem["block"] \subseteq root["block"] \cup {save.block}
    BY DEF Follows, Mirror, Item, Tries
  <2>3. PendingTx' = 0
    BY <2>1 DEF PendingTx, NoSave, Trail, TxSaved
  <2>4. \A b \in RootBare' : b \in RootBare \/ (b = save.block /\ TxOf(b) \notin root["tx"])
    BY <2>1, <2>2 DEF RootBare
  <2>5. CASE TxOf(save.block) \in root["tx"]
    BY <1>1, <2>3, <2>4, <2>5 DEF BareStay, PendingTx
  <2>6. CASE TxOf(save.block) \notin root["tx"]
    <3>1. PendingTx = 1
      BY <2>1, <2>6 DEF PendingTx, TxSaved
    <3> QED
      BY <1>1, <2>3, <2>4, <3>1 DEF BareFilled
  <2> QED
    BY <2>5, <2>6
<1> QED
  BY <1>4, <1>5, <1>6, <1>7, <1>8 DEF Tries

LEMMA BareStop ==
    ASSUME Stop, Undone' = Undone
    PROVE  BareStay
<1>1. RootBare' = RootBare /\ PendingTx' = 0
  BY DEF Stop, disk, RootBare, PendingTx, NoSave, Trail, TxSaved
<1> QED
  BY <1>1 DEF BareStay, PendingTx

LEMMA BareStep ==
    ASSUME Types, Follows, Next
    PROVE  BareStay \/ BareUndone \/ BareFilled
<1> USE DEF disk, tries, loops
<1>1. CASE Propose
  BY <1>1, BareBegin DEF Propose
<1>2. CASE CheckIndex
  <2>1. /\ save.step = "check"
        /\ \/ save'.step = "current" /\ save'.block = save.block
           \/ save'.step = "idle"
    BY <1>2, Order DEF CheckIndex, At, GoTo, NoSave, Types, SaveType
  <2> QED
    BY <1>2, <2>1, BareUntouched DEF CheckIndex, Undone, Trail, TxSaved
<1>3. CASE SaveCurrentBlock \/ SaveLastBlock
  <2>1. /\ save.step \in TxSaved /\ save'.step \in TxSaved /\ save'.block = save.block
    BY <1>3, Order DEF SaveCurrentBlock, SaveLastBlock, At, Advance, GoTo, Types,
       SaveType, TxSaved
  <2> QED
    BY <1>3, <2>1, BareUntouched DEF SaveCurrentBlock, SaveLastBlock, Undone
<1>4. ASSUME NEW t \in Tries, Update(t) \/ Commit(t) \/ Swap(t) \/ PutRoot(t)
      PROVE  BareStay \/ BareFilled
  BY <1>4, BareSave
<1>5. CASE Grow \/ Restart
  BY <1>5, BareUntouched DEF Grow, Restart, Undone
<1>6. CASE Die
  <2>1. Undone' = Undone
    BY <1>6, SpendTypes DEF Die, Undone, Faults
  <2> QED
    BY <1>6, <2>1, BareStop DEF Die
<1>7. ASSUME NEW p \in Peers, NEW k \in Heights, BlockArrives(p, k)
      PROVE  BareStay
  BY <1>7, BareBegin DEF BlockArrives
<1>8. ASSUME NEW p \in Peers, NEW k \in Heights, ClaimBegin(p, k)
      PROVE  BareStay
  BY <1>8, BareUntouched DEF ClaimBegin, Undone
<1>9. ASSUME NEW p \in Peers, NEW t \in Tries, ReadBegin(p, t)
      PROVE  BareStay
  BY <1>9, BareUntouched DEF ReadBegin, Undone
<1>10. ASSUME NEW p \in Peers, ReadEnd(p) \/ ClaimPut(p)
       PROVE  BareStay
  BY <1>10, BareUntouched DEF ReadEnd, ClaimPut, Undone
<1>11. ASSUME NEW p \in Peers, ReadEndUndoes(p)
       PROVE  BareUndone
  <2>1. RootBare' = RootBare
    BY <1>11 DEF ReadEndUndoes, RootBare
  <2>2. Undone' = Undone + 1
    BY <1>11, SpendTypes, NodeStoreAssumption DEF ReadEndUndoes, Undone, Types, Faults
  <2> QED
    BY <2>1, <2>2 DEF BareUndone
<1>12. ASSUME NEW t \in Tries, CommitPanics(t)
       PROVE  BareStay
  BY <1>12, BareStop DEF CommitPanics, Undone
<1>13. ASSUME NEW b \in Block, SendProposal(b)
       PROVE  BareStay
  BY <1>13, BareUntouched DEF SendProposal, Undone
<1>14. ASSUME NEW b \in Block, LoseProposal(b)
       PROVE  BareStay
  <2>1. Undone' = Undone
    BY <1>14, SpendTypes DEF LoseProposal, Undone, Faults
  <2> QED
    BY <1>14, <2>1, BareUntouched DEF LoseProposal
<1>15. CASE LoopFails
  <2>1. Undone' = Undone
    BY <1>15, SpendTypes DEF LoopFails, Undone, Faults
  <2>2. save'.step \notin Trail("tx") \cup TxSaved \cup {"txUpdate"}
    BY <1>15 DEF LoopFails, NoSave, Trail, TxSaved
  <2> QED
    BY <1>15, <2>1, <2>2, BareUntouched DEF LoopFails
<1>16. ASSUME NEW p \in Peers, NEW k \in Heights, BlockStrays(p, k)
       PROVE  BareUndone
  <2>1. RootBare' = RootBare
    BY <1>16 DEF BlockStrays, RootBare
  <2>2. Undone' = Undone + 1
    BY <1>16, SpendTypes, NodeStoreAssumption DEF BlockStrays, Undone, Types, Faults
  <2> QED
    BY <2>1, <2>2 DEF BareUndone
<1> QED
  BY <1>1, <1>2, <1>3, <1>4, <1>5, <1>6, <1>7, <1>8, <1>9, <1>10, <1>11, <1>12,
     <1>13, <1>14, <1>15, <1>16 DEF Next, SaveStep

\* A block that a peer can get lists only transactions that it can get too,
\* but for one block for each save that a concurrent reader undid, each sender
\* that could not pay and each fetch that returned another transaction
\* (ProcessTransactionsByIDs and ProcessMempoolTransactions end before
\* SaveBlockToTrie begins): no death, error or late block adds one.
THEOREM TransactionsComeFirst == Spec => []BlocksComeWithTransactions
<1>1. Types /\ Follows /\ BareAreFaults => BlocksComeWithTransactions
  <2> SUFFICES ASSUME Types, Follows, BareAreFaults PROVE BlocksComeWithTransactions
    OBVIOUS
  <2> DEFINE bare == {b \in mem.block \ {Genesis} : TxOf(b) \notin mem.tx}
  <2>1. /\ root["tx"] \subseteq mem["tx"]
        /\ mem["block"] \subseteq root["block"] \cup {save.block}
        /\ save.step \notin Trail("block") => mem["block"] = root["block"]
    BY DEF Follows, Mirror, Item, Tries
  <2>2. ~(bare \subseteq RootBare) => PendingTx = 1
    <3> SUFFICES ASSUME ~(bare \subseteq RootBare) PROVE PendingTx = 1
      OBVIOUS
    <3>1. save.step \in Trail("block") /\ TxOf(save.block) \notin mem["tx"]
      BY <2>1 DEF RootBare
    <3> QED
      BY <2>1, <3>1 DEF PendingTx, Trail, TxSaved
  <2>3. bare \subseteq RootBare \cup {save.block}
    BY <2>1 DEF RootBare
  <2>4. Cardinality(bare) <= Undone
    <3>1. /\ bare \subseteq RootBare => Cardinality(bare) <= Cardinality(RootBare)
          /\ Cardinality(bare) <= Cardinality(RootBare) + 1 /\ Cardinality(bare) \in Nat
          /\ Cardinality(RootBare) \in Nat
      BY <2>3, Grows DEF BareAreFaults
    <3>2. PendingTx \in {0, 1} /\ Undone \in Int
      BY NodeStoreAssumption DEF PendingTx, Undone, Types, Faults
    <3> HIDE DEF bare, RootBare, PendingTx, Undone
    <3> QED
      BY <2>2, <3>1, <3>2 DEF BareAreFaults
  <2> QED
    BY <2>4 DEF BlocksComeWithTransactions, Undone
<1>2. (Types /\ Single /\ Follows) /\ BareAreFaults /\ [Next]_vars => BareAreFaults'
  <2> SUFFICES ASSUME Types, Follows, BareAreFaults, [Next]_vars
               PROVE  BareAreFaults'
    OBVIOUS
  <2>1. CASE Next
    BY <2>1, BareStep, BareCount
  <2>2. CASE UNCHANGED vars
    BY <2>2, BareUntouched, BareCount DEF vars, disk, tries, Undone
  <2> QED
    BY <2>1, <2>2
<1> QED
  BY <1>1, <1>2, BareInit, StoreFollows, PTL DEF Spec

=============================================================================
