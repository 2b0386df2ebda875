-------------------------- MODULE BlockSyncProofs ---------------------------
(***************************************************************************)
(* Theorems about block synchronisation, for every set of nodes, every     *)
(* height and every number of faults.                                      *)
(***************************************************************************)
EXTENDS BlockSync, Counting, SequenceTheorems, TLAPS

-----------------------------------------------------------------------------
(* The turn.                                                                *)

\* From the third height on the subtraction of CheckProposalCondition does
\* not wrap, and two nodes with the turn are one.
LEMMA OneTurn ==
    ASSUME NEW c \in Nat, c >= 2,
           NEW i \in ConfigNodes, NEW j \in ConfigNodes,
           Eligible(c, i), Eligible(c, j)
    PROVE  i = j
<1>1. UintSub(c + 1, i) = c + 1 - i /\ UintSub(c + 1, j) = c + 1 - j
  BY DEF UintSub, ConfigNodes
<1>2. (c + 1 - i) % 3 = 0 /\ (c + 1 - j) % 3 = 0
  BY <1>1 DEF Eligible
<1> QED
  BY <1>2 DEF ConfigNodes

-----------------------------------------------------------------------------
(* Channels: whatever the messages range over, the operations keep to it.   *)

ChansOver(S) == chan \in [Links -> Seq(S)]

LEMMA SendChans ==
    ASSUME NEW S, ChansOver(S), NEW n \in Nodes, NEW p \in Nodes,
           NEW m \in S, Send(n, p, m)
    PROVE  chan' \in [Links -> Seq(S)]
<1>1. <<n, p>> \in Links
  BY DEF Links
<1>2. Append(chan[<<n, p>>], m) \in Seq(S)
  BY <1>1, AppendProperties DEF ChansOver
<1> QED
  BY <1>1, <1>2 DEF ChansOver, Send

LEMMA DropChans ==
    ASSUME NEW S, ChansOver(S), NEW n \in Nodes, NEW p \in Nodes,
           chan[<<p, n>>] # <<>>, Drop(n, p)
    PROVE  chan' \in [Links -> Seq(S)]
<1>1. <<p, n>> \in Links
  BY DEF Links
<1>2. Tail(chan[<<p, n>>]) \in Seq(S)
  BY <1>1, HeadTailProperties DEF ChansOver
<1> QED
  BY <1>1, <1>2 DEF ChansOver, Drop

LEMMA ReplyChans ==
    ASSUME NEW S, ChansOver(S), NEW n \in Nodes, NEW p \in Nodes,
           NEW m \in S, chan[<<p, n>>] # <<>>, Reply(n, p, m)
    PROVE  chan' \in [Links -> Seq(S)]
<1>1. <<p, n>> \in Links /\ <<n, p>> \in Links
  BY DEF Links
<1>2. Tail(chan[<<p, n>>]) \in Seq(S)
  BY <1>1, HeadTailProperties DEF ChansOver
<1>3. Append(chan[<<n, p>>], m) \in Seq(S)
  BY <1>1, AppendProperties DEF ChansOver
<1> QED
  BY <1>1, <1>2, <1>3 DEF ChansOver, Reply

LEMMA ClearedChans ==
    ASSUME NEW S, ChansOver(S), NEW gone, chan' = Cleared(gone)
    PROVE  chan' \in [Links -> Seq(S)]
<1>1. <<>> \in Seq(S)
  BY EmptySeq
<1> QED
  BY <1>1 DEF ChansOver, Cleared

LEMMA ReadsOver ==
    ASSUME NEW S, ChansOver(S), NEW n \in Nodes, NEW p \in Nodes,
           NEW m, Reads(n, p, m)
    PROVE  m \in S /\ chan[<<p, n>>] # <<>>
<1>1. <<p, n>> \in Links
  BY DEF Links
<1> QED
  BY <1>1, HeadTailProperties DEF ChansOver, Reads

LEMMA ChansGrow ==
    ASSUME NEW S, NEW T, S \subseteq T, ChansOver(S)
    PROVE  ChansOver(T)
<1>1. Seq(S) \subseteq Seq(T)
  BY SeqMonotonic
<1> QED
  BY <1>1 DEF ChansOver

\* The same for the blocks that receive loops are about to Put.
LEMMA PendingStep ==
    ASSUME NEW S, pending \in [Links -> S \cup {NoBlock}],
           \/ \E loops : NoPutBy(loops)
           \/ \E n \in Nodes : \E b : SaveBlockToTrie(n, b)
           \/ \E l \in Links, b \in S \cup {NoBlock} : pending' = [pending EXCEPT ![l] = b]
           \/ UNCHANGED pending
    PROVE  pending' \in [Links -> S \cup {NoBlock}]
<1>1. ASSUME NEW loops, NoPutBy(loops)
      PROVE  pending' \in [Links -> S \cup {NoBlock}]
  BY <1>1 DEF NoPutBy
<1>2. ASSUME NEW n \in Nodes, NEW b, SaveBlockToTrie(n, b)
      PROVE  pending' \in [Links -> S \cup {NoBlock}]
  BY <1>1, <1>2 DEF SaveBlockToTrie
<1> QED
  BY <1>1, <1>2

-----------------------------------------------------------------------------
(* Type correctness.  What an action does to each variable keeps its type;  *)
(* a running node has a genesis block because Start saves one.              *)

DiskTypeOK ==
    /\ current \in [Nodes -> Block \cup {NoBlock}]
    /\ last \in [Nodes -> Block \cup {NoBlock}]
    /\ trie \in [Nodes -> [Heights -> Block \cup {NoBlock}]]

LEMMA GenesisIsBlock == \A n \in Nodes : Genesis(n) \in Block
  BY BlockSyncAssumption DEF Genesis, Block, Heights

LEMMA SaveGenesisType ==
    ASSUME DiskTypeOK, NEW n \in Nodes, SaveGenesis(n)
    PROVE  DiskTypeOK'
<1>1. Genesis(n) \in Block /\ 0 \in Heights
  BY GenesisIsBlock, BlockSyncAssumption DEF Heights
<1> QED
  BY <1>1 DEF DiskTypeOK, SaveGenesis

\* What a receive loop was about to write is a block.
LEMMA DeathKeepsLast ==
    ASSUME last \in [Nodes -> Block \cup {NoBlock}],
           pending \in [Links -> Block \cup {NoBlock}],
           NEW n \in Nodes, LastAtDeath(n)
    PROVE  /\ last' \in [Nodes -> Block \cup {NoBlock}]
           /\ \A p \in Nodes : last[p] # NoBlock => last'[p] # NoBlock
           /\ \A p \in Nodes : p # n => last'[p] = last[p]
<1>1. CASE last' = last
  BY <1>1
<1>2. CASE \E p \in Nodes : /\ pending[<<n, p>>] # NoBlock
                            /\ last' = [last EXCEPT ![n] = pending[<<n, p>>]]
  <2> PICK p \in Nodes : /\ pending[<<n, p>>] # NoBlock
                         /\ last' = [last EXCEPT ![n] = pending[<<n, p>>]]
    BY <1>2
  <2>1. pending[<<n, p>>] \in Block \cup {NoBlock}
    BY DEF Links
  <2> QED
    BY <2>1
<1> QED
  BY <1>1, <1>2 DEF LastAtDeath

LEMMA SaveBlockType ==
    ASSUME DiskTypeOK, pending \in [Links -> Block \cup {NoBlock}],
           NEW n \in Nodes, NEW b \in Block,
           SaveBlockToTrie(n, b) \/ SaveBlockToTrieCut(n, b)
    PROVE  DiskTypeOK'
<1>1. b.index \in Heights
  BY DEF Block
<1>2. current' \in [Nodes -> Block \cup {NoBlock}]
  BY DEF DiskTypeOK, SaveBlockToTrie, SaveBlockToTrieCut
<1>3. last' \in [Nodes -> Block \cup {NoBlock}]
  BY DeathKeepsLast DEF DiskTypeOK, SaveBlockToTrie, SaveBlockToTrieCut
<1>4. trie' \in [Nodes -> [Heights -> Block \cup {NoBlock}]]
  <2>1. CASE SaveBlockToTrie(n, b)
    <3> DEFINE row == [trie[n] EXCEPT ![b.index] = b]
    <3>1. row \in [Heights -> Block \cup {NoBlock}]
      BY <1>1 DEF DiskTypeOK
    <3>2. trie' = [trie EXCEPT ![n] = row]
      BY <2>1 DEF SaveBlockToTrie
    <3> QED
      BY <3>1, <3>2 DEF DiskTypeOK
  <2>2. CASE SaveBlockToTrieCut(n, b)
    BY <2>2 DEF DiskTypeOK, SaveBlockToTrieCut
  <2> QED
    BY <2>1, <2>2
<1> QED
  BY <1>2, <1>3, <1>4 DEF DiskTypeOK

\* A node that has CURRENT_BLOCK and LAST_BLOCK keeps having them.
LEMMA SaveBlockKeeps ==
    ASSUME DiskTypeOK, pending \in [Links -> Block \cup {NoBlock}],
           NEW n \in Nodes, NEW b \in Block,
           SaveBlockToTrie(n, b) \/ SaveBlockToTrieCut(n, b),
           NEW p \in Nodes, current[p] # NoBlock, last[p] # NoBlock
    PROVE  current'[p] # NoBlock /\ last'[p] # NoBlock
<1>1. current'[p] # NoBlock
  BY BlockSyncAssumption DEF DiskTypeOK, SaveBlockToTrie, SaveBlockToTrieCut
<1>2. CASE LastAtDeath(n)
  <2>1. last'[p] # NoBlock
    BY <1>2, DeathKeepsLast DEF DiskTypeOK
  <2> QED
    BY <1>1, <2>1
<1>3. CASE ~LastAtDeath(n)
  BY <1>1, <1>3, BlockSyncAssumption DEF DiskTypeOK, SaveBlockToTrie, SaveBlockToTrieCut
<1> QED
  BY <1>2, <1>3

LEMMA SpendType ==
    ASSUME NEW fault \in {"crash", "cut", "hangup", "loss"}, Spend(fault),
           budget \in [{"crash", "cut", "hangup", "loss"} -> Nat]
    PROVE  budget' \in [{"crash", "cut", "hangup", "loss"} -> Nat]
<1>1. budget[fault] - 1 \in Nat
  BY DEF Spend
<1> QED
  BY <1>1 DEF Spend

-----------------------------------------------------------------------------
(* What every run has: typed variables, connections between running nodes,  *)
(* messages on connections only, and a genesis block below the rest.        *)

ConnsUp == \A c \in conns : \A n \in c : n \in Nodes /\ up[n]

ChansConnected ==
    \A n, p \in Nodes : chan[<<n, p>>] # <<>> => Connected(n, p)

Started ==
    \A n \in Nodes :
        /\ up[n] => trie[n][0] # NoBlock
        /\ trie[n][0] # NoBlock => current[n] # NoBlock /\ last[n] # NoBlock

Basic == TypeOK /\ ConnsUp /\ ChansConnected /\ Started

LEMMA ConnectedUp ==
    ASSUME Basic, NEW n \in Nodes, NEW p \in Nodes, Connected(n, p)
    PROVE  /\ up[n]
           /\ current[n] \in Block /\ last[n] \in Block
           /\ trie[n][0] # NoBlock
  BY DEF Basic, TypeOK, ConnsUp, Started, Connected

LEMMA ReadsConnected ==
    ASSUME Basic, NEW n \in Nodes, NEW p \in Nodes, NEW m, Reads(n, p, m)
    PROVE  Connected(n, p) /\ m \in MessagesOver(Block)
<1>1. chan[<<p, n>>] # <<>>
  BY DEF Reads
<1>2. {p, n} = {n, p}
  OBVIOUS
<1>3. ChansOver(MessagesOver(Block))
  BY DEF Basic, TypeOK, ChansOver
<1> QED
  BY <1>1, <1>2, <1>3, ReadsOver DEF Basic, ChansConnected, Connected

\* A death leaves connections of running nodes, and their messages, behind.
LEMMA DieBasic ==
    ASSUME Basic, NEW n \in Nodes, Die(n)
    PROVE  /\ up' \in [Nodes -> BOOLEAN]
           /\ \A p \in Nodes : up'[p] => up[p]
           /\ conns' \subseteq SUBSET Nodes
           /\ orphan' \in [Nodes -> BOOLEAN]
           /\ pending' \in [Links -> Block \cup {NoBlock}]
           /\ chan' \in [Links -> Seq(MessagesOver(Block))]
           /\ ConnsUp'
           /\ ChansConnected'
<1> USE DEF Basic, TypeOK
<1>1. up' \in [Nodes -> BOOLEAN] /\ conns' \subseteq SUBSET Nodes
  BY DEF Die
<1>2. orphan' \in [Nodes -> BOOLEAN]
  BY DEF Die
<1>3. \A p \in Nodes : up'[p] => up[p]
  BY DEF Die
<1>4. chan' \in [Links -> Seq(MessagesOver(Block))]
  BY ClearedChans DEF ChansOver, Die
<1>5. ConnsUp' /\ pending' \in [Links -> Block \cup {NoBlock}]
  BY PendingStep DEF ConnsUp, Die
<1>6. ChansConnected'
  <2> SUFFICES ASSUME NEW p \in Nodes, NEW q \in Nodes, chan'[<<p, q>>] # <<>>
               PROVE  {p, q} \in conns'
    BY DEF ChansConnected, Connected
  <2>1. <<p, q>> \in Links
    BY DEF Links
  <2> DEFINE gone == {c \in conns : n \in c}
  <2>2. chan'[<<p, q>>] = IF {p, q} \in gone THEN <<>> ELSE chan[<<p, q>>]
    BY <2>1 DEF Die, Cleared
  <2>3. {p, q} \notin gone /\ chan[<<p, q>>] # <<>>
    BY <2>2
  <2>4. {p, q} \in conns
    BY <2>3 DEF ChansConnected, Connected
  <2> QED
    BY <2>3, <2>4 DEF Die
<1> QED
  BY <1>1, <1>2, <1>3, <1>4, <1>5, <1>6

LEMMA InitBasic == Init => Basic
<1> SUFFICES ASSUME Init PROVE Basic
  OBVIOUS
<1>1. \A l \in Links : chan[l] = <<>> /\ chan[l] \in Seq(MessagesOver(Block))
  BY EmptySeq DEF Init
<1>2. chan \in [Links -> Seq(MessagesOver(Block))]
  BY <1>1 DEF Init
<1>3. budget \in [{"crash", "cut", "hangup", "loss"} -> Nat]
  BY BlockSyncAssumption DEF Init
<1>4. TypeOK
  BY <1>2, <1>3 DEF Init, TypeOK
<1>5. ChansConnected
  BY <1>1 DEF ChansConnected, Links
<1>6. 0 \in Heights
  BY BlockSyncAssumption DEF Heights
<1>7. ConnsUp /\ Started
  BY <1>6 DEF Init, ConnsUp, Started
<1> QED
  BY <1>4, <1>5, <1>7 DEF Basic

\* A message sent, read or answered by a connected node leaves the channels
\* typed and on connections.
LEMMA ChanStep ==
    ASSUME Basic, NEW n \in Nodes, NEW p \in Nodes, Connected(n, p),
           \/ \E m \in MessagesOver(Block) : Send(n, p, m)
           \/ chan[<<p, n>>] # <<>> /\ Drop(n, p)
           \/ \E m \in MessagesOver(Block) : chan[<<p, n>>] # <<>> /\ Reply(n, p, m),
           UNCHANGED conns
    PROVE  /\ chan' \in [Links -> Seq(MessagesOver(Block))]
           /\ ChansConnected'
<1>1. ChansOver(MessagesOver(Block))
  BY DEF Basic, TypeOK, ChansOver
<1>2. chan' \in [Links -> Seq(MessagesOver(Block))]
  BY <1>1, SendChans, DropChans, ReplyChans
<1>3. \A q, r \in Nodes :
         <<q, r>> # <<n, p>> /\ <<q, r>> # <<p, n>> => chan'[<<q, r>>] = chan[<<q, r>>]
  BY DEF Basic, TypeOK, Links, Send, Drop, Reply
<1>4. ChansConnected'
  <2> SUFFICES ASSUME NEW q \in Nodes, NEW r \in Nodes, chan'[<<q, r>>] # <<>>
               PROVE  {q, r} \in conns
    BY DEF ChansConnected, Connected
  <2>1. CASE <<q, r>> = <<n, p>> \/ <<q, r>> = <<p, n>>
    <3>1. {q, r} = {n, p}
      BY <2>1
    <3> QED
      BY <3>1 DEF Connected
  <2>2. CASE <<q, r>> # <<n, p>> /\ <<q, r>> # <<p, n>>
    BY <1>3, <2>2 DEF Basic, ChansConnected, Connected
  <2> QED
    BY <2>1, <2>2
<1> QED
  BY <1>2, <1>4

\* A handler that leaves the disk and the process alone leaves Started alone.
LEMMA SameDisk ==
    ASSUME Basic, UNCHANGED <<up, current, last, trie>>
    PROVE  /\ DiskTypeOK'
           /\ \A n \in Nodes : up'[n] => current'[n] # NoBlock /\ last'[n] # NoBlock
           /\ Started'
  BY DEF Basic, TypeOK, DiskTypeOK, Started

\* A saved block, or one whose save is cut, keeps every started node started.
LEMMA SaveStarted ==
    ASSUME Basic, NEW n \in Nodes, up[n], NEW b \in Block,
           SaveBlockToTrie(n, b) \/ SaveBlockToTrieCut(n, b),
           \A p \in Nodes : up'[p] => up[p]
    PROVE  /\ DiskTypeOK'
           /\ \A p \in Nodes : up'[p] => current'[p] # NoBlock /\ last'[p] # NoBlock
           /\ Started'
<1>1. DiskTypeOK /\ pending \in [Links -> Block \cup {NoBlock}]
  BY DEF Basic, TypeOK, DiskTypeOK
<1>2. DiskTypeOK'
  BY <1>1, SaveBlockType
<1>3. current[n] # NoBlock /\ last[n] # NoBlock
  BY DEF Basic, Started
<1>4. ASSUME NEW p \in Nodes, p # n
      PROVE  current'[p] = current[p] /\ last'[p] = last[p] /\ trie'[p] = trie[p]
  <2>1. current'[p] = current[p] /\ trie'[p] = trie[p]
    BY <1>1, <1>4 DEF DiskTypeOK, SaveBlockToTrie, SaveBlockToTrieCut
  <2>2. LastAtDeath(n) => last'[p] = last[p]
    BY <1>1, <1>4, DeathKeepsLast DEF DiskTypeOK
  <2>3. ~LastAtDeath(n) => last'[p] = last[p]
    BY <1>1, <1>4 DEF DiskTypeOK, SaveBlockToTrie, SaveBlockToTrieCut
  <2> QED
    BY <2>1, <2>2, <2>3
<1>5. current'[n] # NoBlock /\ last'[n] # NoBlock
  BY <1>1, <1>3, SaveBlockKeeps
<1>6. trie'[n][0] # NoBlock
  <2>1. trie[n][0] # NoBlock /\ 0 \in Heights /\ b # NoBlock /\ b.index \in Heights
    BY BlockSyncAssumption DEF Basic, Started, Heights, Block
  <2>2. CASE SaveBlockToTrie(n, b)
    BY <1>1, <2>1, <2>2 DEF DiskTypeOK, SaveBlockToTrie
  <2>3. CASE SaveBlockToTrieCut(n, b)
    BY <2>1, <2>3 DEF SaveBlockToTrieCut
  <2> QED
    BY <2>2, <2>3
<1>7. Started'
  BY <1>4, <1>5, <1>6 DEF Basic, Started
<1>8. \A p \in Nodes : up'[p] => current'[p] # NoBlock /\ last'[p] # NoBlock
  BY <1>7 DEF Started
<1> QED
  BY <1>2, <1>7, <1>8

LEMMA AloneBasic ==
    ASSUME Basic, NEW n \in Nodes, Alone(n)
    PROVE  Basic'
<1> USE DEF Basic
<1>t. DiskTypeOK /\ TypeOK
  BY DEF TypeOK, DiskTypeOK
<1>0. 0 \in Heights /\ Genesis(n) \in Block /\ Genesis(n) # NoBlock
  BY GenesisIsBlock, BlockSyncAssumption DEF Heights
<1>1. CASE Start(n)
  <2>1. ConnsUp' /\ ChansConnected'
    BY <1>1, <1>t DEF Start, ConnsUp, ChansConnected, Connected, TypeOK
  <2>2. CASE trie[n][0] = NoBlock /\ SaveGenesis(n)
    <3>1. DiskTypeOK'
      BY <1>t, <2>2, SaveGenesisType
    <3>2. Started'
      BY <1>0, <1>1, <1>t, <2>2 DEF Start, Started, SaveGenesis, DiskTypeOK, TypeOK
    <3>3. TypeOK'
      BY <1>1, <1>t, <3>1, <3>2 DEF Start, TypeOK, DiskTypeOK, Started
    <3> QED
      BY <2>1, <3>2, <3>3
  <2>3. CASE trie[n][0] # NoBlock /\ UNCHANGED disk
    <3>1. Started'
      BY <1>1, <1>t, <2>3 DEF Start, Started, disk, TypeOK
    <3>2. TypeOK'
      BY <1>1, <1>t, <2>3, <3>1 DEF Start, TypeOK, disk, Started
    <3> QED
      BY <2>1, <3>1, <3>2
  <2> QED
    BY <1>1, <2>2, <2>3 DEF Start
<1>2. CASE StartCut(n)
  <2>1. budget' \in [{"crash", "cut", "hangup", "loss"} -> Nat]
    BY <1>2, <1>t, SpendType DEF StartCut, TypeOK
  <2>2. Started'
    BY <1>0, <1>2, <1>t DEF StartCut, Started, TypeOK
  <2>3. TypeOK'
    BY <1>0, <1>2, <1>t, <2>1, <2>2 DEF StartCut, TypeOK, Started
  <2>4. ConnsUp' /\ ChansConnected'
    BY <1>2 DEF StartCut, ConnsUp, ChansConnected, Connected
  <2> QED
    BY <2>2, <2>3, <2>4
<1>3. CASE Crash(n)
  <2>1. budget' \in [{"crash", "cut", "hangup", "loss"} -> Nat]
    BY <1>3, <1>t, SpendType DEF Crash, TypeOK
  <2>4. LastAtDeath(n) /\ pending \in [Links -> Block \cup {NoBlock}]
        /\ last \in [Nodes -> Block \cup {NoBlock}]
    BY <1>3, <1>t DEF Crash, TypeOK
  <2>5. last' \in [Nodes -> Block \cup {NoBlock}]
    BY <2>4, DeathKeepsLast
  <2>6. \A p \in Nodes : last[p] # NoBlock => last'[p] # NoBlock
    BY <2>4, DeathKeepsLast
  <2>2. Started'
    BY <1>3, <2>6, DieBasic DEF Crash, Started
  <2>3. TypeOK'
    BY <1>3, <1>t, <2>1, <2>2, <2>5, DieBasic DEF Crash, TypeOK, Started
  <2> QED
    BY <1>3, <2>2, <2>3, DieBasic DEF Crash
<1>4. CASE ProposeOrphan(n)
  <2> PICK b \in Block : Proposes(n, b) /\ SaveBlockToTrie(n, b)
    BY <1>4 DEF ProposeOrphan
  <2>1. up[n] /\ proposed' \subseteq Block
    BY <1>t DEF Proposes, TypeOK
  <2>2. DiskTypeOK' /\ Started' /\ pending' \in [Links -> Block \cup {NoBlock}]
    BY <1>4, <1>t, <2>1, SaveStarted, PendingStep DEF ProposeOrphan, TypeOK
  <2>3. TypeOK'
    BY <1>4, <1>t, <2>1, <2>2 DEF ProposeOrphan, TypeOK, DiskTypeOK, Started
  <2>4. ConnsUp' /\ ChansConnected'
    BY <1>4 DEF ProposeOrphan, ConnsUp, ChansConnected, Connected
  <2> QED
    BY <2>2, <2>3, <2>4
<1>5. CASE ProposeCut(n)
  <2> PICK b \in Block : Proposes(n, b) /\ SaveBlockToTrieCut(n, b)
    BY <1>5 DEF ProposeCut
  <2>1. up[n] /\ proposed' \subseteq Block
    BY <1>t DEF Proposes, TypeOK
  <2>2. Die(n)
    BY <1>5 DEF ProposeCut
  <2>3. DiskTypeOK' /\ Started'
    BY <2>1, <2>2, DieBasic, SaveStarted
  <2>4. budget' \in [{"crash", "cut", "hangup", "loss"} -> Nat]
    BY <1>5, <1>t, SpendType DEF ProposeCut, TypeOK
  <2>5. TypeOK'
    BY <2>1, <2>2, <2>3, <2>4, DieBasic DEF TypeOK, DiskTypeOK, Started
  <2> QED
    BY <2>2, <2>3, <2>5, DieBasic
<1> QED
  BY <1>1, <1>2, <1>3, <1>4, <1>5 DEF Alone

LEMMA ConnBasic ==
    ASSUME Basic, NEW n \in Nodes, NEW p \in Nodes,
           Connect(n, p) \/ Hangup(n, p) \/ Lose(n, p)
    PROVE  Basic'
<1> USE DEF Basic
<1>t. DiskTypeOK /\ TypeOK
  BY DEF TypeOK, DiskTypeOK
<1>1. CASE Connect(n, p)
  <2>1. ConnsUp' /\ ChansConnected' /\ conns' \subseteq SUBSET Nodes
    BY <1>1, <1>t DEF Connect, ConnsUp, ChansConnected, Connected, TypeOK
  <2>2. Started'
    BY <1>1, SameDisk DEF Connect
  <2>3. TypeOK'
    BY <1>1, <1>t, <2>1 DEF Connect, TypeOK
  <2> QED
    BY <2>1, <2>2, <2>3
<1>2. CASE Hangup(n, p)
  <2>1. chan' \in [Links -> Seq(MessagesOver(Block))]
    BY <1>2, <1>t, ClearedChans DEF Hangup, TypeOK, ChansOver
  <2>2. ChansConnected'
    <3> SUFFICES ASSUME NEW q \in Nodes, NEW r \in Nodes, chan'[<<q, r>>] # <<>>
                 PROVE  {q, r} \in conns'
      BY DEF ChansConnected, Connected
    <3>1. <<q, r>> \in Links
      BY DEF Links
    <3>2. chan'[<<q, r>>] = IF {q, r} \in {{n, p}} THEN <<>> ELSE chan[<<q, r>>]
      BY <1>2, <3>1 DEF Hangup, Cleared
    <3>3. {q, r} # {n, p} /\ {q, r} \in conns
      BY <3>2 DEF ChansConnected, Connected
    <3> QED
      BY <1>2, <3>3 DEF Hangup
  <2>3. ConnsUp' /\ Started'
    BY <1>2, SameDisk DEF Hangup, ConnsUp
  <2>4. budget' \in [{"crash", "cut", "hangup", "loss"} -> Nat]
    BY <1>2, <1>t, SpendType DEF Hangup, TypeOK
  <2>5. conns' \subseteq SUBSET Nodes /\ orphan' \in [Nodes -> BOOLEAN]
    BY <1>2, <1>t DEF Hangup, TypeOK
  <2>6. TypeOK'
    BY <1>2, <1>t, <2>1, <2>4, <2>5 DEF Hangup, TypeOK
  <2> QED
    BY <2>2, <2>3, <2>6
<1>3. CASE Lose(n, p)
  <2>1. Connected(n, p)
    <3>1. {p, n} = {n, p}
      OBVIOUS
    <3> QED
      BY <1>3, <3>1 DEF Lose, ChansConnected, Connected
  <2>2. chan' \in [Links -> Seq(MessagesOver(Block))] /\ ChansConnected'
    BY <1>3, <2>1, ChanStep DEF Lose
  <2>3. ConnsUp' /\ Started'
    BY <1>3, SameDisk DEF Lose, ConnsUp
  <2>4. budget' \in [{"crash", "cut", "hangup", "loss"} -> Nat]
    BY <1>3, <1>t, SpendType DEF Lose, TypeOK
  <2>5. TypeOK'
    BY <1>3, <1>t, <2>2, <2>4 DEF Lose, TypeOK
  <2> QED
    BY <2>2, <2>3, <2>5
<1> QED
  BY <1>1, <1>2, <1>3

LEMMA TimerBasic ==
    ASSUME Basic, NEW n \in Nodes, NEW p \in Nodes, Timer(n, p)
    PROVE  Basic'
<1> USE DEF Basic
<1>t. DiskTypeOK /\ TypeOK
  BY DEF TypeOK, DiskTypeOK
<1>c. Connected(n, p)
  BY DEF Timer, RequestLast, RequestBlock, Propose
<1>u. up[n] /\ current[n] \in Block /\ last[n] \in Block
  BY <1>c, ConnectedUp
<1>1. CASE RequestLast(n, p)
  <2>1. LastRequestMsg \in MessagesOver(Block)
    BY DEF LastRequestMsg, MessagesOver
  <2>2. chan' \in [Links -> Seq(MessagesOver(Block))] /\ ChansConnected'
    BY <1>1, <1>c, <2>1, ChanStep DEF RequestLast
  <2>3. ConnsUp' /\ Started' /\ TypeOK'
    BY <1>1, <1>t, <2>2, SameDisk DEF RequestLast, ConnsUp, TypeOK
  <2> QED
    BY <2>2, <2>3
<1>2. CASE RequestBlock(n, p)
  <2>1. current[n].index + 1 \in Heights
    BY <1>2, <1>u, BlockSyncAssumption DEF RequestBlock, Block, Heights
  <2>2. BlockRequestMsg(current[n].index + 1) \in MessagesOver(Block)
    BY <2>1 DEF BlockRequestMsg, MessagesOver
  <2>3. chan' \in [Links -> Seq(MessagesOver(Block))] /\ ChansConnected'
    BY <1>2, <1>c, <2>2, ChanStep DEF RequestBlock
  <2>4. ConnsUp' /\ Started' /\ TypeOK'
    BY <1>2, <1>t, <2>3, SameDisk DEF RequestBlock, ConnsUp, TypeOK
  <2> QED
    BY <2>3, <2>4
<1>3. CASE Propose(n, p)
  <2> PICK b \in Block :
        Proposes(n, b) /\ SaveBlockToTrie(n, b) /\ Send(n, p, BlockMsg(b))
    BY <1>3 DEF Propose
  <2>1. proposed' \subseteq Block
    BY <1>t DEF Proposes, TypeOK
  <2>2. BlockMsg(b) \in MessagesOver(Block)
    BY DEF BlockMsg, MessagesOver
  <2>3. chan' \in [Links -> Seq(MessagesOver(Block))] /\ ChansConnected'
    BY <1>3, <1>c, <2>2, ChanStep DEF Propose
  <2>4. DiskTypeOK' /\ Started' /\ pending' \in [Links -> Block \cup {NoBlock}]
    BY <1>3, <1>t, <1>u, SaveStarted, PendingStep DEF Propose, TypeOK
  <2>5. ConnsUp' /\ TypeOK'
    BY <1>3, <1>t, <2>1, <2>3, <2>4 DEF Propose, ConnsUp, TypeOK, DiskTypeOK, Started
  <2> QED
    BY <2>3, <2>4, <2>5
<1> QED
  BY <1>1, <1>2, <1>3 DEF Timer

LEMMA ReceiveBasic ==
    ASSUME Basic, NEW n \in Nodes, NEW p \in Nodes,
           Receive(n, p) \/ HandleNewBlockCut(n, p)
    PROVE  Basic'
<1> USE DEF Basic
<1>t. DiskTypeOK /\ TypeOK
  BY DEF TypeOK, DiskTypeOK
<1>r. \A m : Reads(n, p, m) =>
        /\ chan[<<p, n>>] # <<>> /\ Connected(n, p)
        /\ up[n] /\ current[n] \in Block /\ last[n] \in Block
  BY ReadsConnected, ConnectedUp DEF Reads
<1>1. CASE HandleLastBlockRequest(n, p)
  <2>1. Reads(n, p, LastRequestMsg) /\ Reply(n, p, LastBlockMsg(last[n]))
    BY <1>1 DEF HandleLastBlockRequest
  <2>2. LastBlockMsg(last[n]) \in MessagesOver(Block)
    BY <1>r, <2>1 DEF LastBlockMsg, MessagesOver
  <2>3. chan' \in [Links -> Seq(MessagesOver(Block))] /\ ChansConnected'
    BY <1>1, <1>r, <2>1, <2>2, ChanStep DEF HandleLastBlockRequest
  <2>4. ConnsUp' /\ Started' /\ TypeOK'
    BY <1>1, <1>t, <2>3, SameDisk DEF HandleLastBlockRequest, ConnsUp, TypeOK
  <2> QED
    BY <2>3, <2>4
<1>2. CASE HandleBlockRequest(n, p)
  <2> PICK h \in Heights :
        /\ Reads(n, p, BlockRequestMsg(h))
        /\ \/ trie[n][h] # NoBlock /\ Reply(n, p, BlockMsg(trie[n][h]))
           \/ trie[n][h] = NoBlock /\ Drop(n, p)
    BY <1>2 DEF HandleBlockRequest
  <2>1. trie[n][h] # NoBlock => BlockMsg(trie[n][h]) \in MessagesOver(Block)
    BY <1>t DEF BlockMsg, MessagesOver, TypeOK
  <2>2. chan' \in [Links -> Seq(MessagesOver(Block))] /\ ChansConnected'
    BY <1>2, <1>r, <2>1, ChanStep DEF HandleBlockRequest
  <2>3. ConnsUp' /\ Started' /\ TypeOK'
    BY <1>2, <1>t, <2>2, SameDisk DEF HandleBlockRequest, ConnsUp, TypeOK
  <2> QED
    BY <2>2, <2>3
<1>3. CASE HandleLastBlockResponse(n, p)
  <2>1. chan' \in [Links -> Seq(MessagesOver(Block))] /\ ChansConnected'
    BY <1>3, <1>r, ChanStep DEF HandleLastBlockResponse
  <2>2. pending' \in [Links -> Block \cup {NoBlock}]
    BY <1>3, <1>t, PendingStep DEF HandleLastBlockResponse, TypeOK, Links
  <2>3. ConnsUp' /\ Started' /\ TypeOK'
    BY <1>3, <1>t, <2>1, <2>2, SameDisk DEF HandleLastBlockResponse, ConnsUp, TypeOK
  <2> QED
    BY <2>1, <2>3
<1>4. CASE HandleNewBlock(n, p)
  <2> PICK b \in Block :
        /\ Reads(n, p, BlockMsg(b))
        /\ \/ Accepts(n, b) /\ SaveBlockToTrie(n, b)
           \/ ~Accepts(n, b) /\ UNCHANGED <<disk, pending>>
    BY <1>4 DEF HandleNewBlock
  <2>1. chan' \in [Links -> Seq(MessagesOver(Block))] /\ ChansConnected'
    BY <1>4, <1>r, ChanStep DEF HandleNewBlock
  <2>2. DiskTypeOK' /\ Started' /\ pending' \in [Links -> Block \cup {NoBlock}]
    BY <1>4, <1>t, <1>r, SaveStarted, SameDisk, PendingStep DEF HandleNewBlock, disk, TypeOK
  <2>3. ConnsUp' /\ TypeOK'
    BY <1>4, <1>t, <2>1, <2>2 DEF HandleNewBlock, ConnsUp, TypeOK, DiskTypeOK, Started
  <2> QED
    BY <2>1, <2>2, <2>3
<1>5. CASE HandleNewBlockCut(n, p)
  <2> PICK b \in Block :
        Reads(n, p, BlockMsg(b)) /\ Accepts(n, b) /\ SaveBlockToTrieCut(n, b)
    BY <1>5 DEF HandleNewBlockCut
  <2>1. Die(n) /\ UNCHANGED proposed
    BY <1>5 DEF HandleNewBlockCut
  <2>2. DiskTypeOK' /\ Started'
    BY <1>r, <2>1, DieBasic, SaveStarted
  <2>3. budget' \in [{"crash", "cut", "hangup", "loss"} -> Nat]
    BY <1>5, <1>t, SpendType DEF HandleNewBlockCut, TypeOK
  <2>4. TypeOK'
    BY <1>t, <2>1, <2>2, <2>3, DieBasic DEF TypeOK, DiskTypeOK, Started
  <2> QED
    BY <2>1, <2>2, <2>4, DieBasic
<1>6. CASE SaveLastBlock(n, p)
  <2>1. pending[<<n, p>>] \in Block /\ <<n, p>> \in Links
    BY <1>6, <1>t DEF SaveLastBlock, TypeOK, Links
  <2>2. /\ last' \in [Nodes -> Block \cup {NoBlock}]
        /\ pending' \in [Links -> Block \cup {NoBlock}]
    BY <1>6, <1>t, <2>1 DEF SaveLastBlock, TypeOK
  <2>3. \A q \in Nodes : last[q] # NoBlock => last'[q] # NoBlock
    BY <1>6, <1>t, <2>1, BlockSyncAssumption DEF SaveLastBlock, TypeOK
  <2>4. ConnsUp' /\ ChansConnected' /\ Started' /\ TypeOK'
    BY <1>6, <1>t, <2>2, <2>3
       DEF SaveLastBlock, ConnsUp, ChansConnected, Connected, TypeOK, Started
  <2> QED
    BY <2>4
<1> QED
  BY <1>1, <1>2, <1>3, <1>4, <1>5, <1>6 DEF Receive

LEMMA StepBasic == Basic /\ [Next]_vars => Basic'
<1> SUFFICES ASSUME Basic, [Next]_vars PROVE Basic'
  OBVIOUS
<1>1. CASE \E n \in Nodes : Alone(n)
  BY <1>1, AloneBasic
<1>2. CASE \E n, p \in Nodes : Connect(n, p) \/ Hangup(n, p) \/ Lose(n, p)
  BY <1>2, ConnBasic
<1>3. CASE \E n, p \in Nodes : Timer(n, p)
  BY <1>3, TimerBasic
<1>4. CASE \E n, p \in Nodes : Receive(n, p) \/ HandleNewBlockCut(n, p)
  BY <1>4, ReceiveBasic
<1>5. CASE UNCHANGED vars
  BY <1>5 DEF vars, Basic, TypeOK, ConnsUp, ChansConnected, Connected, Started
<1> QED
  BY <1>1, <1>2, <1>3, <1>4, <1>5 DEF Next

\* The state keeps its shape, and a node that runs has the blocks that every
\* handler reads first (GetCurrentBlock and GetLastBlock do not fail).
THEOREM TypeCorrect == Spec => []TypeOK
<1>1. Spec => []Basic
  BY InitBasic, StepBasic, PTL DEF Spec
<1>2. Basic => TypeOK
  BY DEF Basic
<1> QED
  BY <1>1, <1>2, PTL

-----------------------------------------------------------------------------
(* What a step does to the disks and to the signed blocks: one of four      *)
(* effects, whichever the action.                                           *)

Known == proposed \cup {Genesis(n) : n \in Nodes}

Provenance ==
    /\ \A n \in Nodes : /\ current[n] \in Known \cup {NoBlock}
                        /\ last[n] \in Known \cup {NoBlock}
                        /\ \A h \in Heights : trie[n][h] \in Known \cup {NoBlock}
    /\ pending \in [Links -> Known \cup {NoBlock}]
    /\ ChansOver(MessagesOver(Known))

Quiet == UNCHANGED <<current, last, trie, proposed>>

\* Init makes the genesis block of a node that has no trie, all of it or not.
Begins(n) ==
    /\ trie[n][0] = NoBlock
    /\ current' = [current EXCEPT ![n] = Genesis(n)]
    /\ last' = last \/ last' = [last EXCEPT ![n] = Genesis(n)]
    /\ trie' = trie \/ trie' = [trie EXCEPT ![n] = [@ EXCEPT ![0] = Genesis(n)]]
    /\ UNCHANGED proposed

\* LAST_BLOCK becomes a block that a peer announced.
Learns(n, b) ==
    /\ b \in Known
    /\ last' = [last EXCEPT ![n] = b]
    /\ UNCHANGED <<current, trie, proposed>>

\* CURRENT_BLOCK moves up to a block that n signs or that somebody signed.
Climbs(n, b) ==
    /\ up[n]
    /\ IsNext(n, b)
    /\ SaveBlockToTrie(n, b) \/ SaveBlockToTrieCut(n, b)
    /\ \/ b \in Known /\ UNCHANGED proposed
       \/ /\ b.proposer = n
          /\ CheckProposalCondition(n)
          /\ proposed' = proposed \cup {b}

DiskStep ==
    \/ Quiet
    \/ \E n \in Nodes : Begins(n)
    \/ \E n \in Nodes, b \in Block : Learns(n, b) \/ Climbs(n, b)

LEMMA KnownBlocks == Basic => Known \subseteq Block
  BY GenesisIsBlock DEF Basic, TypeOK, Known

\* A block on a channel is one that was signed.
LEMMA ReadsKnown ==
    ASSUME Provenance, NEW n \in Nodes, NEW p \in Nodes, NEW b,
           Reads(n, p, BlockMsg(b)) \/ Reads(n, p, LastBlockMsg(b))
    PROVE  b \in Known
<1>1. BlockMsg(b) \in MessagesOver(Known) \/ LastBlockMsg(b) \in MessagesOver(Known)
  BY ReadsOver DEF Provenance
<1> QED
  BY <1>1 DEF BlockMsg, LastBlockMsg, MessagesOver

LEMMA ProposesClimbs ==
    ASSUME NEW n \in Nodes, NEW b \in Block, Proposes(n, b),
           SaveBlockToTrie(n, b) \/ SaveBlockToTrieCut(n, b)
    PROVE  Climbs(n, b)
<1>1. IsNext(n, b) /\ b.proposer = n
  BY DEF Proposes, NewBlock, IsNext
<1> QED
  BY <1>1 DEF Proposes, Climbs

LEMMA NextIsDiskStep ==
    ASSUME Basic, Provenance, [Next]_vars
    PROVE  DiskStep
<1>1. ASSUME NEW n \in Nodes, Alone(n) PROVE DiskStep
  <2>t. trie \in [Nodes -> [Heights -> Block \cup {NoBlock}]] /\ 0 \in Heights
        /\ last \in [Nodes -> Block \cup {NoBlock}]
    BY BlockSyncAssumption DEF Basic, TypeOK, Heights
  <2>1. CASE Start(n)
    BY <2>1, <2>t DEF Start, SaveGenesis, DiskStep, Begins, Quiet, disk
  <2>2. CASE StartCut(n)
    BY <2>2 DEF StartCut, DiskStep, Begins
  <2>3. CASE Crash(n)
    <3>1. CASE last' = last
      BY <2>3, <3>1 DEF Crash, DiskStep, Quiet
    <3>2. ASSUME NEW p \in Nodes, pending[<<n, p>>] # NoBlock,
                 last' = [last EXCEPT ![n] = pending[<<n, p>>]]
          PROVE  DiskStep
      <4>1. pending[<<n, p>>] \in Known \cap Block
        BY <3>2 DEF Provenance, Basic, TypeOK, Links
      <4> QED
        BY <2>3, <3>2, <4>1 DEF Crash, DiskStep, Learns
    <3> QED
      BY <2>3, <3>1, <3>2 DEF Crash, LastAtDeath
  <2>4. CASE ProposeOrphan(n)
    BY <2>4, ProposesClimbs DEF ProposeOrphan, DiskStep
  <2>5. CASE ProposeCut(n)
    BY <2>5, ProposesClimbs DEF ProposeCut, DiskStep
  <2> QED
    BY <1>1, <2>1, <2>2, <2>3, <2>4, <2>5 DEF Alone
<1>2. ASSUME NEW n \in Nodes, NEW p \in Nodes,
             Connect(n, p) \/ Hangup(n, p) \/ Lose(n, p)
      PROVE  DiskStep
  BY <1>2 DEF Connect, Hangup, Lose, DiskStep, Quiet
<1>3. ASSUME NEW n \in Nodes, NEW p \in Nodes, Timer(n, p) PROVE DiskStep
  <2>1. CASE RequestLast(n, p) \/ RequestBlock(n, p)
    BY <2>1 DEF RequestLast, RequestBlock, DiskStep, Quiet
  <2>2. CASE Propose(n, p)
    BY <2>2, ProposesClimbs DEF Propose, DiskStep
  <2> QED
    BY <1>3, <2>1, <2>2 DEF Timer
<1>4. ASSUME NEW n \in Nodes, NEW p \in Nodes,
             Receive(n, p) \/ HandleNewBlockCut(n, p)
      PROVE  DiskStep
  <2>r. \A m : Reads(n, p, m) => up[n]
    BY ReadsConnected, ConnectedUp
  <2>1. CASE HandleLastBlockRequest(n, p) \/ HandleBlockRequest(n, p)
    BY <2>1 DEF HandleLastBlockRequest, HandleBlockRequest, DiskStep, Quiet
  <2>2. CASE HandleLastBlockResponse(n, p)
    BY <2>2 DEF HandleLastBlockResponse, DiskStep, Quiet
  <2>5. CASE SaveLastBlock(n, p)
    <3>1. pending[<<n, p>>] \in Known \cap Block
      BY <2>5 DEF SaveLastBlock, Provenance, Basic, TypeOK, Links
    <3> QED
      BY <2>5, <3>1 DEF SaveLastBlock, DiskStep, Learns
  <2>3. CASE HandleNewBlock(n, p)
    BY <2>3, <2>r, ReadsKnown
       DEF HandleNewBlock, Accepts, DiskStep, Climbs, Quiet, disk
  <2>4. CASE HandleNewBlockCut(n, p)
    BY <2>4, <2>r, ReadsKnown DEF HandleNewBlockCut, Accepts, DiskStep, Climbs
  <2> QED
    BY <1>4, <2>1, <2>2, <2>3, <2>4, <2>5 DEF Receive
<1>5. CASE UNCHANGED vars
  BY <1>5 DEF vars, DiskStep, Quiet
<1> QED
  BY <1>1, <1>2, <1>3, <1>4, <1>5 DEF Next

-----------------------------------------------------------------------------
(* Whatever is stored or travels was signed, or is a genesis block.         *)

LEMMA InitProvenance == Init => Provenance
<1> SUFFICES ASSUME Init PROVE Provenance
  OBVIOUS
<1>1. \A l \in Links : chan[l] \in Seq(MessagesOver(Known))
  BY EmptySeq DEF Init
<1> QED
  BY <1>1 DEF Init, Provenance, ChansOver

LEMMA KnownGrows ==
    ASSUME DiskStep
    PROVE  Known \subseteq Known' /\ MessagesOver(Known) \subseteq MessagesOver(Known')
<1>1. proposed \subseteq proposed'
  BY DEF DiskStep, Quiet, Begins, Learns, Climbs
<1>2. Known \subseteq Known'
  BY <1>1 DEF Known, Genesis
<1> QED
  BY <1>2 DEF MessagesOver

\* The disks after a step hold nothing but what was signed.
LEMMA DiskProvenance ==
    ASSUME Basic, Provenance, DiskStep
    PROVE  \A n \in Nodes : /\ current'[n] \in Known' \cup {NoBlock}
                            /\ last'[n] \in Known' \cup {NoBlock}
                            /\ \A h \in Heights : trie'[n][h] \in Known' \cup {NoBlock}
<1>t. DiskTypeOK
  BY DEF Basic, TypeOK, DiskTypeOK
<1>k. Known \subseteq Known' /\ \A n \in Nodes : Genesis(n) \in Known'
  BY KnownGrows DEF Known, Genesis
<1>z. 0 \in Heights
  BY BlockSyncAssumption DEF Heights
<1> SUFFICES ASSUME NEW p \in Nodes
             PROVE  /\ current'[p] \in Known' \cup {NoBlock}
                    /\ last'[p] \in Known' \cup {NoBlock}
                    /\ \A h \in Heights : trie'[p][h] \in Known' \cup {NoBlock}
  OBVIOUS
<1>1. CASE Quiet
  BY <1>1, <1>k DEF Quiet, Provenance
<1>2. ASSUME NEW n \in Nodes, Begins(n)
      PROVE  /\ current'[p] \in Known' \cup {NoBlock}
             /\ last'[p] \in Known' \cup {NoBlock}
             /\ \A h \in Heights : trie'[p][h] \in Known' \cup {NoBlock}
  <2>1. current'[p] \in {current[p], Genesis(n)} /\ last'[p] \in {last[p], Genesis(n)}
    BY <1>2, <1>t DEF Begins, DiskTypeOK
  <2>2. \A h \in Heights : trie'[p][h] \in {trie[p][h], Genesis(n)}
    BY <1>2, <1>t, <1>z DEF Begins, DiskTypeOK
  <2> QED
    BY <1>k, <2>1, <2>2 DEF Provenance
<1>3. ASSUME NEW n \in Nodes, NEW b \in Block, Learns(n, b)
      PROVE  /\ current'[p] \in Known' \cup {NoBlock}
             /\ last'[p] \in Known' \cup {NoBlock}
             /\ \A h \in Heights : trie'[p][h] \in Known' \cup {NoBlock}
  <2>1. last'[p] \in {last[p], b}
    BY <1>3, <1>t DEF Learns, DiskTypeOK
  <2> QED
    BY <1>3, <1>k, <2>1 DEF Learns, Provenance
<1>4. ASSUME NEW n \in Nodes, NEW b \in Block, Climbs(n, b)
      PROVE  /\ current'[p] \in Known' \cup {NoBlock}
             /\ last'[p] \in Known' \cup {NoBlock}
             /\ \A h \in Heights : trie'[p][h] \in Known' \cup {NoBlock}
  <2>1. b \in Known' /\ b.index \in Heights
    BY <1>4, <1>k DEF Climbs, Known, Block
  <2>2. current'[p] \in {current[p], b} /\ last'[p] \in {last[p], b} \cup Known
    <3>1. CASE LastAtDeath(n)
      <4>1. \A q \in Nodes : pending[<<n, q>>] # NoBlock => pending[<<n, q>>] \in Known
        BY DEF Provenance, Links
      <4>2. last'[p] \in {last[p]} \cup Known
        BY <1>t, <3>1, <4>1 DEF LastAtDeath, DiskTypeOK
      <4> QED
        BY <1>4, <1>t, <4>2 DEF Climbs, SaveBlockToTrie, SaveBlockToTrieCut, DiskTypeOK
    <3>2. CASE ~LastAtDeath(n)
      BY <1>4, <1>t, <3>2 DEF Climbs, SaveBlockToTrie, SaveBlockToTrieCut, DiskTypeOK
    <3> QED
      BY <3>1, <3>2
  <2>3. \A h \in Heights : trie'[p][h] \in {trie[p][h], b}
    <3>1. CASE SaveBlockToTrie(n, b)
      BY <1>t, <2>1, <3>1 DEF SaveBlockToTrie, DiskTypeOK
    <3>2. CASE SaveBlockToTrieCut(n, b)
      BY <3>2 DEF SaveBlockToTrieCut
    <3> QED
      BY <1>4, <3>1, <3>2 DEF Climbs
  <2> QED
    BY <1>k, <2>1, <2>2, <2>3 DEF Provenance
<1> QED
  BY <1>1, <1>2, <1>3, <1>4 DEF DiskStep

\* A message that a handler or a timer sends carries a signed block.
LEMMA ChanProvenance ==
    ASSUME Basic, Provenance, DiskStep, [Next]_vars
    PROVE  ChansOver(MessagesOver(Known))'
<1>k. MessagesOver(Known) \subseteq MessagesOver(Known')
  BY KnownGrows
<1>c. ChansOver(MessagesOver(Known)) /\ ChansOver(MessagesOver(Known'))
  BY <1>k, ChansGrow DEF Provenance
<1>d. ASSUME NEW n \in Nodes, Die(n)
      PROVE  chan' \in [Links -> Seq(MessagesOver(Known'))]
  BY <1>c, <1>d, ClearedChans DEF Die
<1>m. MessagesOver(Known)' = MessagesOver(Known')
  BY DEF MessagesOver, Heights
<1> SUFFICES chan' \in [Links -> Seq(MessagesOver(Known'))]
  BY <1>m DEF ChansOver, Links
<1>1. ASSUME NEW n \in Nodes, Alone(n)
      PROVE  chan' \in [Links -> Seq(MessagesOver(Known'))]
  BY <1>1, <1>c, <1>d
     DEF Alone, Start, StartCut, Crash, ProposeOrphan, ProposeCut, ChansOver
<1>2. ASSUME NEW n \in Nodes, NEW p \in Nodes,
             Connect(n, p) \/ Hangup(n, p) \/ Lose(n, p)
      PROVE  chan' \in [Links -> Seq(MessagesOver(Known'))]
  <2>1. CASE Connect(n, p)
    BY <2>1, <1>c DEF Connect, ChansOver
  <2>2. CASE Hangup(n, p)
    BY <2>2, <1>c, ClearedChans DEF Hangup
  <2>3. CASE Lose(n, p)
    BY <2>3, <1>c, DropChans DEF Lose
  <2> QED
    BY <1>2, <2>1, <2>2, <2>3
<1>3. ASSUME NEW n \in Nodes, NEW p \in Nodes, Timer(n, p)
      PROVE  chan' \in [Links -> Seq(MessagesOver(Known'))]
  <2>c. Connected(n, p)
    BY <1>3 DEF Timer, RequestLast, RequestBlock, Propose
  <2>1. CASE RequestLast(n, p)
    <3>1. LastRequestMsg \in MessagesOver(Known')
      BY DEF LastRequestMsg, MessagesOver
    <3> QED
      BY <2>1, <3>1, <1>c, SendChans DEF RequestLast
  <2>2. CASE RequestBlock(n, p)
    <3>1. current[n] \in Block /\ last[n] \in Block
      BY <2>c, ConnectedUp
    <3>2. current[n].index + 1 \in Heights
      BY <2>2, <3>1, BlockSyncAssumption DEF RequestBlock, Block, Heights
    <3>3. BlockRequestMsg(current[n].index + 1) \in MessagesOver(Known')
      BY <3>2 DEF BlockRequestMsg, MessagesOver
    <3> QED
      BY <2>2, <3>3, <1>c, SendChans DEF RequestBlock
  <2>3. CASE Propose(n, p)
    <3> PICK b \in Block : Proposes(n, b) /\ Send(n, p, BlockMsg(b))
      BY <2>3 DEF Propose
    <3>1. b \in Known'
      BY DEF Proposes, Known
    <3>2. BlockMsg(b) \in MessagesOver(Known')
      BY <3>1 DEF BlockMsg, MessagesOver
    <3> QED
      BY <3>2, <1>c, SendChans
  <2> QED
    BY <1>3, <2>1, <2>2, <2>3 DEF Timer
<1>4. ASSUME NEW n \in Nodes, NEW p \in Nodes,
             Receive(n, p) \/ HandleNewBlockCut(n, p)
      PROVE  chan' \in [Links -> Seq(MessagesOver(Known'))]
  <2>r. \A m : Reads(n, p, m) => chan[<<p, n>>] # <<>> /\ up[n]
    BY ReadsConnected, ConnectedUp DEF Reads
  <2>1. CASE HandleLastBlockRequest(n, p)
    <3>1. up[n] /\ Reply(n, p, LastBlockMsg(last[n]))
      BY <2>1, <2>r DEF HandleLastBlockRequest
    <3>2. last[n] \in Known
      BY <3>1 DEF Provenance, Basic, TypeOK
    <3>3. LastBlockMsg(last[n]) \in MessagesOver(Known')
      BY <3>2, <1>k DEF LastBlockMsg, MessagesOver
    <3> QED
      BY <2>1, <2>r, <3>1, <3>3, <1>c, ReplyChans DEF HandleLastBlockRequest
  <2>2. CASE HandleBlockRequest(n, p)
    <3> PICK h \in Heights :
          /\ Reads(n, p, BlockRequestMsg(h))
          /\ \/ trie[n][h] # NoBlock /\ Reply(n, p, BlockMsg(trie[n][h]))
             \/ trie[n][h] = NoBlock /\ Drop(n, p)
      BY <2>2 DEF HandleBlockRequest
    <3>1. trie[n][h] # NoBlock => BlockMsg(trie[n][h]) \in MessagesOver(Known')
      BY <1>k DEF Provenance, BlockMsg, MessagesOver
    <3> QED
      BY <2>r, <3>1, <1>c, ReplyChans, DropChans
  <2>3. CASE HandleLastBlockResponse(n, p)
    BY <2>3, <2>r, <1>c, DropChans DEF HandleLastBlockResponse
  <2>4. CASE HandleNewBlock(n, p)
    BY <2>4, <2>r, <1>c, DropChans DEF HandleNewBlock
  <2>5. CASE HandleNewBlockCut(n, p)
    BY <2>5, <1>d DEF HandleNewBlockCut
  <2>6. CASE SaveLastBlock(n, p)
    BY <2>6, <1>c DEF SaveLastBlock, ChansOver
  <2> QED
    BY <1>4, <2>1, <2>2, <2>3, <2>4, <2>5, <2>6 DEF Receive
<1>5. CASE UNCHANGED vars
  BY <1>5, <1>c DEF vars, ChansOver
<1> QED
  BY <1>1, <1>2, <1>3, <1>4, <1>5 DEF Next

\* What a receive loop is about to Put came in a message.
LEMMA PendingProvenance ==
    ASSUME Basic, Provenance, DiskStep, [Next]_vars
    PROVE  (pending \in [Links -> Known \cup {NoBlock}])'
<1>c. pending \in [Links -> Known' \cup {NoBlock}]
  BY KnownGrows DEF Provenance
<1>l. Links' = Links
  BY DEF Links
<1> SUFFICES pending' \in [Links -> Known' \cup {NoBlock}]
  BY <1>l
<1>1. ASSUME \/ \E loops : NoPutBy(loops)
             \/ \E n \in Nodes : \E b : SaveBlockToTrie(n, b)
             \/ \E l \in Links, b \in Known' \cup {NoBlock} : pending' = [pending EXCEPT ![l] = b]
             \/ UNCHANGED pending
      PROVE  pending' \in [Links -> Known' \cup {NoBlock}]
  BY <1>1, <1>c, PendingStep
<1>2. ASSUME NEW n \in Nodes, Alone(n)
      PROVE  pending' \in [Links -> Known' \cup {NoBlock}]
  BY <1>1, <1>2 DEF Alone, Start, StartCut, Crash, ProposeOrphan, ProposeCut, Die
<1>3. ASSUME NEW n \in Nodes, NEW p \in Nodes,
             Connect(n, p) \/ Hangup(n, p) \/ Lose(n, p) \/ Timer(n, p)
      PROVE  pending' \in [Links -> Known' \cup {NoBlock}]
  BY <1>1, <1>3 DEF Connect, Hangup, Lose, Timer, RequestLast, RequestBlock, Propose
<1>4. ASSUME NEW n \in Nodes, NEW p \in Nodes,
             Receive(n, p) \/ HandleNewBlockCut(n, p)
      PROVE  pending' \in [Links -> Known' \cup {NoBlock}]
  <2>l. <<n, p>> \in Links
    BY DEF Links
  <2>1. CASE HandleLastBlockRequest(n, p) \/ HandleBlockRequest(n, p)
    BY <1>1, <2>1 DEF HandleLastBlockRequest, HandleBlockRequest
  <2>2. CASE HandleLastBlockResponse(n, p)
    <3>1. PICK b \in Block : /\ Reads(n, p, LastBlockMsg(b))
                             /\ \/ pending' = [pending EXCEPT ![<<n, p>>] = b]
                                \/ UNCHANGED pending
      BY <2>2 DEF HandleLastBlockResponse
    <3>2. b \in Known'
      BY <3>1, ReadsKnown, KnownGrows
    <3> QED
      BY <1>1, <2>l, <3>1, <3>2
  <2>3. CASE SaveLastBlock(n, p)
    BY <1>1, <2>l, <2>3 DEF SaveLastBlock
  <2>4. CASE HandleNewBlock(n, p)
    BY <1>1, <2>4 DEF HandleNewBlock
  <2>5. CASE HandleNewBlockCut(n, p)
    BY <1>1, <2>5 DEF HandleNewBlockCut, Die
  <2> QED
    BY <1>4, <2>1, <2>2, <2>3, <2>4, <2>5 DEF Receive
<1>5. CASE UNCHANGED vars
  BY <1>1, <1>5 DEF vars
<1> QED
  BY <1>2, <1>3, <1>4, <1>5 DEF Next

LEMMA StepProvenance == Basic /\ Provenance /\ [Next]_vars => DiskStep /\ Provenance'
  BY NextIsDiskStep, DiskProvenance, ChanProvenance, PendingProvenance DEF Provenance

-----------------------------------------------------------------------------
(* The history of a node: it starts at its genesis block and climbs, signs  *)
(* only what it then stands on, and keeps what it holds.                    *)

Fresh ==
    \A n \in Nodes : trie[n][0] = NoBlock =>
        /\ Index(current[n]) = 0
        /\ \A h \in Heights : trie[n][h] = NoBlock

Indexed ==
    \A n \in Nodes, h \in Heights : trie[n][h] # NoBlock =>
        trie[n][h].index = h /\ h <= Index(current[n])

Turns ==
    \A d \in proposed : /\ d.index >= 1
                        /\ Eligible(d.index - 1, d.proposer)
                        /\ d.index <= Index(current[d.proposer])

\* The signer of a block holds it, or nothing in its place.
OwnBlocks ==
    \A d \in proposed : trie[d.proposer][d.index] \in {d, NoBlock}

History == Fresh /\ Indexed /\ Turns /\ OneBlockPerTurn /\ OwnBlocks

LEMMA IndexInHeights ==
    /\ 0 \in Heights
    /\ \A b \in Block \cup {NoBlock} : Index(b) \in Heights /\ Index(b) \in Nat
    /\ \A b \in Block : Index(b) = b.index /\ b.index \in Heights /\ b.index \in Nat
    /\ \A n \in Nodes : Genesis(n) \in Block /\ Index(Genesis(n)) = 0
  BY BlockSyncAssumption, GenesisIsBlock DEF Index, Block, Heights, Genesis

LEMMA InitHistory == Init => History
<1> SUFFICES ASSUME Init PROVE History
  OBVIOUS
<1>1. \A n \in Nodes : Index(current[n]) = 0
  BY DEF Init, Index
<1> QED
  BY <1>1, IndexInHeights
     DEF Init, History, Fresh, Indexed, Turns, OneBlockPerTurn, OwnBlocks

\* A block a node climbs to is one above, and not in its trie.
LEMMA ClimbsWhere ==
    ASSUME Basic, History, NEW n \in Nodes, NEW b \in Block, Climbs(n, b)
    PROVE  /\ current[n] \in Block /\ last[n] \in Block
           /\ b.index = Index(current[n]) + 1
           /\ trie[n][b.index] = NoBlock /\ trie[n][0] # NoBlock
           /\ current' = [current EXCEPT ![n] = b]
           /\ \A p \in Nodes : p # n => trie'[p] = trie[p]
           /\ trie' = trie \/ trie'[n] = [trie[n] EXCEPT ![b.index] = b]
<1>t. current \in [Nodes -> Block \cup {NoBlock}] /\ last \in [Nodes -> Block \cup {NoBlock}]
      /\ trie \in [Nodes -> [Heights -> Block \cup {NoBlock}]]
  BY DEF Basic, TypeOK
<1>1. current[n] \in Block /\ last[n] \in Block /\ trie[n][0] # NoBlock
  BY <1>t DEF Basic, Started, Climbs
<1>2. b.index = Index(current[n]) + 1
  BY <1>1, IndexInHeights DEF Climbs, IsNext
<1>3. trie[n][b.index] = NoBlock
  BY <1>1, <1>2, IndexInHeights DEF History, Indexed
<1>4. current' = [current EXCEPT ![n] = b]
  BY DEF Climbs, SaveBlockToTrie, SaveBlockToTrieCut
<1>5. \A p \in Nodes : p # n => trie'[p] = trie[p]
  BY <1>t DEF Climbs, SaveBlockToTrie, SaveBlockToTrieCut
<1>6. CASE SaveBlockToTrie(n, b)
  <2>1. trie'[n] = [trie[n] EXCEPT ![b.index] = b]
    BY <1>t, <1>6 DEF SaveBlockToTrie
  <2> QED
    BY <1>1, <1>2, <1>3, <1>4, <1>5, <2>1
<1>7. CASE SaveBlockToTrieCut(n, b)
  BY <1>1, <1>2, <1>3, <1>4, <1>5, <1>7 DEF SaveBlockToTrieCut
<1> QED
  BY <1>6, <1>7 DEF Climbs

LEMMA BeginsHistory ==
    ASSUME Basic, History, NEW n \in Nodes, Begins(n)
    PROVE  History'
<1> USE DEF History
<1>t. current \in [Nodes -> Block \cup {NoBlock}]
      /\ trie \in [Nodes -> [Heights -> Block \cup {NoBlock}]]
  BY DEF Basic, TypeOK
<1>1. ASSUME NEW p \in Nodes, p # n
      PROVE  current'[p] = current[p] /\ trie'[p] = trie[p]
  BY <1>1, <1>t DEF Begins
<1>2. Index(current[n]) = 0 /\ \A h \in Heights : trie[n][h] = NoBlock
  BY DEF Begins, Fresh
<1>3. Index(current'[n]) = 0
  BY <1>t, <1>2, IndexInHeights DEF Begins
<1>4. \A h \in Heights : trie'[n][h] # NoBlock => h = 0 /\ trie'[n][h] = Genesis(n)
  BY <1>t, <1>2, IndexInHeights DEF Begins
<1>5. Fresh'
  <2>1. trie'[n][0] = NoBlock => \A h \in Heights : trie'[n][h] = NoBlock
    BY <1>4
  <2> QED
    BY <1>1, <1>3, <2>1 DEF Fresh
<1>6. Indexed'
  BY <1>1, <1>3, <1>4, IndexInHeights DEF Indexed, Genesis
<1>p. \A d \in proposed : d.proposer \in Nodes /\ d.index \in Heights
  BY DEF Basic, TypeOK, Block
<1>7. Turns'
  <2>1. \A p \in Nodes : Index(current'[p]) = Index(current[p])
    BY <1>1, <1>2, <1>3
  <2> QED
    BY <1>p, <2>1 DEF Begins, Turns
<1>8. OneBlockPerTurn'
  BY DEF Begins, OneBlockPerTurn
<1>9. OwnBlocks'
  <2>1. \A d \in proposed : d.index # 0
    BY DEF Turns
  <2> QED
    BY <1>1, <1>4, <1>p, <2>1 DEF OwnBlocks, Begins
<1> QED
  BY <1>5, <1>6, <1>7, <1>8, <1>9

LEMMA LearnsHistory ==
    ASSUME History, NEW n \in Nodes, NEW b \in Block, Learns(n, b)
    PROVE  History'
  BY DEF History, Fresh, Indexed, Turns, OneBlockPerTurn, OwnBlocks, Learns

LEMMA ClimbsHistory ==
    ASSUME Basic, History, NEW n \in Nodes, NEW b \in Block, Climbs(n, b)
    PROVE  History'
<1> USE DEF History
<1>t. current \in [Nodes -> Block \cup {NoBlock}]
      /\ trie \in [Nodes -> [Heights -> Block \cup {NoBlock}]]
  BY DEF Basic, TypeOK
<1>1. /\ current[n] \in Block
      /\ b.index = Index(current[n]) + 1
      /\ trie[n][b.index] = NoBlock /\ trie[n][0] # NoBlock
      /\ current' = [current EXCEPT ![n] = b]
      /\ \A p \in Nodes : p # n => trie'[p] = trie[p]
      /\ trie' = trie \/ trie'[n] = [trie[n] EXCEPT ![b.index] = b]
  BY ClimbsWhere
<1>2. /\ \A p \in Nodes : p # n => current'[p] = current[p]
      /\ current'[n] = b /\ Index(current'[n]) = b.index
      /\ b.index \in Heights /\ b.index \in Nat /\ b.index >= 1
      /\ b # NoBlock
  BY <1>t, <1>1, IndexInHeights, BlockSyncAssumption
<1>3. \A h \in Heights : trie'[n][h] \in {trie[n][h]} \/ (h = b.index /\ trie'[n][h] = b)
  BY <1>t, <1>1
<1>4. Fresh'
  BY <1>1, <1>2, <1>3, IndexInHeights DEF Fresh
<1>5. Indexed'
  <2> SUFFICES ASSUME NEW p \in Nodes, NEW h \in Heights, trie'[p][h] # NoBlock
               PROVE  trie'[p][h].index = h /\ h <= Index(current'[p])
    BY DEF Indexed
  <2>1. CASE p # n
    BY <1>1, <1>2, <2>1 DEF Indexed
  <2>2. CASE p = n /\ h = b.index /\ trie'[n][h] = b
    BY <1>2, <2>2
  <2>3. CASE p = n /\ trie'[n][h] = trie[n][h]
    <3>1. trie[n][h].index = h /\ h <= Index(current[n])
      BY <2>3 DEF Indexed
    <3>2. h \in Nat /\ Index(current[n]) \in Nat
      BY <1>t, IndexInHeights DEF Heights
    <3> QED
      BY <1>1, <1>2, <2>3, <3>1, <3>2
  <2> QED
    BY <1>3, <2>1, <2>2, <2>3
<1>7. ASSUME NEW d \in proposed
      PROVE  /\ d.proposer \in Nodes /\ d.index \in Nat
             /\ d.index <= Index(current'[d.proposer])
             /\ trie'[d.proposer][d.index] \in {d, NoBlock}
  <2>1. d.proposer \in Nodes /\ d.index \in Nat
    BY IndexInHeights DEF Basic, TypeOK, Block
  <2>2. d.index <= Index(current[d.proposer]) /\ Index(current[d.proposer]) \in Nat
    BY <1>t, <2>1, IndexInHeights DEF Turns
  <2>3. trie'[d.proposer][d.index] = trie[d.proposer][d.index]
    <3>1. CASE d.proposer # n
      BY <1>1, <2>1, <3>1
    <3>2. CASE d.proposer = n
      <4>1. d.index \in Heights /\ d.index # b.index
        BY <1>1, <2>2, <3>2 DEF Basic, TypeOK, Block
      <4> QED
        BY <1>3, <3>2, <4>1
    <3> QED
      BY <3>1, <3>2
  <2> QED
    BY <1>1, <1>2, <2>1, <2>2, <2>3 DEF OwnBlocks
<1>8. CASE UNCHANGED proposed
  <2>1. Turns' /\ OneBlockPerTurn' /\ OwnBlocks'
    BY <1>7, <1>8 DEF Turns, OneBlockPerTurn, OwnBlocks
  <2> QED
    BY <1>4, <1>5, <2>1
<1>9. CASE /\ b.proposer = n
           /\ CheckProposalCondition(n)
           /\ proposed' = proposed \cup {b}
  <2>1. Eligible(b.index - 1, b.proposer)
    <3>1. b.index - 1 = current[n].index
      BY <1>1, IndexInHeights
    <3> QED
      BY <1>9, <3>1 DEF CheckProposalCondition
  <2>2. Turns'
    BY <1>2, <1>7, <1>9, <2>1 DEF Turns
  <2>3. OneBlockPerTurn'
    <3>1. \A d \in proposed : d.proposer = n => d.index # b.index
      BY <1>1, <1>2, <1>t, IndexInHeights DEF Turns, Basic, TypeOK, Block
    <3> QED
      BY <1>9, <3>1 DEF OneBlockPerTurn
  <2>4. OwnBlocks'
    <3>1. trie'[n][b.index] \in {b, NoBlock}
      BY <1>1, <1>2, <1>3
    <3> QED
      BY <1>7, <1>9, <3>1 DEF OwnBlocks
  <2> QED
    BY <1>4, <1>5, <2>2, <2>3, <2>4
<1> QED
  BY <1>8, <1>9 DEF Climbs

LEMMA StepHistory == Basic /\ History /\ DiskStep => History'
<1> SUFFICES ASSUME Basic, History, DiskStep PROVE History'
  OBVIOUS
<1>1. CASE Quiet
  BY <1>1 DEF Quiet, History, Fresh, Indexed, Turns, OneBlockPerTurn, OwnBlocks
<1> QED
  BY <1>1, BeginsHistory, LearnsHistory, ClimbsHistory DEF DiskStep

-----------------------------------------------------------------------------
(* The inductive invariant, and what follows from it.                       *)

IInv == Basic /\ Provenance /\ History

THEOREM Invariance == Spec => []IInv
<1>1. Init => IInv
  BY InitBasic, InitProvenance, InitHistory DEF IInv
<1>2. IInv /\ [Next]_vars => IInv'
  BY StepBasic, StepProvenance, StepHistory DEF IInv
<1> QED
  BY <1>1, <1>2, PTL DEF Spec

\* No node signs two blocks for one height, whatever it loses when it dies.
THEOREM SignsOnce == Spec => []OneBlockPerTurn
<1>1. IInv => OneBlockPerTurn
  BY DEF IInv, History
<1> QED
  BY <1>1, Invariance, PTL

\* From the third height on, a height has one signed block.
LEMMA OneBlockAbove ==
    ASSUME IInv, NEW b \in proposed, NEW d \in proposed,
           b.index = d.index, b.index >= FirstAgreed
    PROVE  b = d
<1>1. /\ b.proposer \in ConfigNodes /\ d.proposer \in ConfigNodes
      /\ b.index \in Nat
  BY BlockSyncAssumption, IndexInHeights DEF IInv, Basic, TypeOK, Block
<1>2. Eligible(b.index - 1, b.proposer) /\ Eligible(b.index - 1, d.proposer)
  BY DEF IInv, History, Turns
<1>3. b.index - 1 \in Nat /\ b.index - 1 >= 2
  BY <1>1 DEF FirstAgreed
<1>4. b.proposer = d.proposer
  BY <1>1, <1>2, <1>3, OneTurn
<1> QED
  BY <1>4 DEF IInv, History, OneBlockPerTurn

\* Nodes agree from the third height on, for any number of nodes of the
\* configuration, any faults and whatever fork there is below.
THEOREM NodesAgree == Spec => []Agreement
<1>1. IInv => Agreement
  <2> SUFFICES ASSUME IInv, NEW n \in Nodes, NEW p \in Nodes, NEW h \in Heights,
                      h >= FirstAgreed, trie[n][h] # NoBlock, trie[p][h] # NoBlock
               PROVE  trie[n][h] = trie[p][h]
    BY DEF Agreement
  <2>1. trie[n][h].index = h /\ trie[p][h].index = h
    BY DEF IInv, History, Indexed
  <2>2. trie[n][h] \in Known /\ trie[p][h] \in Known
    BY DEF IInv, Provenance
  <2>3. h # 0
    BY DEF FirstAgreed, Heights
  <2>4. trie[n][h] \in proposed /\ trie[p][h] \in proposed
    BY <2>1, <2>2, <2>3 DEF Known, Genesis
  <2> QED
    BY <2>1, <2>4, OneBlockAbove
<1> QED
  BY <1>1, Invariance, PTL

-----------------------------------------------------------------------------
(* What no step may do.                                                     *)

NoStepBack ==
    \A n \in Nodes :
        /\ Index(current'[n]) >= Index(current[n])
        /\ \A h \in Heights : trie[n][h] # NoBlock => trie'[n][h] = trie[n][h]

LEMMA DiskStepsForward ==
    ASSUME IInv, DiskStep
    PROVE  NoStepBack
<1>t. /\ current \in [Nodes -> Block \cup {NoBlock}]
      /\ trie \in [Nodes -> [Heights -> Block \cup {NoBlock}]]
      /\ Basic /\ History
  BY DEF IInv, Basic, TypeOK
<1>n. \A p \in Nodes : Index(current[p]) \in Nat
  BY <1>t, IndexInHeights
<1>1. CASE Quiet \/ \E n \in Nodes, b \in Block : Learns(n, b)
  BY <1>1, <1>n DEF Quiet, Learns, NoStepBack
<1>2. ASSUME NEW n \in Nodes, Begins(n) PROVE NoStepBack
  <2>1. Index(current[n]) = 0 /\ \A h \in Heights : trie[n][h] = NoBlock
    BY <1>2, <1>t DEF Begins, History, Fresh
  <2>2. \A p \in Nodes : p # n => current'[p] = current[p] /\ trie'[p] = trie[p]
    BY <1>2, <1>t DEF Begins
  <2>3. Index(current'[n]) = 0
    BY <1>2, <1>t, <2>1, IndexInHeights DEF Begins
  <2> QED
    BY <1>n, <2>1, <2>2, <2>3 DEF NoStepBack
<1>3. ASSUME NEW n \in Nodes, NEW b \in Block, Climbs(n, b) PROVE NoStepBack
  <2>1. /\ b.index = Index(current[n]) + 1
        /\ trie[n][b.index] = NoBlock
        /\ current' = [current EXCEPT ![n] = b]
        /\ \A p \in Nodes : p # n => trie'[p] = trie[p]
        /\ trie' = trie \/ trie'[n] = [trie[n] EXCEPT ![b.index] = b]
    BY <1>3, <1>t, ClimbsWhere
  <2>2. /\ \A p \in Nodes : p # n => current'[p] = current[p]
        /\ Index(current'[n]) = Index(current[n]) + 1
    BY <1>t, <2>1, IndexInHeights
  <2>3. \A h \in Heights : trie[n][h] # NoBlock => trie'[n][h] = trie[n][h]
    BY <1>t, <2>1
  <2> QED
    BY <1>n, <2>1, <2>2, <2>3 DEF NoStepBack
<1> QED
  BY <1>1, <1>2, <1>3 DEF DiskStep

\* No node goes back to a lower CURRENT_BLOCK, and none forgets
\* or replaces a block of its trie.
THEOREM NeverBack == Spec => ForwardOnly
<1>1. IInv /\ [Next]_vars => [NoStepBack]_vars
  BY StepProvenance, DiskStepsForward DEF IInv
<1>2. Spec => [][NoStepBack]_vars
  BY <1>1, Invariance, PTL DEF Spec
<1> QED
  BY <1>2 DEF ForwardOnly, NoStepBack

-----------------------------------------------------------------------------
(* The refinement.                                                          *)

LEMMA InitRefines == Init => Log!Init
<1> SUFFICES ASSUME Init PROVE Log!Init
  OBVIOUS
<1>1. \A n \in Nodes : {trie[n][h] : h \in Heights \ {0}} \ {NoBlock} = {}
  BY DEF Init
<1> QED
  BY <1>1 DEF Init, Log!Init, Index

HeldBy(n) == {trie[n][h] : h \in Heights \ {0}} \ {NoBlock}

\* A block that is put at a height above 0 where there was none is added to
\* what the node holds.
LEMMA HeldGrows ==
    ASSUME trie \in [Nodes -> [Heights -> Block \cup {NoBlock}]],
           NEW n \in Nodes, NEW b \in Block, b.index # 0,
           trie[n][b.index] = NoBlock,
           trie'[n] = [trie[n] EXCEPT ![b.index] = b]
    PROVE  HeldBy(n)' = HeldBy(n) \cup {b}
<1>1. b.index \in Heights \ {0} /\ b # NoBlock
  BY BlockSyncAssumption DEF Block
<1>2. \A h \in Heights : trie'[n][h] = IF h = b.index THEN b ELSE trie[n][h]
  OBVIOUS
<1>3. Heights' = Heights
  BY DEF Heights
<1> QED
  BY <1>1, <1>2, <1>3 DEF HeldBy

\* A step onto block b is a climb of the abstract log.
LEMMA ClimbsTo ==
    ASSUME IInv, NEW n \in Nodes, NEW b \in Block, Climbs(n, b)
    PROVE  Log!ClimbTo(n, b)
<1>t. /\ current \in [Nodes -> Block \cup {NoBlock}]
      /\ trie \in [Nodes -> [Heights -> Block \cup {NoBlock}]]
  BY DEF IInv, Basic, TypeOK
<1>1. /\ b.index = Index(current[n]) + 1
      /\ trie[n][b.index] = NoBlock
      /\ current' = [current EXCEPT ![n] = b]
      /\ \A p \in Nodes : p # n => trie'[p] = trie[p]
      /\ trie' = trie \/ trie'[n] = [trie[n] EXCEPT ![b.index] = b]
  BY ClimbsWhere DEF IInv
<1>2. b.index # 0 /\ Index(b) = b.index
  BY <1>t, <1>1, IndexInHeights
<1> DEFINE height == [p \in Nodes |-> Index(current[p])]
           held == [p \in Nodes |-> HeldBy(p)]
<1>3. height' = [height EXCEPT ![n] = b.index]
  <2>1. \A p \in Nodes : Index(current'[p]) = IF p = n THEN b.index ELSE Index(current[p])
    BY <1>t, <1>1, <1>2
  <2>2. height' = [p \in Nodes |-> Index(current'[p])]
    BY DEF Index
  <2> QED
    BY <2>1, <2>2
<1>4. held' = held \/ held' = [held EXCEPT ![n] = @ \cup {b}]
  <2>0. held' = [p \in Nodes |-> HeldBy(p)']
    OBVIOUS
  <2>1. CASE trie' = trie
    <3>1. \A p \in Nodes : HeldBy(p)' = HeldBy(p)
      BY <2>1 DEF HeldBy, Heights
    <3> QED
      BY <2>0, <3>1
  <2>2. CASE trie'[n] = [trie[n] EXCEPT ![b.index] = b]
    <3>1. HeldBy(n)' = HeldBy(n) \cup {b}
      BY <1>t, <1>1, <1>2, <2>2, HeldGrows
    <3>2. \A p \in Nodes : p # n => HeldBy(p)' = HeldBy(p)
      BY <1>1 DEF HeldBy, Heights
    <3> QED
      BY <2>0, <3>1, <3>2
  <2> QED
    BY <1>1, <2>1, <2>2
<1> QED
  BY <1>1, <1>3, <1>4 DEF Log!ClimbTo, HeldBy

LogHeight == [n \in Nodes |-> Index(current[n])]
LogHeld == [n \in Nodes |-> HeldBy(n)]

\* Genesis blocks, announcements and everything about processes, connections
\* and messages are steps that the abstract log does not see.
LEMMA StutterRefines ==
    ASSUME IInv,
           \/ Quiet
           \/ \E n \in Nodes : Begins(n)
           \/ \E n \in Nodes, b \in Block : Learns(n, b)
    PROVE  LogHeight' = LogHeight /\ LogHeld' = LogHeld /\ proposed' = proposed
<1>t. /\ current \in [Nodes -> Block \cup {NoBlock}]
      /\ trie \in [Nodes -> [Heights -> Block \cup {NoBlock}]]
  BY DEF IInv, Basic, TypeOK
<1> SUFFICES /\ proposed' = proposed
             /\ \A p \in Nodes : /\ Index(current'[p]) = Index(current[p])
                                 /\ \A h \in Heights \ {0} : trie'[p][h] = trie[p][h]
  BY DEF LogHeight, LogHeld, HeldBy, Index, Heights
<1>1. CASE Quiet \/ \E n \in Nodes, b \in Block : Learns(n, b)
  BY <1>1 DEF Quiet, Learns
<1>2. ASSUME NEW n \in Nodes, Begins(n)
      PROVE  /\ proposed' = proposed
             /\ \A p \in Nodes : /\ Index(current'[p]) = Index(current[p])
                                 /\ \A h \in Heights \ {0} : trie'[p][h] = trie[p][h]
  <2>1. Index(current[n]) = 0
    BY <1>2 DEF Begins, IInv, History, Fresh
  <2>2. Index(current'[n]) = 0
    BY <1>2, <1>t, IndexInHeights DEF Begins
  <2>3. \A p \in Nodes : p # n => current'[p] = current[p]
    BY <1>2, <1>t DEF Begins
  <2>4. \A p \in Nodes, h \in Heights \ {0} : trie'[p][h] = trie[p][h]
    BY <1>2, <1>t, IndexInHeights DEF Begins
  <2> QED
    BY <1>2, <2>1, <2>2, <2>3, <2>4 DEF Begins
<1> QED
  BY <1>1, <1>2

\* A signed block is the first of its height, when the height is agreed on.
LEMMA ClimbRefines ==
    ASSUME IInv, NEW n \in Nodes, NEW b \in Block, Climbs(n, b)
    PROVE  Log!Decide(n, b) \/ Log!Adopt(n, b)
<1>1. Log!ClimbTo(n, b)
  BY ClimbsTo
<1>2. /\ current[n] \in Block /\ b.index = Index(current[n]) + 1
      /\ b.index \in Nat /\ Index(current[n]) \in Nat
  BY ClimbsWhere, IndexInHeights DEF IInv
<1>3. CASE b \in Known /\ UNCHANGED proposed
  <2>1. b \in proposed
    BY <1>2, <1>3 DEF Known, Genesis
  <2> QED
    BY <1>1, <1>3, <2>1 DEF Log!Adopt
<1>4. CASE /\ b.proposer = n
           /\ CheckProposalCondition(n)
           /\ proposed' = proposed \cup {b}
  <2>1. ASSUME NEW d \in proposed, b.index >= FirstAgreed, d.index = b.index
        PROVE  FALSE
    <3>1. Eligible(b.index - 1, n)
      <4>1. b.index - 1 = current[n].index
        BY <1>2, IndexInHeights
      <4> QED
        BY <1>4, <4>1 DEF CheckProposalCondition
    <3>2. /\ Eligible(b.index - 1, d.proposer)
          /\ d.index <= Index(current[d.proposer])
      BY <2>1 DEF IInv, History, Turns
    <3>3. n \in ConfigNodes /\ d.proposer \in ConfigNodes
      BY BlockSyncAssumption DEF IInv, Basic, TypeOK, Block
    <3>4. b.index - 1 \in Nat /\ b.index - 1 >= 2
      BY <1>2, <2>1 DEF FirstAgreed
    <3>5. n = d.proposer
      BY <3>1, <3>2, <3>3, <3>4, OneTurn
    <3> QED
      BY <1>2, <2>1, <3>2, <3>5
  <2> QED
    BY <1>1, <1>4, <2>1 DEF Log!Decide
<1> QED
  BY <1>3, <1>4 DEF Climbs

\* Block synchronisation implements the abstract log, faults and all.
THEOREM Refinement == Spec => ImplementsAgreedLog
<1>1. Init => Log!Init
  BY InitRefines
<1>2. IInv /\ [Next]_vars => [Log!Next]_(Log!logVars)
  <2> SUFFICES ASSUME IInv, [Next]_vars PROVE [Log!Next]_(Log!logVars)
    OBVIOUS
  <2>1. DiskStep
    BY StepProvenance DEF IInv
  <2>2. CASE \E n \in Nodes, b \in Block : Climbs(n, b)
    BY <2>2, ClimbRefines DEF Log!Next
  <2>3. CASE \/ Quiet
             \/ \E n \in Nodes : Begins(n)
             \/ \E n \in Nodes, b \in Block : Learns(n, b)
    BY <2>3, StutterRefines DEF Log!logVars, LogHeight, LogHeld, HeldBy
  <2> QED
    BY <2>1, <2>2, <2>3 DEF DiskStep
<1> QED
  BY <1>1, <1>2, Invariance, PTL DEF Spec, ImplementsAgreedLog, Log!Spec


-----------------------------------------------------------------------------
(* What the deaths inside a save can cost.                                  *)

AllHoles == UNION {{n} \X Holes(n) : n \in Nodes}

HolesCounted ==
    /\ IsFiniteSet(AllHoles)
    /\ Cardinality(AllHoles) <= MaxCuts - budget.cut

HolesKept == AllHoles' \subseteq AllHoles /\ budget'.cut = budget.cut

\* A death inside a save, which leaves one hole at most.
HolesPaid ==
    /\ budget'.cut = budget.cut - 1
    /\ \E x : AllHoles' \subseteq AllHoles \cup {x}

LEMMA HolesCount ==
    ASSUME Basic, HolesCounted, HolesKept \/ HolesPaid
    PROVE  HolesCounted'
<1>1. budget.cut \in Nat /\ MaxCuts \in Nat
  BY BlockSyncAssumption DEF Basic, TypeOK
<1>2. CASE HolesKept
  <2>1. IsFiniteSet(AllHoles') /\ Cardinality(AllHoles') <= Cardinality(AllHoles)
        /\ Cardinality(AllHoles) \in Nat /\ Cardinality(AllHoles') \in Nat
    BY <1>2, Grows DEF HolesCounted, HolesKept
  <2> HIDE DEF AllHoles
  <2> QED
    BY <1>1, <1>2, <2>1 DEF HolesCounted, HolesKept
<1>3. CASE HolesPaid
  <2>1. PICK x : AllHoles' \subseteq AllHoles \cup {x}
    BY <1>3 DEF HolesPaid
  <2>2. IsFiniteSet(AllHoles') /\ Cardinality(AllHoles') <= Cardinality(AllHoles) + 1
        /\ Cardinality(AllHoles) \in Nat /\ Cardinality(AllHoles') \in Nat
    BY <2>1, Grows DEF HolesCounted
  <2> HIDE DEF AllHoles
  <2> QED
    BY <1>1, <1>3, <2>2 DEF HolesCounted, HolesPaid
<1> QED
  BY <1>2, <1>3

\* A saved block leaves no hole, and one whose save is cut leaves its own.
LEMMA SaveHoles ==
    ASSUME DiskTypeOK, NEW n \in Nodes, NEW b \in Block, current[n] # NoBlock, IsNext(n, b)
    PROVE  /\ SaveBlockToTrie(n, b) => AllHoles' \subseteq AllHoles
           /\ SaveBlockToTrieCut(n, b) => AllHoles' \subseteq AllHoles \cup {<<n, b.index>>}
<1>1. /\ b.index \in Nat /\ current[n].index \in Nat /\ b.index = current[n].index + 1
      /\ b.index \in Heights /\ \A h \in Heights : h \in Nat
  BY BlockSyncAssumption DEF DiskTypeOK, Block, Heights, IsNext
<1>2. ASSUME NEW p \in Nodes, NEW h \in Holes(p)',
             SaveBlockToTrie(n, b) \/ SaveBlockToTrieCut(n, b)
      PROVE  h \in Holes(p) \/ (~SaveBlockToTrie(n, b) /\ p = n /\ h = b.index)
  <2>1. CASE p # n
    BY <1>2, <2>1 DEF DiskTypeOK, SaveBlockToTrie, SaveBlockToTrieCut, Holes
  <2>2. CASE p = n
    <3>1. h \in Heights /\ h <= b.index /\ trie'[n][h] = NoBlock
      BY <1>2, <2>2 DEF DiskTypeOK, SaveBlockToTrie, SaveBlockToTrieCut, Holes
    <3>2. CASE h = b.index
      <4>1. ~SaveBlockToTrie(n, b)
        BY <1>1, <3>1, <3>2, BlockSyncAssumption DEF SaveBlockToTrie, DiskTypeOK
      <4> QED
        BY <1>2, <2>2, <3>2, <4>1
    <3>3. CASE h # b.index
      <4>1. h <= current[n].index
        BY <1>1, <3>1, <3>3
      <4>2. trie[n][h] = NoBlock
        BY <1>1, <1>2, <3>1, <3>3 DEF SaveBlockToTrie, SaveBlockToTrieCut, DiskTypeOK
      <4> QED
        BY <2>2, <3>1, <4>1, <4>2 DEF Holes
    <3> QED
      BY <3>2, <3>3
  <2> QED
    BY <2>1, <2>2
<1>3. ASSUME SaveBlockToTrie(n, b) \/ SaveBlockToTrieCut(n, b), NEW x \in AllHoles'
      PROVE  x \in AllHoles \/ (~SaveBlockToTrie(n, b) /\ x = <<n, b.index>>)
  <2>1. PICK p \in Nodes : \E h \in Holes(p)' : x = <<p, h>>
    BY <1>3 DEF AllHoles
  <2>2. PICK h \in Holes(p)' : x = <<p, h>>
    BY <2>1
  <2>3. h \in Holes(p) \/ (~SaveBlockToTrie(n, b) /\ p = n /\ h = b.index)
    BY <1>2, <1>3
  <2>4. h \in Holes(p) => x \in AllHoles
    BY <2>2 DEF AllHoles
  <2> QED
    BY <2>2, <2>3, <2>4
<1> HIDE DEF AllHoles
<1> QED
  BY <1>3

LEMMA HolesSpend ==
    ASSUME Basic, NEW f \in {"crash", "cut", "hangup", "loss"}, Spend(f)
    PROVE  budget'.cut = IF f = "cut" THEN budget.cut - 1 ELSE budget.cut
  BY DEF Basic, TypeOK, Spend

LEMMA HolesStep ==
    ASSUME Basic, [Next]_vars
    PROVE  HolesKept \/ HolesPaid
<1>0. DiskTypeOK /\ 0 \in Heights /\ (\A h \in Heights : h \in Nat)
  BY BlockSyncAssumption DEF Basic, TypeOK, DiskTypeOK, Heights
<1>1. ASSUME UNCHANGED <<current, trie>>, budget'.cut = budget.cut
      PROVE  HolesKept
  BY <1>1 DEF HolesKept, AllHoles, Holes
<1>2. ASSUME NEW n \in Nodes, NEW p \in Nodes, NEW m, Reads(n, p, m)
      PROVE  current[n] # NoBlock
  BY <1>2, ReadsConnected, ConnectedUp, BlockSyncAssumption
<1>3. ASSUME NEW n \in Nodes, NEW b \in Block, Proposes(n, b)
      PROVE  current[n] # NoBlock /\ IsNext(n, b)
  BY <1>3 DEF Basic, TypeOK, Proposes, NewBlock, IsNext
<1>4. ASSUME NEW n \in Nodes, trie[n][0] = NoBlock,
             current' = [current EXCEPT ![n] = Genesis(n)],
             trie' = trie \/ SaveGenesis(n)
      PROVE  /\ AllHoles' \subseteq AllHoles \cup {<<n, 0>>}
             /\ SaveGenesis(n) => AllHoles' \subseteq AllHoles
  <2>1. current'[n].index = 0 /\ Genesis(n) # NoBlock
    BY <1>0, <1>4, GenesisIsBlock, BlockSyncAssumption DEF DiskTypeOK, Genesis
  <2>2. ASSUME NEW p \in Nodes, NEW h \in Holes(p)'
        PROVE  h \in Holes(p) \/ (p = n /\ h = 0 /\ ~SaveGenesis(n))
    <3>1. CASE p # n
      BY <1>0, <1>4, <2>2, <3>1 DEF DiskTypeOK, SaveGenesis, Holes
    <3>2. CASE p = n
      <4>1. h \in Heights /\ h = 0 /\ trie'[n][0] = NoBlock
        BY <1>0, <2>1, <2>2, <3>2 DEF Holes
      <4>2. SaveGenesis(n) => trie'[n][0] = Genesis(n)
        BY <1>0 DEF SaveGenesis, DiskTypeOK
      <4> QED
        BY <2>1, <3>2, <4>1, <4>2
    <3> QED
      BY <3>1, <3>2
  <2> QED
    BY <2>2 DEF AllHoles
<1>5. ASSUME NEW n \in Nodes, Alone(n) PROVE HolesKept \/ HolesPaid
  <2>1. CASE Start(n)
    <3>1. CASE trie[n][0] = NoBlock /\ SaveGenesis(n)
      BY <1>4, <2>1, <3>1 DEF Start, SaveGenesis, HolesKept
    <3>2. CASE UNCHANGED disk
      BY <1>1, <2>1, <3>2 DEF Start, disk
    <3> QED
      BY <2>1, <3>1, <3>2 DEF Start
  <2>2. CASE StartCut(n)
    BY <1>4, <2>2, HolesSpend DEF StartCut, HolesPaid
  <2>3. CASE Crash(n)
    BY <1>1, <2>3, HolesSpend DEF Crash
  <2>4. CASE ProposeOrphan(n)
    BY <1>0, <1>3, <2>4, SaveHoles DEF ProposeOrphan, HolesKept
  <2>5. CASE ProposeCut(n)
    BY <1>0, <1>3, <2>5, SaveHoles, HolesSpend DEF ProposeCut, HolesPaid
  <2> QED
    BY <1>5, <2>1, <2>2, <2>3, <2>4, <2>5 DEF Alone
<1>6. ASSUME NEW n \in Nodes, NEW p \in Nodes,
             Connect(n, p) \/ Hangup(n, p) \/ Lose(n, p) \/ Timer(n, p)
      PROVE  HolesKept \/ HolesPaid
  <2>1. CASE Hangup(n, p) \/ Lose(n, p)
    BY <1>1, <2>1, HolesSpend DEF Hangup, Lose
  <2>2. CASE Connect(n, p) \/ RequestLast(n, p) \/ RequestBlock(n, p)
    BY <1>1, <2>2 DEF Connect, RequestLast, RequestBlock
  <2>3. CASE Propose(n, p)
    BY <1>0, <1>3, <2>3, SaveHoles DEF Propose, HolesKept
  <2> QED
    BY <1>6, <2>1, <2>2, <2>3 DEF Timer
<1>7. ASSUME NEW n \in Nodes, NEW p \in Nodes,
             Receive(n, p) \/ HandleNewBlockCut(n, p)
      PROVE  HolesKept \/ HolesPaid
  <2>1. CASE HandleLastBlockRequest(n, p) \/ HandleBlockRequest(n, p)
                \/ HandleLastBlockResponse(n, p) \/ SaveLastBlock(n, p)
    BY <1>1, <2>1
       DEF HandleLastBlockRequest, HandleBlockRequest, HandleLastBlockResponse, SaveLastBlock
  <2>2. CASE HandleNewBlock(n, p)
    <3>1. PICK b \in Block : /\ Reads(n, p, BlockMsg(b))
                             /\ \/ Accepts(n, b) /\ SaveBlockToTrie(n, b)
                                \/ ~Accepts(n, b) /\ UNCHANGED disk
      BY <2>2 DEF HandleNewBlock
    <3>2. budget' = budget
      BY <2>2 DEF HandleNewBlock
    <3> QED
      BY <1>0, <1>1, <1>2, <3>1, <3>2, SaveHoles DEF Accepts, HolesKept, disk
  <2>3. CASE HandleNewBlockCut(n, p)
    <3>1. PICK b \in Block : Reads(n, p, BlockMsg(b)) /\ Accepts(n, b) /\ SaveBlockToTrieCut(n, b)
      BY <2>3 DEF HandleNewBlockCut
    <3>2. budget'.cut = budget.cut - 1
      BY <2>3, HolesSpend DEF HandleNewBlockCut
    <3> QED
      BY <1>0, <1>2, <3>1, <3>2, SaveHoles DEF Accepts, HolesPaid
  <2> QED
    BY <1>7, <2>1, <2>2, <2>3 DEF Receive
<1>8. CASE UNCHANGED vars
  BY <1>1, <1>8 DEF vars
<1> QED
  BY <1>5, <1>6, <1>7, <1>8 DEF Next

LEMMA CountsHoles == Spec => []HolesCounted
<1>1. Init => HolesCounted
  <2> SUFFICES ASSUME Init PROVE HolesCounted
    OBVIOUS
  <2>1. AllHoles = {}
    BY DEF Init, AllHoles, Holes
  <2>2. MaxCuts - budget.cut = 0
    BY BlockSyncAssumption DEF Init
  <2> QED
    BY <2>1, <2>2, FS_EmptySet DEF HolesCounted
<1>2. Basic /\ HolesCounted /\ [Next]_vars => HolesCounted'
  BY HolesStep, HolesCount
<1> QED
  BY <1>1, <1>2, InitBasic, StepBasic, PTL DEF Spec

\* A block is missing under CURRENT_BLOCK only for a death of a process between
\* the writes of CURRENT_BLOCK and ROOT_HASH, one block for each such death.
THEOREM LosesByCutsOnly == Spec => []HolesAreCuts
<1>1. HolesCounted => HolesAreCuts
  BY DEF HolesCounted, HolesAreCuts, AllHoles
<1> QED
  BY <1>1, CountsHoles, PTL

\* A signed block that is in no trie is a hole of its signer, and two of them
\* are two holes: the blocks lost are as few as the deaths inside a save.
THEOREM BlocksLostByCutsOnly == Spec => []LostBlocksAreCuts
<1>1. IInv /\ HolesCounted => LostBlocksAreCuts
  <2> SUFFICES ASSUME IInv, HolesCounted PROVE LostBlocksAreCuts
    OBVIOUS
  <2> DEFINE lost == {b \in proposed : \A n \in Nodes : trie[n][b.index] # b}
             hole == [b \in lost |-> <<b.proposer, b.index>>]
  <2>1. ASSUME NEW b \in lost
        PROVE  hole[b] \in AllHoles
    <3>1. b.proposer \in Nodes /\ b.index \in Heights /\ b.index >= 1
      BY DEF IInv, Basic, TypeOK, Block, History, Turns
    <3>2. trie[b.proposer][b.index] = NoBlock
      BY <3>1 DEF IInv, History, OwnBlocks
    <3>3. b.index <= Index(current[b.proposer])
      BY DEF IInv, History, Turns
    <3>4. current[b.proposer] # NoBlock /\ b.index <= current[b.proposer].index
      <4>1. b.index \in Nat
        BY IndexInHeights DEF IInv, Basic, TypeOK
      <4> QED
        BY <3>1, <3>3, <4>1 DEF Index
    <3>5. b.index \in Holes(b.proposer)
      BY <3>1, <3>2, <3>4 DEF Holes
    <3> QED
      BY <3>1, <3>5 DEF AllHoles
  <2>2. \A b, d \in lost : hole[b] = hole[d] => b = d
    BY DEF IInv, History, OneBlockPerTurn
  <2>3. hole \in Injection(lost, AllHoles)
    <3> HIDE DEF AllHoles
    <3> QED
      BY <2>1, <2>2 DEF Injection, IsInjective
  <2>4. Cardinality(lost) <= Cardinality(AllHoles) /\ IsFiniteSet(lost)
    BY <2>3, FS_Injection DEF HolesCounted
  <2>5. /\ Cardinality(lost) \in Nat /\ Cardinality(AllHoles) \in Nat
        /\ MaxCuts - budget.cut \in Int
    BY <2>4, FS_CardinalityType, BlockSyncAssumption DEF HolesCounted, IInv, Basic, TypeOK
  <2> HIDE DEF lost, AllHoles
  <2>6. Cardinality(lost) <= MaxCuts - budget.cut
    BY <2>4, <2>5 DEF HolesCounted
  <2> QED
    BY <2>6 DEF LostBlocksAreCuts, lost
<1> QED
  BY <1>1, Invariance, CountsHoles, PTL

=============================================================================
