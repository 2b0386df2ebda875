----------------------------- MODULE BlockSync ------------------------------
(***************************************************************************)
(* Block production and synchronisation of the nodes of app/: what each    *)
(* node keeps in LevelDB (CURRENT_BLOCK, LAST_BLOCK, the block trie), the  *)
(* messages of the "ping" protocol of p2pnetwork.go, the timers that send  *)
(* them, restarts and lost connections.                                    *)
(*                                                                         *)
(* One action is one run of a handler or one round of a timer loop, but    *)
(* for two things.  A handler that writes several keys can be cut by the   *)
(* death of the process between two of its writes: the actions named       *)
(* ...Cut.  And LAST_BLOCK is compared and written without a lock: a       *)
(* receive loop that is about to write it is between two actions, and a    *)
(* save may overwrite what it wrote.                                       *)
(***************************************************************************)
EXTENDS Rotation, Sequences, FiniteSets

CONSTANTS
    Nodes,        \* the config indices of the nodes that take part
    Bodies,       \* what tells apart two blocks of a proposer: Txns and Time
    EmptyBody,    \* the body of a genesis block
    NoBlock,      \* a LevelDB or trie key that has no value
    MaxHeight,    \* bound: no proposal above this height
    ChanCap,      \* bound: messages in flight between two nodes
    MaxCrashes,   \* bound: deaths of a process between two handlers
    MaxCuts,      \* bound: deaths of a process inside SaveBlockToTrie
    MaxHangups,   \* bound: connections lost while both ends live
    MaxLosses     \* bound: messages that fail to be sent or handled

Heights == 0..MaxHeight

\* The signature is the proposer: an honest node signs what it proposes.
Block == [index : Heights, proposer : Nodes, body : Bodies]

\* Each node makes a genesis block of its own, with its own Time.
Genesis(n) == [index |-> 0, proposer |-> n, body |-> EmptyBody]

ASSUME BlockSyncAssumption ==
    /\ Nodes \subseteq ConfigNodes
    /\ EmptyBody \in Bodies
    /\ NoBlock \notin Block
    /\ MaxHeight \in Nat
    /\ ChanCap \in Nat
    /\ MaxCrashes \in Nat
    /\ MaxCuts \in Nat
    /\ MaxHangups \in Nat
    /\ MaxLosses \in Nat

VARIABLES
    up,         \* up[n]: the process of node n runs
    current,    \* current[n]: CURRENT_BLOCK in the LevelDB of n
    last,       \* last[n]: LAST_BLOCK in the LevelDB of n
    trie,       \* trie[n][h]: the value of block_h under the ROOT_HASH of n
    pending,    \* pending[<<n, p>>]: the block that the receive loop of n for p
                \* found ahead of LAST_BLOCK and is about to Put there, or NoBlock
    conns,      \* the connections, each the set of its two ends
    orphan,     \* orphan[n]: n runs a proposal loop of a connection it lost
    chan,       \* chan[<<n, p>>]: the messages sent by n that p has not read
    proposed,   \* history: the blocks signed so far
    budget      \* faults that may still happen

disk == <<current, last, trie>>
vars == <<up, current, last, trie, pending, conns, orphan, chan, proposed, budget>>

-----------------------------------------------------------------------------
(* Messages.  BlockResponse and BlockProposalRequest have the same handler, *)
(* HandleNewBlock, and are one kind here.                                   *)

LastRequestMsg == [type |-> "lastRequest"]
BlockRequestMsg(h) == [type |-> "blockRequest", index |-> h]
LastBlockMsg(b) == [type |-> "lastBlock", block |-> b]
BlockMsg(b) == [type |-> "block", block |-> b]

\* The messages that carry no block but those of B.
MessagesOver(B) ==
    [type : {"lastRequest"}] \cup [type : {"blockRequest"}, index : Heights]
        \cup [type : {"lastBlock", "block"}, block : B]

Links == Nodes \X Nodes

Connected(n, p) == {n, p} \in conns

Peers(n) == {p \in Nodes : Connected(n, p)}

Send(n, p, m) == chan' = [chan EXCEPT ![<<n, p>>] = Append(@, m)]

\* A reply takes the place of its request, so no more than ChanCap messages
\* are ever in flight between two nodes.
HasRoom(n, p) == Len(chan[<<n, p>>]) + Len(chan[<<p, n>>]) < ChanCap

\* m is the next message that n reads on its connection with p.
Reads(n, p, m) ==
    /\ pending[<<n, p>>] = NoBlock
    /\ chan[<<p, n>>] # <<>>
    /\ m = Head(chan[<<p, n>>])

Drop(n, p) == chan' = [chan EXCEPT ![<<p, n>>] = Tail(@)]

\* n reads a message of p and answers it with m.
Reply(n, p, m) ==
    chan' = [chan EXCEPT ![<<p, n>>] = Tail(@), ![<<n, p>>] = Append(@, m)]

\* What the connections in gone had in flight is lost, both ways.
Cleared(gone) == [l \in Links |-> IF {l[1], l[2]} \in gone THEN <<>> ELSE chan[l]]

Spend(fault) ==
    /\ budget[fault] > 0
    /\ budget' = [budget EXCEPT ![fault] = @ - 1]

-----------------------------------------------------------------------------
(* SaveBlockToTrie and its interruption.                                    *)

SaveGenesis(n) ==
    /\ current' = [current EXCEPT ![n] = Genesis(n)]
    /\ last' = [last EXCEPT ![n] = Genesis(n)]
    /\ trie' = [trie EXCEPT ![n] = [@ EXCEPT ![0] = Genesis(n)]]

\* Mutant: a block may leave a gap.
IsNextOrLater(n, b) == b.index > current[n].index

\* The index check, which a block just proposed always passes.
IsNext(n, b) == b.index = current[n].index + 1

\* None of the receive loops in loops will Put a block any more.
NoPutBy(loops) ==
    pending' = [l \in Links |-> IF l \in loops THEN NoBlock ELSE pending[l]]

\* What follows the check, for an index above 0.  LAST_BLOCK is read before
\* the Put of CURRENT_BLOCK and written after it: what a receive loop of n
\* wrote in between is overwritten, whatever its index.
SaveBlockToTrie(n, b) ==
    /\ current' = [current EXCEPT ![n] = b]
    /\ \/ /\ b.index > last[n].index
          /\ last' = [last EXCEPT ![n] = b]
          /\ \E loops \in SUBSET {l \in Links : l[1] = n /\ pending[l] # NoBlock} :
                 NoPutBy(loops)
       \/ b.index <= last[n].index /\ UNCHANGED <<last, pending>>
    /\ trie' = [trie EXCEPT ![n] = [@ EXCEPT ![b.index] = b]]

\* Mutant: ROOT_HASH is written before CURRENT_BLOCK.
SaveBlockToTrieCutRootFirst(n, b) ==
    /\ trie' = [trie EXCEPT ![n] = [@ EXCEPT ![b.index] = b]]
    /\ UNCHANGED <<current, last>>

\* The process of n dies inside a handler; a receive loop of n may have made
\* its Put of LAST_BLOCK since the handler began.
LastAtDeath(n) ==
    \/ last' = last
    \/ \E p \in Nodes :
          /\ pending[<<n, p>>] # NoBlock
          /\ last' = [last EXCEPT ![n] = pending[<<n, p>>]]

\* The process dies after the first Put, or after the second, and before the
\* Put of ROOT_HASH: the trie that the next Init restores has no b.
SaveBlockToTrieCut(n, b) ==
    /\ current' = [current EXCEPT ![n] = b]
    /\ \/ LastAtDeath(n)
       \/ b.index > last[n].index /\ last' = [last EXCEPT ![n] = b]
    /\ UNCHANGED trie

\* The process of n is gone, and with it its goroutines and connections.
\* Each peer keeps the proposal loop of the connection it loses.
Die(n) ==
    LET gone == {c \in conns : n \in c}
    IN  /\ up' = [up EXCEPT ![n] = FALSE]
        /\ conns' = conns \ gone
        /\ orphan' = [p \in Nodes |-> p # n /\ (orphan[p] \/ Connected(n, p))]
        /\ chan' = Cleared(gone)
        /\ NoPutBy({n} \X Nodes)

-----------------------------------------------------------------------------
(* The process and its connections.                                         *)

\* Mutant: Init makes a genesis block although there is a trie to restore.
StartAfresh(n) ==
    /\ ~up[n]
    /\ up' = [up EXCEPT ![n] = TRUE]
    /\ SaveGenesis(n)
    /\ UNCHANGED <<pending, conns, orphan, chan, proposed, budget>>

\* main and Init: a genesis block is made when ROOT_HASH is missing, else the
\* trie is restored and CURRENT_BLOCK and LAST_BLOCK stay what they are.
Start(n) ==
    /\ ~up[n]
    /\ up' = [up EXCEPT ![n] = TRUE]
    /\ \/ trie[n][0] = NoBlock /\ SaveGenesis(n)
       \/ trie[n][0] # NoBlock /\ UNCHANGED disk
    /\ UNCHANGED <<pending, conns, orphan, chan, proposed, budget>>

\* The process dies while Init saves the genesis block.
StartCut(n) ==
    /\ ~up[n]
    /\ trie[n][0] = NoBlock
    /\ Spend("cut")
    /\ current' = [current EXCEPT ![n] = Genesis(n)]
    /\ \/ last' = last
       \/ last' = [last EXCEPT ![n] = Genesis(n)]
    /\ UNCHANGED <<up, trie, pending, conns, orphan, chan, proposed>>

Crash(n) ==
    /\ up[n]
    /\ Spend("crash")
    /\ Die(n)
    /\ LastAtDeath(n)
    /\ UNCHANGED <<current, trie, proposed>>

Connect(n, p) ==
    /\ n # p /\ up[n] /\ up[p] /\ ~Connected(n, p)
    /\ conns' = conns \cup {{n, p}}
    /\ UNCHANGED <<up, current, last, trie, pending, orphan, chan, proposed, budget>>

\* runProtocol returns at both ends; the proposal loops live on.
Hangup(n, p) ==
    /\ Connected(n, p)
    /\ Spend("hangup")
    /\ conns' = conns \ {{n, p}}
    /\ orphan' = [orphan EXCEPT ![n] = TRUE, ![p] = TRUE]
    /\ chan' = Cleared({{n, p}})
    /\ UNCHANGED <<up, current, last, trie, pending, proposed>>

\* A Send that fails, a block that the trie being committed cannot return, a
\* block refused for one of its transactions: the message has no effect.
Lose(n, p) ==
    /\ chan[<<p, n>>] # <<>>
    /\ Spend("loss")
    /\ Drop(n, p)
    /\ UNCHANGED <<up, current, last, trie, pending, conns, orphan, proposed>>

-----------------------------------------------------------------------------
(* The timer loops that runProtocol starts for each connection.             *)

\* Every 2 s: ask p for its LAST_BLOCK.
RequestLast(n, p) ==
    /\ Connected(n, p)
    /\ HasRoom(n, p)
    /\ Send(n, p, LastRequestMsg)
    /\ UNCHANGED <<up, current, last, trie, pending, conns, orphan, proposed, budget>>

\* Mutant: the block is asked for whatever LAST_BLOCK says.
RequestBlockUnguarded(n, p) ==
    /\ Connected(n, p)
    /\ HasRoom(n, p)
    /\ Send(n, p, BlockRequestMsg(current[n].index + 1))
    /\ UNCHANGED <<up, current, last, trie, pending, conns, orphan, proposed, budget>>

\* Mutant: the request names CURRENT_BLOCK, not the block after it.
RequestBlockOffByOne(n, p) ==
    /\ Connected(n, p)
    /\ HasRoom(n, p)
    /\ current[n].index < last[n].index
    /\ Send(n, p, BlockRequestMsg(current[n].index))
    /\ UNCHANGED <<up, current, last, trie, pending, conns, orphan, proposed, budget>>

\* Every second: ask p for the block after CURRENT_BLOCK, if LAST_BLOCK is
\* ahead of it.
RequestBlock(n, p) ==
    /\ Connected(n, p)
    /\ HasRoom(n, p)
    /\ current[n].index < last[n].index
    /\ Send(n, p, BlockRequestMsg(current[n].index + 1))
    /\ UNCHANGED <<up, current, last, trie, pending, conns, orphan, proposed, budget>>

\* Mutant: nobody waits for a turn.
CheckProposalConditionNoTurn(n) == current[n].index >= last[n].index

CheckProposalCondition(n) ==
    /\ current[n].index >= last[n].index
    /\ Eligible(current[n].index, n)

NewBlock(n, body) ==
    [index |-> current[n].index + 1, proposer |-> n, body |-> body]

\* ProposeNewBlock up to the save: the block of node n, if it has the turn.
Proposes(n, b) ==
    /\ up[n]
    /\ CheckProposalCondition(n)
    /\ current[n].index < MaxHeight
    /\ \E body \in Bodies : b = NewBlock(n, body)
    /\ proposed' = proposed \cup {b}

\* Every 5 s: the loop of the connection with p proposes a block and sends it
\* to p, and to no other peer.
Propose(n, p) ==
    /\ Connected(n, p)
    /\ HasRoom(n, p)
    /\ \E b \in Block :
          /\ Proposes(n, b)
          /\ SaveBlockToTrie(n, b)
          /\ Send(n, p, BlockMsg(b))
    /\ UNCHANGED <<up, conns, orphan, budget>>

\* The loop of a lost connection proposes too, and its Send fails.
ProposeOrphan(n) ==
    /\ orphan[n]
    /\ \E b \in Block :
          /\ Proposes(n, b)
          /\ SaveBlockToTrie(n, b)
    /\ UNCHANGED <<up, conns, orphan, chan, budget>>

ProposeCut(n) ==
    /\ orphan[n] \/ Peers(n) # {}
    /\ Spend("cut")
    /\ \E b \in Block :
          /\ Proposes(n, b)
          /\ SaveBlockToTrieCut(n, b)
    /\ Die(n)

-----------------------------------------------------------------------------
(* The receive loop of runProtocol: n reads a message of p.                 *)

HandleLastBlockRequest(n, p) ==
    /\ Reads(n, p, LastRequestMsg)
    /\ Reply(n, p, LastBlockMsg(last[n]))
    /\ UNCHANGED <<up, current, last, trie, pending, conns, orphan, proposed, budget>>

\* No answer when the trie does not hold the block.
HandleBlockRequest(n, p) ==
    /\ \E h \in Heights :
          /\ Reads(n, p, BlockRequestMsg(h))
          /\ \/ trie[n][h] # NoBlock /\ Reply(n, p, BlockMsg(trie[n][h]))
             \/ trie[n][h] = NoBlock /\ Drop(n, p)
    /\ UNCHANGED <<up, current, last, trie, pending, conns, orphan, proposed, budget>>

\* Only the index of the claimed LAST_BLOCK is looked at, and bc.mut is not
\* taken: what is read here may have changed when it is written.
HandleLastBlockResponse(n, p) ==
    /\ \E b \in Block :
          /\ Reads(n, p, LastBlockMsg(b))
          /\ \/ /\ b.index > last[n].index
                /\ pending' = [pending EXCEPT ![<<n, p>>] = b]
             \/ b.index <= last[n].index /\ UNCHANGED pending
    /\ Drop(n, p)
    /\ UNCHANGED <<up, current, last, trie, conns, orphan, proposed, budget>>

\* The Put of handleLastBlockResponse.
SaveLastBlock(n, p) ==
    /\ pending[<<n, p>>] # NoBlock
    /\ last' = [last EXCEPT ![n] = pending[<<n, p>>]]
    /\ pending' = [pending EXCEPT ![<<n, p>>] = NoBlock]
    /\ UNCHANGED <<up, current, trie, conns, orphan, chan, proposed, budget>>

\* Mutant: the result of VerifySignature is not ignored.
AcceptsVerified(n, b) ==
    /\ b.index # 0
    /\ trie[n][b.index] = NoBlock
    /\ VerifierIndex(b.index) = b.proposer
    /\ IsNext(n, b)

\* The early returns of HandleNewBlock.  Whether the signature matches is not
\* among them.
Accepts(n, b) ==
    /\ b.index # 0
    /\ trie[n][b.index] = NoBlock
    /\ VerifierIndex(b.index) \in ConfigNodes
    /\ IsNext(n, b)

HandleNewBlock(n, p) ==
    /\ \E b \in Block :
          /\ Reads(n, p, BlockMsg(b))
          /\ \/ Accepts(n, b) /\ SaveBlockToTrie(n, b)
             \/ ~Accepts(n, b) /\ UNCHANGED <<disk, pending>>
    /\ Drop(n, p)
    /\ UNCHANGED <<up, conns, orphan, proposed, budget>>

HandleNewBlockCut(n, p) ==
    /\ Spend("cut")
    /\ \E b \in Block :
          /\ Reads(n, p, BlockMsg(b))
          /\ Accepts(n, b)
          /\ SaveBlockToTrieCut(n, b)
    /\ Die(n)
    /\ UNCHANGED proposed

-----------------------------------------------------------------------------
Init ==
    /\ up = [n \in Nodes |-> FALSE]
    /\ current = [n \in Nodes |-> NoBlock]
    /\ last = [n \in Nodes |-> NoBlock]
    /\ trie = [n \in Nodes |-> [h \in Heights |-> NoBlock]]
    /\ pending = [l \in Links |-> NoBlock]
    /\ conns = {}
    /\ orphan = [n \in Nodes |-> FALSE]
    /\ chan = [l \in Links |-> <<>>]
    /\ proposed = {}
    /\ budget = [crash |-> MaxCrashes, cut |-> MaxCuts,
                 hangup |-> MaxHangups, loss |-> MaxLosses]

Alone(n) == \/ Start(n) \/ StartCut(n) \/ Crash(n)
            \/ ProposeOrphan(n) \/ ProposeCut(n)

Timer(n, p) == RequestLast(n, p) \/ RequestBlock(n, p) \/ Propose(n, p)

Receive(n, p) == \/ HandleLastBlockRequest(n, p) \/ HandleBlockRequest(n, p)
                 \/ HandleLastBlockResponse(n, p) \/ SaveLastBlock(n, p)
                 \/ HandleNewBlock(n, p)

Next ==
    \/ \E n \in Nodes : Alone(n)
    \/ \E n, p \in Nodes :
          \/ Connect(n, p) \/ Hangup(n, p) \/ Lose(n, p)
          \/ Timer(n, p) \/ Receive(n, p) \/ HandleNewBlockCut(n, p)

Spec == Init /\ [][Next]_vars

-----------------------------------------------------------------------------
(* Fairness.  A loop that sleeps and sends runs again and again whatever     *)
(* the others do, but finds room in its channel only now and then: strong   *)
(* fairness.  A message that waits to be read stays the next one until it   *)
(* is read, a stopped node stays stopped until it is started, and two nodes *)
(* without a connection stay so until one dials the other: weak fairness.   *)
(* No fault is fair.                                                        *)

Fairness ==
    /\ \A n \in Nodes : WF_vars(Start(n))
    /\ \A n, p \in Nodes :
          /\ WF_vars(Connect(n, p))
          /\ WF_vars(Receive(n, p))
          /\ SF_vars(RequestLast(n, p))
          /\ SF_vars(RequestBlock(n, p))
          /\ SF_vars(Propose(n, p))

FairSpec == Spec /\ Fairness

-----------------------------------------------------------------------------
(* Properties.                                                              *)

\* The shape of the state; a running node has a genesis block or later in
\* CURRENT_BLOCK and LAST_BLOCK (Init does not return before it saved one).
TypeOK ==
    /\ up \in [Nodes -> BOOLEAN]
    /\ current \in [Nodes -> Block \cup {NoBlock}]
    /\ last \in [Nodes -> Block \cup {NoBlock}]
    /\ trie \in [Nodes -> [Heights -> Block \cup {NoBlock}]]
    /\ pending \in [Links -> Block \cup {NoBlock}]
    /\ conns \subseteq SUBSET Nodes
    /\ orphan \in [Nodes -> BOOLEAN]
    /\ chan \in [Links -> Seq(MessagesOver(Block))]
    /\ proposed \subseteq Block
    /\ budget \in [{"crash", "cut", "hangup", "loss"} -> Nat]
    /\ \A n \in Nodes : up[n] => current[n] # NoBlock /\ last[n] # NoBlock

\* From FirstAgreed on, exactly one node may follow a block of a given height:
\* below it the subtraction of CheckProposalCondition wraps.
FirstAgreed == 3

\* Two nodes never hold different blocks at the same height, from height 3
\* on, whatever crashed, was lost or was proposed below (CheckProposalCondition
\* gives the turn, HandleNewBlock takes any block of the right index).
Agreement ==
    \A n, p \in Nodes, h \in Heights :
        /\ h >= FirstAgreed
        /\ trie[n][h] # NoBlock
        /\ trie[p][h] # NoBlock
        => trie[n][h] = trie[p][h]

\* A node signs at most one block for a height, also when it died while it
\* saved one: CURRENT_BLOCK is written before anything else is.
OneBlockPerTurn ==
    \A b, d \in proposed :
        b.index = d.index /\ b.proposer = d.proposer => b = d

Holes(n) == {h \in Heights :
                /\ current[n] # NoBlock
                /\ h <= current[n].index
                /\ trie[n][h] = NoBlock}

\* A node that moved past a height can serve the block of that height to the
\* others: all that can be missing is what SaveBlockToTrie lost by the death
\* of the process between CURRENT_BLOCK and ROOT_HASH, one block for each.
HolesAreCuts ==
    LET holes == UNION {{n} \X Holes(n) : n \in Nodes}
    IN  Cardinality(holes) <= MaxCuts - budget.cut

\* A block that was signed is in some trie, from where a node that asks can have
\* it, but for one block for each such death: no restart, and no block of another
\* proposer for that height, takes the place of it.
LostBlocksAreCuts ==
    LET lost == {b \in proposed : \A n \in Nodes : trie[n][b.index] # b}
    IN  Cardinality(lost) <= MaxCuts - budget.cut

Index(b) == IF b = NoBlock THEN 0 ELSE b.index

\* Across messages, deaths and restarts, no node moves back to a lower
\* CURRENT_BLOCK, or replaces a block it holds.
ForwardOnly ==
    [][\A n \in Nodes :
          /\ Index(current'[n]) >= Index(current[n])
          /\ \A h \in Heights : trie[n][h] # NoBlock => trie'[n][h] = trie[n][h]]_vars

\* Block synchronisation implements the log that agrees from FirstAgreed on:
\* blocks are decided when signed, a node is as high as its CURRENT_BLOCK and
\* holds what its trie holds.
Log == INSTANCE AgreedLog WITH
    decided <- proposed,
    height <- [n \in Nodes |-> Index(current[n])],
    held <- [n \in Nodes |-> {trie[n][h] : h \in Heights \ {0}} \ {NoBlock}]

ImplementsAgreedLog == Log!Spec

\* No node stays behind the LAST_BLOCK it has heard of: the loops that ask for
\* the next block get it there, whichever answers come late or twice.
CatchUp == \A n \in Nodes : []<>(Index(current[n]) >= Index(last[n]))

\* Every node gets to the top of the chain, whatever dies between handlers or is
\* lost, unless some node for ever announces less than it holds: its LAST_BLOCK
\* was overwritten with an older claim, and the others never ask it.
Progress ==
    (\A n \in Nodes : []<>(Index(last[n]) >= Index(current[n])))
        => \A n \in Nodes : <>(Index(current[n]) = MaxHeight)

-----------------------------------------------------------------------------
(* What the documentation says and the code does not do.                    *)

\* README.md:159, a node fetches the blocks it misses from the other nodes.
MissingBlocksArrive == CatchUp

=============================================================================
