----------------------------- MODULE NodeStore ------------------------------
(***************************************************************************)
(* The LevelDB and the tries of one node, at the grain of single Puts and  *)
(* trie calls.  SaveBlockToTrie runs under bc.mut; the receive loops read  *)
(* the tries and write LAST_BLOCK without it, and the process can die      *)
(* between any two steps.  The rest of the network is the height it has    *)
(* reached, the claims it makes and the blocks it sends.                   *)
(*                                                                         *)
(* Each block lists one transaction, named by the height of the block; the *)
(* account trie has the life cycle of the transaction trie and is left to  *)
(* module Ledger.  Put and Get of LevelDB are atomic and durable.          *)
(***************************************************************************)
EXTENDS Naturals, FiniteSets

CONSTANTS
    Peers,       \* the connections, each with its receive loop
    Turn,        \* the heights at which this node proposes
    MaxHeight,   \* bound: the height of the chain
    MaxDeaths,   \* bound: deaths of the process
    MaxLost,     \* bound: trie updates undone by a concurrent reader
    MaxStrays,   \* bound: listed transactions that are not saved
    MaxLosses,   \* bound: proposals lost in a Send, and saves that end in an error
    MaxFaults    \* bound: these together

Heights == 0..MaxHeight
Tries == {"block", "tx"}

\* life: in which life of the process this node signed the block, 0 for the
\* blocks of others.  Two proposals for one height differ in it (Time).
Block == [index : Heights, life : 0..(MaxDeaths + MaxLost + 1)]
Genesis == [index |-> 0, life |-> 0]

\* The transaction that b lists, named by the height of b.
TxOf(b) == [index |-> b.index, life |-> 0]

ASSUME NodeStoreAssumption ==
    /\ IsFiniteSet(Peers)
    /\ Turn \subseteq Heights \ {0}
    /\ MaxHeight \in Nat
    /\ MaxDeaths \in Nat
    /\ MaxLost \in Nat
    /\ MaxStrays \in Nat
    /\ MaxLosses \in Nat
    /\ MaxFaults \in Nat

VARIABLES
    up,         \* the process runs
    current,    \* CURRENT_BLOCK in LevelDB, its index
    last,       \* LAST_BLOCK in LevelDB, its index
    root,       \* root[t]: what the trie under ROOT_HASH or TX_ROOT_HASH has
    mem,        \* mem[t]: what the trie in bc.tr or bc.txTrie has
    open,       \* open[t]: bc.tr or bc.txTrie is not a committed trie
    save,       \* the save in progress: its step, block and transaction, and
                \* LAST_BLOCK as read
    reading,    \* reading[p]: the trie read that loop p is inside of
    claiming,   \* claiming[p]: the handleLastBlockResponse loop p is inside of
    outbox,     \* proposals saved and not yet sent
    net,        \* the height the peers have reached
    served,     \* history: the blocks that left this node
    budget      \* faults that may still happen

disk == <<current, last, root>>
tries == <<mem, open>>
loops == <<reading, claiming>>
vars == <<up, disk, tries, save, loops, outbox, net, served, budget>>

NoSave == [step |-> "idle", block |-> Genesis, tx |-> TxOf(Genesis),
           lastRead |-> 0, by |-> "nobody"]
NoRead == [trie |-> "none", item |-> Genesis, seen |-> {}, live |-> FALSE]
NoClaim == [index |-> 0, read |-> 0]

Ends == (MaxDeaths - budget.death) + (MaxLost - budget.lost)

Life == Ends + 1

Spend(fault) ==
    /\ budget[fault] > 0
    /\ budget.all > 0
    /\ budget' = [budget EXCEPT ![fault] = @ - 1, !.all = @ - 1]

\* The receive loop of p handles no message.
Idle(p) ==
    /\ reading[p] = NoRead
    /\ claiming[p] = NoClaim
    /\ save.by # p

-----------------------------------------------------------------------------
(* The steps of a save, in the order of the code: SaveTransactionToTrie,    *)
(* then SaveBlockToTrie.                                                    *)

\* Mutant: CURRENT_BLOCK and LAST_BLOCK are written once the block can be read.
AfterCurrentLate ==
    [begin |-> "txUpdate", txUpdate |-> "txCommit", txCommit |-> "txRoot",
     txRoot |-> "txSwap", txSwap |-> "check", check |-> "update",
     update |-> "commit", commit |-> "swap", swap |-> "current",
     current |-> "last", last |-> "root", root |-> "idle"]

\* Mutant: the transaction trie that was committed stays in bc.txTrie.
AfterNoSwap ==
    [begin |-> "txUpdate", txUpdate |-> "txCommit", txCommit |-> "txRoot",
     txRoot |-> "check", txSwap |-> "check", check |-> "current",
     current |-> "last", last |-> "update", update |-> "commit",
     commit |-> "swap", swap |-> "root", root |-> "idle"]

\* Mutant: the transactions are saved after the block that lists them.
AfterBlockFirst ==
    [begin |-> "check", check |-> "current", current |-> "last",
     last |-> "update", update |-> "commit", commit |-> "swap",
     swap |-> "root", root |-> "txUpdate", txUpdate |-> "txCommit",
     txCommit |-> "txRoot", txRoot |-> "txSwap", txSwap |-> "idle"]

After ==
    [begin |-> "txUpdate", txUpdate |-> "txCommit", txCommit |-> "txRoot",
     txRoot |-> "txSwap", txSwap |-> "check", check |-> "current",
     current |-> "last", last |-> "update", update |-> "commit",
     commit |-> "swap", swap |-> "root", root |-> "idle"]

UpdateStep == [tx |-> "txUpdate", block |-> "update"]
CommitStep == [tx |-> "txCommit", block |-> "commit"]
SwapStep == [tx |-> "txSwap", block |-> "swap"]
RootStep == [tx |-> "txRoot", block |-> "root"]

\* What the save in progress puts into trie t.
Item(t) == IF t = "tx" THEN save.tx ELSE save.block

GoTo(step) == IF step = "idle" THEN NoSave ELSE [save EXCEPT !.step = step]

At(step) == up /\ save.step = step

Advance == save' = GoTo(After[save.step])

\* The holder of bc.mut starts to save b, with transaction x, at a step.
StartSave(b, x, step, who) ==
    /\ save = NoSave
    /\ save' = [step |-> step, block |-> b, tx |-> x, lastRead |-> 0, by |-> who]

\* The transaction that b lists is saved; one that is in the trie is skipped.
Begin(b, who) ==
    StartSave(b, TxOf(b), IF TxOf(b) \in mem.tx THEN "check" ELSE After.begin, who)

\* ProposeNewBlock, called by a proposal loop.
Propose ==
    /\ up
    /\ current >= last
    /\ current + 1 \in Turn
    /\ Begin([index |-> current + 1, life |-> Life], "proposer")
    /\ UNCHANGED <<up, disk, tries, loops, outbox, net, served, budget>>

\* The blocks of index k that HandleNewBlock, called by the receive loop of p,
\* goes on with: a block of this index in the trie ends it.
Arriving(p, k) ==
    {b \in Block :
        /\ up
        /\ Idle(p)
        /\ k \in 1..net
        /\ \A d \in mem.block : d.index # k
        /\ b.index = k
        /\ IF k \in Turn THEN b \in served ELSE b.life = 0}

BlockArrives(p, k) ==
    /\ \E b \in Arriving(p, k) : Begin(b, p)
    /\ UNCHANGED <<up, disk, tries, loops, outbox, net, served, budget>>

\* The transaction that the block lists is not saved: its sender cannot pay,
\* or the fetch returned another one.  Where that one is in the trie already,
\* the process ends at its Commit: Die stands for it.
BlockStrays(p, k) ==
    /\ \E b \in Arriving(p, k) :
          /\ TxOf(b) \notin mem.tx
          /\ \/ StartSave(b, TxOf(b), "check", p)
             \/ \E i \in (1..net) \ {k} :
                   /\ TxOf([b EXCEPT !.index = i]) \notin mem.tx
                   /\ StartSave(b, TxOf([b EXCEPT !.index = i]), After.begin, p)
    /\ Spend("stray")
    /\ UNCHANGED <<up, disk, tries, loops, outbox, net, served>>

\* An error of a later transaction ends the loop, what is saved stays.
LoopFails ==
    /\ At("check")
    /\ save' = NoSave
    /\ Spend("loss")
    /\ UNCHANGED <<up, disk, tries, loops, outbox, net, served>>

\* SaveBlockToTrie reads CURRENT_BLOCK and LAST_BLOCK; a block that is not
\* the next ends it, its transactions saved.
CheckIndex ==
    /\ At("check")
    /\ \/ /\ save.block.index = current + 1
          /\ save' = [GoTo(After.check) EXCEPT !.lastRead = last]
       \/ /\ save.block.index # current + 1
          /\ save' = NoSave
    /\ UNCHANGED <<up, disk, tries, loops, outbox, net, served, budget>>

SaveCurrentBlock ==
    /\ At("current")
    /\ current' = save.block.index
    /\ Advance
    /\ UNCHANGED <<up, last, root, tries, loops, outbox, net, served, budget>>

\* The LAST_BLOCK that is compared is the one read before.
SaveLastBlock ==
    /\ At("last")
    /\ last' = IF save.block.index > save.lastRead THEN save.block.index ELSE last
    /\ Advance
    /\ UNCHANGED <<up, current, root, tries, loops, outbox, net, served, budget>>

Update(t) ==
    /\ At(UpdateStep[t])
    /\ mem' = [mem EXCEPT ![t] = @ \cup {Item(t)}]
    /\ Advance
    /\ UNCHANGED <<up, disk, open, loops, outbox, net, served, budget>>

\* The nodes are in LevelDB; the trie refuses reads from here on.
Commit(t) ==
    /\ At(CommitStep[t])
    /\ open' = [open EXCEPT ![t] = FALSE]
    /\ Advance
    /\ UNCHANGED <<up, disk, mem, loops, outbox, net, served, budget>>

\* Mutant: the new trie is restored from the ROOT_HASH in LevelDB.
SwapFromDisk(t) ==
    /\ At(SwapStep[t])
    /\ open' = [open EXCEPT ![t] = TRUE]
    /\ mem' = [mem EXCEPT ![t] = root[t]]
    /\ reading' = [p \in Peers |-> [reading[p] EXCEPT !.live = @ /\ reading[p].trie # t]]
    /\ Advance
    /\ UNCHANGED <<up, disk, claiming, outbox, net, served, budget>>

\* The trie restored from the committed root takes the place of the old one;
\* readers that began before keep the old one.
Swap(t) ==
    /\ At(SwapStep[t])
    /\ open' = [open EXCEPT ![t] = TRUE]
    /\ reading' = [p \in Peers |-> [reading[p] EXCEPT !.live = @ /\ reading[p].trie # t]]
    /\ Advance
    /\ UNCHANGED <<up, disk, mem, claiming, outbox, net, served, budget>>

\* The Put of ROOT_HASH or TX_ROOT_HASH.  A block of this node is then handed
\* to the proposal loop, to be sent.
PutRoot(t) ==
    /\ At(RootStep[t])
    /\ root' = [root EXCEPT ![t] = mem[t]]
    /\ outbox' = IF t = "block" /\ save.by = "proposer"
                 THEN outbox \cup {save.block} ELSE outbox
    /\ Advance
    /\ UNCHANGED <<up, current, last, tries, loops, net, served, budget>>

-----------------------------------------------------------------------------
(* What the receive loops do without bc.mut.                                *)

\* Block b leaves this node: a peer that lacks it, and only it, takes it.
Leaves(b) ==
    /\ served' = served \cup {b}
    /\ net' = IF b.index = net + 1 THEN b.index ELSE net

\* GetBlockFromTrie, or GetTransactionByIDFromNode, for a request of p.  A
\* committed trie returns an error and p gets no answer.
ReadBegin(p, t) ==
    /\ up
    /\ Idle(p)
    /\ open[t]
    /\ \E x \in mem[t] \ {Genesis} :
          reading' = [reading EXCEPT
              ![p] = [trie |-> t, item |-> x, seen |-> mem[t], live |-> TRUE]]
    /\ UNCHANGED <<up, disk, tries, save, claiming, outbox, net, served, budget>>

Answer(p) ==
    /\ reading[p] # NoRead
    /\ reading' = [reading EXCEPT ![p] = NoRead]
    /\ \/ reading[p].trie = "block" /\ Leaves(reading[p].item)
       \/ reading[p].trie = "tx" /\ UNCHANGED <<net, served>>

ReadEnd(p) ==
    /\ Answer(p)
    /\ UNCHANGED <<up, disk, tries, save, claiming, outbox, budget>>

\* A read that resolved nodes from LevelDB makes what it saw the root of the
\* trie it read, so that an update made in between is undone.
ReadEndUndoes(p) ==
    /\ Answer(p)
    /\ reading[p].live
    /\ open[reading[p].trie]
    /\ mem[reading[p].trie] # reading[p].seen
    /\ mem' = [mem EXCEPT ![reading[p].trie] = reading[p].seen]
    /\ Spend("lost")
    /\ UNCHANGED <<up, disk, open, save, claiming, outbox>>

\* handleLastBlockResponse: p claims index c, and LAST_BLOCK is read ...
ClaimBegin(p, c) ==
    /\ up
    /\ Idle(p)
    /\ c \in 1..net
    /\ c > last
    /\ claiming' = [claiming EXCEPT ![p] = [index |-> c, read |-> last]]
    /\ UNCHANGED <<up, disk, tries, save, reading, outbox, net, served, budget>>

\* Mutant: a claim must be ahead by two.
ClaimPutOffByOne(p) ==
    /\ claiming[p] # NoClaim
    /\ last' = IF claiming[p].index > claiming[p].read + 1 THEN claiming[p].index ELSE last
    /\ claiming' = [claiming EXCEPT ![p] = NoClaim]
    /\ UNCHANGED <<up, current, root, tries, save, reading, outbox, net, served, budget>>

\* ... and written, if the claim is above what was read.
ClaimPut(p) ==
    /\ claiming[p] # NoClaim
    /\ last' = IF claiming[p].index > claiming[p].read THEN claiming[p].index ELSE last
    /\ claiming' = [claiming EXCEPT ![p] = NoClaim]
    /\ UNCHANGED <<up, current, root, tries, save, reading, outbox, net, served, budget>>

\* The proposal loop sends the block it was given.
SendProposal(b) ==
    /\ b \in outbox
    /\ outbox' = outbox \ {b}
    /\ Leaves(b)
    /\ UNCHANGED <<up, disk, tries, save, loops, budget>>

LoseProposal(b) ==
    /\ b \in outbox
    /\ Spend("loss")
    /\ outbox' = outbox \ {b}
    /\ UNCHANGED <<up, disk, tries, save, loops, net, served>>

\* The peers agree on a block that is not this node's to propose.
Grow ==
    /\ net < MaxHeight
    /\ net + 1 \notin Turn
    /\ net' = net + 1
    /\ UNCHANGED <<up, disk, tries, save, loops, outbox, served, budget>>

-----------------------------------------------------------------------------
(* The process.                                                             *)

\* All that is left is LevelDB; the next Init restores the tries from it.
Stop ==
    /\ up' = FALSE
    /\ mem' = root
    /\ open' = [t \in Tries |-> TRUE]
    /\ save' = NoSave
    /\ reading' = [p \in Peers |-> NoRead]
    /\ claiming' = [p \in Peers |-> NoClaim]
    /\ outbox' = {}
    /\ UNCHANGED <<disk, net, served>>

Die ==
    /\ up
    /\ Spend("death")
    /\ Stop

\* Commit of a trie in which nothing changed returns no nodes, which the node
\* set it is merged into does not expect: the process may end there.
CommitPanics(t) ==
    /\ At(CommitStep[t])
    /\ Item(t) \notin mem[t]
    /\ Stop
    /\ UNCHANGED budget

Restart ==
    /\ ~up
    /\ up' = TRUE
    /\ UNCHANGED <<disk, tries, save, loops, outbox, net, served, budget>>

-----------------------------------------------------------------------------
Init ==
    /\ up = TRUE
    /\ current = 0
    /\ last = 0
    /\ root = [tx |-> {}, block |-> {Genesis}]
    /\ mem = root
    /\ open = [t \in Tries |-> TRUE]
    /\ save = NoSave
    /\ reading = [p \in Peers |-> NoRead]
    /\ claiming = [p \in Peers |-> NoClaim]
    /\ outbox = {}
    /\ net = 0
    /\ served = {}
    /\ budget = [death |-> MaxDeaths, lost |-> MaxLost, stray |-> MaxStrays,
                 loss |-> MaxLosses, all |-> MaxFaults]

SaveStep == \/ CheckIndex \/ SaveCurrentBlock \/ SaveLastBlock
            \/ \E t \in Tries : Update(t) \/ Commit(t) \/ Swap(t) \/ PutRoot(t)

Next ==
    \/ Propose \/ SaveStep \/ LoopFails \/ Grow \/ Die \/ Restart
    \/ \E p \in Peers :
          \/ \E k \in Heights :
                BlockArrives(p, k) \/ BlockStrays(p, k) \/ ClaimBegin(p, k)
          \/ \E t \in Tries : ReadBegin(p, t)
          \/ ReadEnd(p) \/ ReadEndUndoes(p) \/ ClaimPut(p)
    \/ \E t \in Tries : CommitPanics(t)
    \/ \E b \in Block : SendProposal(b) \/ LoseProposal(b)

Spec == Init /\ [][Next]_vars

-----------------------------------------------------------------------------
(* Fairness.  A step of a goroutine that runs is taken; a stopped node is   *)
(* started again; a receive loop is busy now and then, so that what it is   *)
(* sent every second or two is handled under strong fairness.  Neither the  *)
(* reads of peers nor the growth of their chain is fair.                    *)

\* The answer to the request for the block after CURRENT_BLOCK, which the
\* node makes while LAST_BLOCK is ahead.
NextArrives(p) == current < last /\ BlockArrives(p, current + 1)

Fairness ==
    /\ WF_vars(SaveStep)
    /\ WF_vars(Restart)
    /\ \A p \in Peers :
          /\ WF_vars(ReadEnd(p))
          /\ WF_vars(ClaimPut(p))
          /\ SF_vars(ClaimBegin(p, net))
          /\ SF_vars(NextArrives(p))

FairSpec == Spec /\ Fairness

-----------------------------------------------------------------------------
(* Properties.                                                              *)

\* The shape of the state; between two saves both tries can be read, and a
\* stopped node has no state but LevelDB.
TypeOK ==
    /\ up \in BOOLEAN
    /\ current \in Heights
    /\ last \in Heights
    /\ \A t \in Tries : root[t] \subseteq Block /\ mem[t] \subseteq Block
    /\ open \in [Tries -> BOOLEAN]
    /\ save.step \in DOMAIN After \cup {"idle"}
    /\ save.block \in Block
    /\ save.lastRead \in Heights
    /\ save = NoSave => \A t \in Tries : open[t]
    /\ ~up => mem = root /\ save = NoSave
    /\ \A p \in Peers : reading[p].live => reading[p].trie \in Tries
    /\ claiming \in [Peers -> [index : Heights, read : Heights]]
    /\ outbox \subseteq Block
    /\ net \in Heights
    /\ served \subseteq Block
    /\ budget \in [{"death", "lost", "stray", "loss", "all"} -> Nat]

\* Whatever the process dies in the middle of, its peers never see two blocks
\* of this node for one height: a block can be read, and sent, only once
\* CURRENT_BLOCK is past its height for good (SaveBlockToTrie).
ServedOnce == \A b, d \in served : b.index = d.index => b = d

\* A block that a peer can get from this node lists a transaction that it can
\* get from this node too, now and after a restart, but for one block for each
\* save that a reader undid, each sender that could not pay and each fetch that
\* returned another transaction: deaths, late blocks and errors in the loop add
\* none (ProcessTransactionsByIDs and ProcessMempoolTransactions end before
\* SaveBlockToTrie begins).
BlocksComeWithTransactions ==
    LET bare == {b \in mem.block \ {Genesis} : TxOf(b) \notin mem.tx}
    IN  Cardinality(bare) <= (MaxLost - budget.lost) + (MaxStrays - budget.stray)

\* The heights that CURRENT_BLOCK is past and whose block is not in LevelDB,
\* but for the one that is being saved.
Holes == {h \in 1..current :
             /\ \A b \in root.block : b.index # h
             /\ save.block.index # h}

\* A block is missing under CURRENT_BLOCK only where the process died in the
\* middle of its save or a concurrent reader undid its update, one for each:
\* the order of Commit, swap and Put loses no block of its own.
HolesAreFaults == Cardinality(Holes) <= Ends

\* Claims of LAST_BLOCK that overwrite one another, deaths, undone updates:
\* the node gets up to the height of its peers again and again.
CatchUp == []<>(current >= net)

=============================================================================
