# Verification of go-blockchain-demo

TLA+ models of the node program in `src/app`, the TLC configurations that
check them on small instances, and TLAPS proofs of what holds for every
instance.  Paths below are relative to `src/app/internal` unless they start
with `src/`.

- [The system](#the-system)
- [Modules](#modules)
- Model and code: [BlockSync](#blocksync-model-and-code), [Ledger](#ledger-model-and-code),
  [TxFetch](#txfetch-model-and-code), [NodeStore](#nodestore-model-and-code),
  [ReplicatedLedger](#replicatedledger-model-and-code)
- [Runs](#runs)
- [Fairness](#fairness)
- [Proofs](#proofs)
- [Where the code departs from its documentation](#where-the-code-departs-from-its-documentation)
- [Assumptions, and what is not modelled](#assumptions-and-what-is-not-modelled)
- [Plan](#plan)

## The system

Three nodes, configured by `src/app/config/config1.json` to `config3.json`,
keep a chain of blocks and a ledger of accounts.  A node is one process with a
LevelDB directory.  The nodes talk over the devp2p server of go-ethereum with
one protocol, "ping"; users talk to a node over HTTP.  There is no consensus
protocol: whose turn it is to propose a block follows from the height and the
config index.

| Component | Code | State | Operations |
|---|---|---|---|
| Turn of proposal | `blockchain/chain.go:410-450`, `575` | none | `CheckProposalCondition`; the key that `HandleNewBlock` looks up |
| Block production and synchronisation | `blockchain/chain.go`, `p2pnetwork/p2pnetwork.go:119-345` | in LevelDB: `CURRENT_BLOCK` (the newest block saved), `LAST_BLOCK` (the highest block heard of), `ROOT_HASH` (the trie of blocks) | `Init`, `ProposeNewBlock`, `SaveBlockToTrie`, `HandleNewBlock`; four loops per connection: ask for `LAST_BLOCK` every 2 s, propose every 5 s, ask for the next block every second, receive |
| Ledger | `blockchain/tx.go`, `account.go` | in LevelDB: `ACC_ROOT_HASH` (the trie of accounts), `TX_ROOT_HASH` (the trie of executed transactions); in memory: the mempool | `CreateAndAddTransaction`, `ProcessMempoolTransactions` (a proposal), `ProcessTransactionsByIDs` (a block received), `InitializeTestAccounts` |
| Fetch and broadcast of transactions | `p2pnetwork.go:397-520`, `tx.go:320-397` | `peerRWs`, `txChannels`, goroutines and timeouts | `GetTransactionByID`, `RequestTransaction`, `BroadcastTransaction`, and the two transaction messages of the receive loop |
| Replication of the ledger | the same | what each node executed, in which order | blocks carry lists of transaction IDs; a node executes the list of every block it receives |
| Tries and LevelDB | `chain.go:289-408`, `account.go:69-121`, `tx.go:123-182` | three tries, each swapped for a restored copy after every commit, and its root | commit, restore, `Put` of the root |
| Peer registry and connections | `p2pnetwork.go:523-620` | `peerRWs` | `setPeerRW`, `removePeerRW`, `cleanInvalidPeerRWs`, `maintainConnections` |
| HTTP API | `api/server.go` | none | `POST /api/transaction`; reads |
| Start of a node | `src/app/cmd/node/node.go`, `chain.go:71-197` | none | `main`, `Init` |
| Signatures | `chain.go:507-560`, `tx.go:67-120` | none | sign, recover, compare |
| bls-demo | `src/bls-demo` | none | stand-alone programs that share no code with `app` |

How they interact.  The loops of all connections, and the HTTP handlers, share
one `Blockchain` object.  `bc.mut` is held by `ProposeNewBlock` and
`HandleNewBlock` from beginning to end, so a node proposes one block or handles
one block at a time; the handlers of `LAST_BLOCK` and of block requests, and
the HTTP reads, do not take it.  The mempool has a lock of its own: a
transaction can be submitted while a loop executes others.  Every `Put` is
durable and there is no batch: an operation that makes several can be cut by the
death of the process between any two.

What is hard here, and what makes each part correct:

- *Turn*: the subtraction `Index+1-uint64(config index)` wraps for the first
  heights.  Correct means that from some height on one node has the turn.
- *Block synchronisation*: blocks arrive as proposals and as answers, late and
  repeatedly, while the node proposes itself, from loops that outlive their
  connection, and through restarts after a death between `Put`s.  Correct means
  that nodes agree on the heights with one proposer, that no node signs two blocks
  for its turn, goes back, replaces or loses a block, and that everyone gets to
  the top of the chain.
- *Ledger*: a transfer is three `Put`s.  Correct means that it looks like one
  step, happens once, that balances add up whatever dies in between, that a
  block lists what was executed and no two blocks list the same, and that no
  transaction waits for ever.
- *Fetch*: `HandleNewBlock` blocks its receive loop, with `bc.mut` held, on an
  answer that a receive loop of another node must give, under four timeouts, and
  reads from the streams that the receive loops read from.  Correct means that no
  nodes wait for each other in a circle, that every wait ends, and that what is
  returned was once asked for.
- *Store*: the receive loops read the tries, and write `LAST_BLOCK`, without
  `bc.mut` and so beside a save; the process can die between any two `Put`s.  Correct
  means that no peer ever gets two blocks of a node for one height, that a
  block is served with its transactions unless one of them was skipped, mixed up or
  undone, and that nothing is lost but for a fault.
- *Replication*: transactions of a block are executed before the block is
  accepted, and those of an abandoned proposal are in no block.  Correct would mean
  that nodes with the same blocks have the same accounts; the code has that only
  for nodes that abandoned nothing.

`PROJECT.json` lists the hazards line by line, each with the properties that
cover it, or why none does.

## Modules

| Module | What it is |
|---|---|
| `Rotation` | turn and verification key as arithmetic on unsigned words |
| `AgreedLog` | abstract: nodes climb a log of decided blocks; a height from `FirstAgreed` on is decided once |
| `BlockSync` | block production and synchronisation of all nodes; EXTENDS `Rotation`, implements `AgreedLog` |
| `AtomicLedger` | abstract: a transfer is one step and happens once |
| `Ledger` | the accounts, transactions and mempool of one node; implements `AtomicLedger` as long as no process dies inside a loop, no fetch is mixed up and nobody pays himself |
| `TxFetch` | how all nodes fetch the transactions of blocks from each other: receive loops, goroutines, timeouts; EXTENDS `Rotation` |
| `NodeStore` | the LevelDB and the tries of one node at the grain of single `Put`s and trie calls |
| `ReplicatedLedger` | `BlockSync` composed with a ledger and a mempool for each node; EXTENDS `BlockSync`, implements it |
| `MCBlockSync`, `MCLedger`, `MCTxFetch`, `MCNodeStore`, `MCReplicatedLedger` | the root modules of the runs: accounts, sets of transactions, mempools |
| `BlockSyncProofs`, `AgreedLogProofs`, `LedgerProofs`, `TxFetchProofs`, `NodeStoreProofs`, `NodeStoreFaults`, `ReplicatedLedgerProofs` | theorems |
| `Counting` | lemmas that the proofs share: induction over numbers, counts of the places of a sequence, sums over a finite set, folds of a sequence |

Names follow the source.  A definition marked `Mutant:` is a plausible bug
of the definition that follows it; `PROJECT.json` says which property notices it.

How the modules cut the program.  `BlockSync` abstracts the transactions and the
time of a block to a *body*, and makes a handler one step, but for a death inside
it and for the unlocked comparison and write of `LAST_BLOCK`.  What this leaves out is
in the modules around it:

- the three saves of a transfer, and the mempool: `Ledger`, which in turn
  abstracts the chain to the fact that a node proposes now and then and that blocks
  with some lists of transactions arrive;
- the execution of the body, and what becomes of it when the block is refused or the
  proposal abandoned: `ReplicatedLedger`, whose every step is a step of
  `BlockSync` or leaves its variables alone (proved), so that what holds of blocks
  there holds with ledgers too;
- the fetch inside `HandleNewBlock`: `TxFetch`, which keeps the chain to what lets a
  handler return early, and time to what lets a timer go off.  What it shows
  that a fetch can cost, one message of a receive loop, is the `Lose` of `BlockSync`;
  that it can return another transaction is the `Mixup` of `Ledger`;
- what receive loops do beside a save: `NodeStore`, for one node, the others being
  the height they have reached.

## BlockSync: model and code

| Variable | Code |
|---|---|
| `up[n]` | the process of node `n` has returned from `Init` and runs |
| `current[n]`, `last[n]` | the keys `CURRENT_BLOCK` and `LAST_BLOCK` |
| `trie[n][h]` | the value of `block_h` in the trie of the durable `ROOT_HASH` |
| `pending[<<n,p>>]` | the block that the receive loop of `n` for `p` found ahead of `LAST_BLOCK` and has not `Put` there yet (`p2pnetwork.go:361-368`) |
| `conns` | devp2p connections with their `runProtocol` at both ends |
| `orphan[n]` | a proposal loop of `n` runs on after its connection went: it never looks at `errChan` (`p2pnetwork.go:142-165`) |
| `chan[<<n,p>>]` | one devp2p stream, in order, both directions apart |
| `proposed` | history: every block signed |
| `budget` | faults that may still happen |

| Action | Code |
|---|---|
| `Start`, `StartCut` | `Init`: genesis block if `ROOT_HASH` is missing, else restore; `StartCut` dies in the `SaveBlockToTrie` of the genesis block |
| `RequestLast`, `RequestBlock`, `Propose` | the three timer loops of a connection |
| `ProposeOrphan` | the proposal loop of a lost connection: it saves the block, and the `Send` fails |
| `HandleLastBlockRequest`, `HandleBlockRequest` | the answers, of `LAST_BLOCK` and of the trie |
| `HandleLastBlockResponse`, `SaveLastBlock` | `handleLastBlockResponse`: the comparison, of the index of the claim only, and the `Put`; the loop reads no message in between |
| `HandleNewBlock` | the one handler of proposals and of answers to block requests |
| `ProposeCut`, `HandleNewBlockCut` | the process dies inside `SaveBlockToTrie`, after its first or second `Put` and before that of `ROOT_HASH` |
| `Crash`, `Connect`, `Hangup`, `Lose` | death between handlers; connections; a message that has no effect |

What two definitions say that the code hides well.  `SaveBlockToTrie` refuses a
block that is not the next (`IsNext`) and only then writes `CURRENT_BLOCK`,
`LAST_BLOCK` if lower, the trie and `ROOT_HASH`.  It reads `LAST_BLOCK` before its first
`Put` and writes it after that, without excluding the receive loops: any of the
`pending` claims may be written in between, and is then overwritten.  In the same way
one may be written in a handler that does not live to its end (`LastAtDeath`).
`Accepts` has no conjunct for the signature: `HandleNewBlock` drops the Boolean result
of `VerifySignature` and keeps its error, and an honest signature causes none.

The bodies: two proposals of one node for one height can differ in their list of
transactions and in their time, so a node that proposed a height twice would
show as two blocks that differ in the body.  That is why the faults run has two
bodies.

Properties: `Agreement` (from height 3 on, at most one block at a height
anywhere), `OneBlockPerTurn`, `HolesAreCuts` (a node misses a block below its
`CURRENT_BLOCK` only for a death inside `SaveBlockToTrie`, one for each),
`LostBlocksAreCuts` (a block that was signed and is in no trie was lost by such a death,
one for each), `ForwardOnly` (`CURRENT_BLOCK` never goes back and no block in a trie is
replaced; nothing of the kind holds of `LAST_BLOCK`), `ImplementsAgreedLog`, and the
liveness properties `CatchUp` (no node stays behind what it has heard of) and
`Progress` (every node gets to the top of the chain, if the `LAST_BLOCK` of each catches
up with its `CURRENT_BLOCK` again and again).  The condition of `Progress` is needed:
see `GetLastBlock` [below](#where-the-code-departs-from-its-documentation).
`FirstAgreed` is 3: heights 1 and 2 have two proposers each.

`ImplementsAgreedLog` maps `decided` to the blocks signed, `height` to the index of
`CURRENT_BLOCK` and `held` to the blocks in the trie.  A death inside
`SaveBlockToTrie` is the abstract node that climbs without keeping the block.

## Ledger: model and code

| Variable | Code |
|---|---|
| `proc` | down, in `Init`, idle, inside `ProposeNewBlock`, inside `HandleNewBlock`, or ended by a panic |
| `acc[a]` | the account of `a` under the durable `ACC_ROOT_HASH` |
| `executed` | the IDs under `TX_ROOT_HASH` |
| `mempool` | `Mempool.transactions` |
| `todo` | the rest of the loop's slice, its head the transaction at hand |
| `txns` | `successfulTxs` of a proposal |
| `stage` | how far the loop is with it: before the look-up, inside `GetTransactionByID`, after the `Put` of the sender, after that of the recipient |
| `toAcc` | the recipient as read before the sender was saved |
| `debits`, `credits`, `listed` | history: saves of the sender, of the recipient, saved blocks of this node that list the transaction |
| `budget` | submissions, deaths and mixed-up fetches that may still happen |

A transaction is a record `[from, to, amount, stamp]`; its ID is a hash of these
fields with the time in seconds as `stamp`, so the record is its own ID and the same
transfer within a second is the same transaction.

The two loops, `ProcessMempoolTransactions` and `ProcessTransactionsByIDs`, do the
same to a transaction that they have; they differ in where they get it, in what an
error does, and in that only the first removes an executed transaction from the
mempool.  The actions are shared, and say where the loops part.

| Action | Code |
|---|---|
| `OpenAccount`, `Ready` | `InitializeTestAccounts`, one `Put` an action; `Init` returns |
| `CreateTx` | `CreateAndAddTransaction`: looks neither at the balance nor at `TX_ROOT_HASH` |
| `BeginProposal`, `BeginBlock` | `ProposeNewBlock` and `HandleNewBlock` up to the loop |
| `SkipExecuted`, `SkipPoor`, `MissingAccount` | the early exits; the last one ends the loop with an error |
| `Fetch`, `FetchNil`, `FetchTimeout` | `GetTransactionByID` when the mempool does not have it, and its outcomes other than success |
| `Mixup` | the late answer to an earlier request is taken for the answer to this one (`TxFetch` has how): the loop goes on with another transaction |
| `Debit`, `Credit`, `Record` | the saves of sender, recipient and ID |
| `CreditPanics`, `RecordPanics` | the save of an account, or of an ID, that changes nothing, see below |
| `FinishProposal`, `FinishBlock` | what follows the loop |
| `Crash` | death of the process, inside a loop or `Init` (a *cut*) or outside |

An amount may be 0: the API takes any above 0 and `uint64` truncates it
(`tx.go:35`).  Such a transfer leaves the account of the recipient as it was; the
commit of a trie in which nothing changed returns a nil node set, which
`SaveAccountToTrie` (`account.go:75-83`) merges without a look, and the process may
end there.  That death counts as one inside a loop.  The same can happen to the
save of an ID that the trie has (`RecordPanics`), which only a mixup leads to.

After a mixup the loop removes the ID of the block's list from the mempool and executes
what it got; `Unpool` removes any transaction then, since the model no longer knows
which was listed.

Properties: `AccountsAddUp` (balance and nonce of an account are what the saves made of
them, unless it paid itself: then the second save overwrites the first, and
`NonceCountsExecuted` is false, which the run `selfpay` shows),
`ListedOnce`, `ListedAreExecuted`, `OnceMorePerFault` (a transaction is debited once, and
once more for each death inside a loop and each fetch that was mixed up),
`ImplementsAtomicLedger`, and the liveness property `Decided`.

`ImplementsAtomicLedger` lets a transfer happen when its recipient is saved: until
then the sender is seen as before the debit (`SeenAccount`), and from then on the
transaction is seen as executed (`SeenExecuted`).

## TxFetch: model and code

| Variable | Code |
|---|---|
| `up`, `chain`, `stored`, `pool` | a node: its process, the blocks it has, `TX_ROOT_HASH`, the mempool |
| `conns`, `stream` | connections that are in `peerRWs` at both ends, and their two streams |
| `readers[<<n,p>>]` | who waits in `ReadMsg` for a message of `p`, in the order of arrival: the receive loop, the goroutine of a fetch, or the reader that an earlier fetch left (`"ghost"`) |
| `waiting[n]`, `holder[n]` | the runs of `HandleNewBlock` before `bc.mut.Lock()` and the one behind it |
| `fetch[n]` | the ID that `RequestTransaction` was called with, and how many seconds ago |
| `job[<<n,p>>]`, `got` | the goroutine that asks `p`: reading, with an answer or an error for the `select`, or ended without a word |
| `asked`, `taken`, `owed` | history |

| Action | Code |
|---|---|
| `Propose`, `SendBlock`, `SendOther` | what travels beside transactions: proposals, answers to block requests, the messages without a block |
| `LoopAnswers` | the case `TransactionRequestMsg`: an answer if the node has the transaction, nothing if not |
| `LoopHandles` | the cases that call `HandleNewBlock`: the loop reads no more until it returns |
| `LoopIgnores` | any other message; an answer to a fetch is one, `TransactionResponseMsg` has no case in the loop |
| `Lock`, `Skip`, `FindLocal`, `Finish` | `HandleNewBlock` and `ProcessTransactionsByIDs` |
| `StartFetch`, `FetchAlone` | `RequestTransaction` up to the `select`: every peer in the registry is asked; a send may fail, with an error or silently |
| `JobReads`, `GhostReads` | the inner goroutine around `ReadMsg`, while the fetch waits for it and after |
| `ReadTimesOut`, `GiveUp` | the timers of 3 s and 5 s; that of the caller, 10 s, has no action: `GiveUp` is first |
| `TakeAnswer`, `TakeError` | the `select`; an error becomes a nil transaction (`tx.go:389`), and the caller's dereference ends the process |
| `Tick` | a second passes, unless a timer is due or a value waits at the `select` |
| `Connect`, `Hangup`, `Crash`, `Restart` | `setPeerRW`, `removePeerRW` and `cleanInvalidPeerRWs`, death and restart; two nodes connect if one has the other in its configuration (`Dialled`) |

A message goes to the reader that has waited longest: `ReadMsg` receives from an
unbuffered channel, and Go serves its receivers in order.  This decides who gets the
answer.  The receive loop of an idle peer has waited longer than the fetch, so it takes
the answer and drops it; the loop over which the block came does not read at all
until its handler returns.  A fetch mostly succeeds only from the peer that sent
the block.

Bounds in the guards: `MaxEvents` for the blocks sent and the faults together,
`MaxFaults` for the faults, `MaxHeight` for proposals.  The messages that carry no block
are one at a time (`SendOther`), on a stream of at most `ChanCap` messages, while a
fetch or the reader it left reads there or while nothing else is on its way: what such
a message can do is to end a read or to pass the loop.

Properties: `WaitsUphill` (a node that handles a block has it from a node with a longer
chain; a circle of nodes waiting for each other would have to climb for ever),
`AnswersWereAsked`, `MixupsAreLate` (a fetch returns another transaction only if
that is the late answer of the same peer to an earlier fetch, which ended without it),
`OneMessagePerFetch` (a request costs a receive loop one message at most, now or by
the reader it leaves), and the liveness property `HandlersEnd`.

## NodeStore: model and code

| Variable | Code |
|---|---|
| `current`, `last`, `root` | `CURRENT_BLOCK`, `LAST_BLOCK`, what the tries of `ROOT_HASH` and `TX_ROOT_HASH` have |
| `mem`, `open` | `bc.tr` and `bc.txTrie`: their contents, and whether they are committed, in which case go-ethereum refuses reads |
| `save` | the save in progress: step, block, the transaction saved before it, the `LAST_BLOCK` it read, whose receive loop it is in |
| `reading[p]` | a `GetBlockFromTrie` or `GetTransactionByIDFromNode` that the loop of `p` is inside of: what it saw, and whether the trie it reads is still the one in use |
| `claiming[p]` | a `handleLastBlockResponse` that the loop of `p` is inside of, with the `LAST_BLOCK` it read |
| `outbox`, `net`, `served` | proposals saved and not sent, the height of the peers, the blocks that left this node |

| Action | Code |
|---|---|
| `Propose`, `BlockArrives` | `ProposeNewBlock` and `HandleNewBlock` up to the first save, that of the listed transaction |
| `BlockStrays` | `HandleNewBlock` when the listed transaction is not saved: its sender cannot pay (`tx.go:551-553`), and the block is saved all the same, or the fetch returned another one (`p2pnetwork.go:495`), which is saved in its place |
| `LoopFails` | an error of a later transaction ends the loop after the first was saved: no block |
| `Update`, `Commit`, `PutRoot`, `Swap` | the steps of `SaveTransactionToTrie` and of `SaveBlockToTrie`, which swaps before the `Put` of the root where the other does it after (`After` has both orders) |
| `CheckIndex`, `SaveCurrentBlock`, `SaveLastBlock` | the look at the index and the first two `Put`s |
| `ReadBegin`, `ReadEnd` | a read for a peer, without `bc.mut` |
| `ReadEndUndoes` | `trie.Get` assigns the root that it resolved to the trie, and an update made meanwhile is gone |
| `ClaimBegin`, `ClaimPut` | `handleLastBlockResponse` reads and writes `LAST_BLOCK` in two steps |
| `SendProposal`, `LoseProposal` | the proposal loop after `ProposeNewBlock` |
| `CommitPanics` | the commit of a trie from which the update was undone |
| `Die`, `Restart` | death at any step; `Init` restores the tries from the roots |
| `Grow` | the others agree on a block that is not this node's to propose |

The library is external code; what it does was taken from go-ethereum v1.14.11,
the version `src/app/go.mod` names: `Get` writes the root back when it resolved nodes,
`Commit` marks the trie as committed and returns no nodes when nothing changed, and the
tracer of a trie is a plain map, so that two readers at once may end the process,
which is a `Die`.

Properties: `ServedOnce` (no peer ever sees two blocks of this node for one height),
`BlocksComeWithTransactions` (a block that can be read lists transactions that can be
read, but for one for each undone update and each listed transaction that was skipped or
mixed up), `HolesAreFaults` (a block is missing under
`CURRENT_BLOCK` for a death or an undone update, one for each), and the liveness property
`CatchUp`, for which `LAST_BLOCK` falling back, by a claim that overwrites a save or a
save that overwrites a claim, must be made good by later claims.

## ReplicatedLedger: model and code

| Variable | Code |
|---|---|
| those of `BlockSync` | a body is now the list of transactions |
| `ledger[n]`, `mempool[n]` | the balances and executed IDs of `n`, its mempool |
| `ahead[n]` | history: `n` executed a part of its next block and died |
| `strayed[n]` | history: `n` executed something that its chain does not list in that place |

| Action | Code |
|---|---|
| `Submit` | `POST /api/transaction` |
| `ProposeList` | `ProposeNewBlock` with the loop over the mempool, in any order |
| `ProposalFails` | the loop ends with an error: no block, what was executed stays |
| `ReceiveBlock` | `HandleNewBlock`: execution, then the look at the index |
| `ReceiveMixedUp` | `HandleNewBlock` when fetches return other transactions (`Rounds`) |
| `DieIdle`, `DieProposing`, `DieReceiving`, `DieAstray`, `DieSaving` | deaths, by where they leave the ledger: between two handlers; in the loop of a proposal; in that of a block between two transfers; in that loop between the `Put`s of a transfer, or after a mixup; in `SaveBlockToTrie` |
| `Other` | the steps of `BlockSync` that leave the ledgers alone |

What a death between the `Put`s of a transfer leaves is `Interrupted`: the sender has
paid, or the recipient has the money too, and the ID is not saved.  What a mixed-up fetch
may return is `LateAnswers`, any transaction that some block lists.  This is more than
the code can do, since the transaction must have been fetched before from two peers; of
these one may be a node outside `Nodes`.  `MaxMixups` bounds the wrong transactions in one
block.

These steps make a node stray:

1. a proposal that fails or dies after it executed something;
2. a block that is executed and then refused for its index;
3. a death inside `SaveBlockToTrie`;
4. a block that replaces another one which was partly executed;
5. a death in the middle of a block that had skipped a transaction: when the block comes
   again that is tried again, and what was executed after it may cover it now;
6. a death between the `Put`s of a transfer: when the block comes again the sender pays
   again, or cannot, and the transaction is never executed;
7. a mixed-up fetch.

`LedgerIsChain` says that nothing else does: a node that has not strayed has exactly
the ledger that replaying its chain gives.  `ListedAreExecutedEverywhere`: while no
node has strayed and no height has two blocks, every node executes all that its chain
lists, and no two blocks list the same transaction.

## Runs

Passing runs:

| Run | Instance | Shows |
|---|---|---|
| `sync_faults` | nodes 2 and 3, heights to 3, two bodies, one crash, one cut, one hangup; 637,601 states | `TypeOK`, `OneBlockPerTurn`, `HolesAreCuts`, `LostBlocksAreCuts`, `Agreement`, `ForwardOnly`, `ImplementsAgreedLog` |
| `sync_live` | nodes 2 and 3, heights to 3, one body, one crash, one lost message, with fairness; 10,084 states | `CatchUp`, `Progress` |
| `ledger_faults` | two accounts; a payment, one to oneself, one to nobody, one of 0; two submissions, one crash, two cuts, one mixup; 1,476,743 states | `TypeOK`, `AccountsAddUp`, `ListedOnce`, `ListedAreExecuted`, `OnceMorePerFault` |
| `ledger_live` | two accounts, two payments of which one is covered and the way back; three submissions, one crash, no cut, with fairness; 22,407 states | `ImplementsAtomicLedger`, `Decided` |
| `fetch_faults` | nodes 1, 2 and 3, of which 3 is connected to both others; two transactions, both submitted to node 1 and one to node 2 as well; height 1, a block sent and a fault or two blocks, with fairness; 212,918 states | `TypeOK`, `WaitsUphill`, `AnswersWereAsked`, `MixupsAreLate`, `OneMessagePerFetch`, `HandlersEnd` |
| `store_faults` | two connections, heights to 3 of which 1 is this node's, any two of: one death, one undone update, one listed transaction not saved, one lost proposal or failed loop; with fairness; 529,860 states | `TypeOK`, `ServedOnce`, `BlocksComeWithTransactions`, `HolesAreFaults`, `CatchUp` |
| `replicated` | nodes 2 and 3, heights to 2, three transactions of which one is covered only after another and one fails; two submissions, one crash, one cut, one hangup, one wrong transaction in a block; 595,063 states | `LedgersTypeOK`, `LedgerIsChain`, `ListedAreExecutedEverywhere` |

Each takes less than three minutes with two workers.

The bounds, and why they are enough:

- *Nodes*: any two nodes have a height at which both may propose only if they are
  {1, 2} (height 1) or {2, 3} (height 2; node 2 also proposes height 1).  Nodes
  2 and 3 bring a chain to height 3 without node 1, so the instance has a fork at 2
  and an agreed height above it, built by a node that holds one branch and taken by one
  that holds the other.  That three proposers agree too, with blocks that reach a node
  through another, is by the theorem `NodesAgree` only, which is for any set of nodes.
- *Heights*: one agreed height above every fork is where a wrong block
  could first be taken.
- `ChanCap` counts the messages in flight between two nodes in both directions.
  Two let a proposal cross a request, or an answer follow a proposal, which are
  the cases in which `HandleNewBlock` sees a block it has.
- *Faults* of `BlockSync`: one of each, in any order and number of combinations, but for
  the lost message, which only `sync_live` has: in safety it is a hangup that leaves the
  other messages alone, and the theorems have it.  One
  cut is enough to open a hole; the count in `HolesAreCuts` says that it is the
  only way.
- `WordSize` is 65536 in the runs and any word of at least 4 values with
  remainder 1 modulo 3 in the proofs.  2^64 has it, and nothing else matters to
  `(x - i) % 3`.
- *Ledger*: two accounts and four transactions have each relation that a guard
  distinguishes: covered or not, depending on which runs first; to another, to
  oneself, to nobody; of something or of nothing.  Two cuts let the same
  transaction be cut in both gaps or twice in one.  Two submissions are
  two transactions in the mempool or one that comes again, and blocks bring any others.
- *Fetch*: nodes 1 and 2 both propose height 1, and node 3 can be sent the block of
  either by its proposer, two fetches long or one.  It asks both peers for a transaction
  that both have, takes the first answer, and the other is late for the next fetch: the
  passing instance has mixups, which `MixupsAreLate` is about.  Nodes 1 and 2, not
  connected, fork without answering each other.  Of the timeouts only the
  order matters; the passing run has 1 and 2, the runs `mixup` and `panic` the 3 and 5
  seconds of the code.
- *Store*: two connections are two readers, two claims, or one of each beside a save.
  Height 1 is this node's, as of the node with config index 1, and 2 and 3 come from peers.
  A death in the middle of the save of 1, after it was served, is where a second block for
  the height would come from.  A hole or a bare block needs one fault, and the second
  could be charged to the first if the counts were wrong.
- *Replicated*: at height 2 both nodes may propose on the chain of the other or fork.
  The second transaction is covered only where the first ran before, so that a block
  executed out of order shows in the accounts.  Two submissions do not bring
  a block that lists, executes and skips three transactions as one: that a death in
  such a block makes a node stray came out of the proof (see below), and was
  confirmed with TLC on nodes 1 and 2 with three submissions, an instance too large to
  be kept as a run.

Runs that end in a violation are listed
[below](#where-the-code-departs-from-its-documentation).

`CHECK_DEADLOCK` is never switched off.  Every module always has a step: an idle
connection can still ask for `LAST_BLOCK`, a dead process can start, a peer
can read.

## Fairness

No fault is fair.

`BlockSync!Fairness`:

- weak, `Start`: the operator restarts a dead process;
- weak, `Connect`: static nodes are dialled again by the devp2p server and by
  `maintainConnections`;
- weak, `Receive`: a message stays at the head of its stream until the receive loop
  takes it, and the loop never returns;
- strong, `RequestLast`, `RequestBlock`, `Propose`: the timer loops run for ever, but
  in the model they need room in a bounded channel, or a turn, that comes and goes.
  In the code the `Send` waits for the room; the loops poll the turn.

`Ledger!Fairness`:

- weak, `Boot`: restart, and `Init` goes on;
- weak, `Work`: a loop that runs goes on; the fetch ends by its timeouts at the
  latest (`TxFetch!HandlersEnd`);
- strong, `BeginProposal`: `bc.mut` is a Go mutex, which does not starve a waiter, and
  the turn of the node comes back as long as the chain grows (`BlockSync!Progress`).

`TxFetch!Fairness`:

- weak, `Tick`, `Work(n)`, `Conclude(n)`: time passes, a handler that has `bc.mut`
  goes on, and a timer that is due goes off.  Nothing is assumed of messages: `HandlersEnd`
  holds even if nobody answers.

`NodeStore!Fairness`:

- weak, `SaveStep`, `ReadEnd`, `ClaimPut`: a goroutine that is inside a handler goes on;
- weak, `Restart`;
- strong, `ClaimBegin(p, net)`, `NextArrives(p)`: the loops ask for `LAST_BLOCK` every two
  seconds and for the next block every second, and a peer answers; the receive loop
  that takes the answer is busy now and then.  Neither the reads of peers nor the growth
  of their chain is fair.

`ReplicatedLedger` has no liveness property of its own.

## Proofs

Proved with no assumption but those on the constants: `WordSizeAssumption` (above),
`BlockSyncAssumption` (nodes are config indices, `EmptyBody` is a body, `NoBlock` is no
block, bounds are natural numbers), `LedgerAssumption` (finitely many
transactions, senders have accounts, amounts are natural numbers, `NoAccount` is no
account), `TxFetchAssumption` (finitely many transactions, `Nobody` is no node and no
handler, `NoTx` is no transaction, connections are dialled between nodes, and the timeout
of a read is positive and at most that of the whole request, as in the code),
`NodeStoreAssumption` (finitely many connections, bounds are natural
numbers) and `ReplicatedAssumption` (finitely many transactions, between two different
addresses of which the sender's has an account, of natural amounts; bodies are the lists
of transactions).

Every safety property that a passing run checks is a theorem, for every value of the
constants.

| Theorem | Statement |
|---|---|
| `BlockSyncProofs!TypeCorrect` | `Spec => []TypeOK` |
| `BlockSyncProofs!Invariance` | the inductive invariant |
| `BlockSyncProofs!SignsOnce` | `Spec => []OneBlockPerTurn` |
| `BlockSyncProofs!LosesByCutsOnly` | `Spec => []HolesAreCuts` |
| `BlockSyncProofs!BlocksLostByCutsOnly` | `Spec => []LostBlocksAreCuts` |
| `BlockSyncProofs!NodesAgree` | `Spec => []Agreement` |
| `BlockSyncProofs!NeverBack` | `Spec => ForwardOnly` |
| `BlockSyncProofs!Refinement` | `Spec => ImplementsAgreedLog` |
| `AgreedLogProofs!LogAgrees` | the abstract log decides a height once, and nodes hold only what was decided |
| `LedgerProofs!LedgerTypeCorrect` | `Spec => []TypeOK` |
| `LedgerProofs!ListsOnce` | `Spec => []ListedOnce` |
| `LedgerProofs!ListsExecuted` | `Spec => []ListedAreExecuted` |
| `LedgerProofs!DebitsOnce` | `Spec => []OnceMorePerFault` |
| `LedgerProofs!BooksBalance` | `Spec => []AccountsAddUp` |
| `LedgerProofs!TransfersAreAtomic` | `Spec => ImplementsAtomicLedger`, if `MaxCuts = 0`, `MaxMixups = 0` and nobody pays himself (`Undisturbed`) |
| `TxFetchProofs!FetchTypeCorrect` | `Spec => []TypeOK` |
| `TxFetchProofs!NodesWaitUphill` | `Spec => []WaitsUphill` |
| `TxFetchProofs!NoAnswerUnasked` | `Spec => []AnswersWereAsked` |
| `TxFetchProofs!MixupsOnlyLate` | `Spec => []MixupsAreLate` |
| `TxFetchProofs!OnePeerNeverMixes` | `Spec => []FetchReturnsAsked`, if no node can have two peers (`OnePeer`) |
| `TxFetchProofs!FetchesCostOneMessage` | `Spec => []OneMessagePerFetch` |
| `NodeStoreProofs!StoreInvariance` | the types and `Single`, the inductive invariant of blocks |
| `NodeStoreProofs!ServesOnce` | `Spec => []ServedOnce` |
| `NodeStoreFaults!StoreTypeCorrect` | `Spec => []TypeOK` |
| `NodeStoreFaults!LosesForFaultsOnly` | `Spec => []HolesAreFaults` |
| `NodeStoreFaults!TransactionsComeFirst` | `Spec => []BlocksComeWithTransactions` |
| `ReplicatedLedgerProofs!Composition` | `LedgersSpec => ImplementsBlockSync` |
| `ReplicatedLedgerProofs!ListsAgree` | `LedgersSpec => []Agreement`: from height 3 on all nodes have the same lists |
| `ReplicatedLedgerProofs!OneListPerTurn` | `LedgersSpec => []OneBlockPerTurn` |
| `ReplicatedLedgerProofs!LedgersTypeCorrect` | `LedgersSpec => []LedgersTypeOK` |
| `ReplicatedLedgerProofs!ReplayedAlike` | `LedgersSpec => []LedgerIsChain` |
| `ReplicatedLedgerProofs!SameChainSameAccounts` | `LedgersSpec => []SettledAgree`: nodes with the same chain have the same accounts, unless one strayed or is in the middle of a block |
| `ReplicatedLedgerProofs!ListedOnceExecutedEverywhere` | `LedgersSpec => []ListedAreExecutedEverywhere` |

*BlockSync.*  None of the properties is inductive, not even `TypeOK`: that a handler
reads a block in `CURRENT_BLOCK` needs that messages travel on connections, and
connections join running nodes.  The invariant is `Basic /\ Provenance /\ History`:

- `Basic`: `TypeOK`, connections join running nodes, messages are on connections only,
  and a running node has a genesis block;
- `Provenance`: every block in a key, a trie, a message or a receive loop that is about to
  write `LAST_BLOCK` is a genesis block or was signed;
- `History`: a signed block has a proposer that had the turn at its height and whose
  `CURRENT_BLOCK` has reached that height (`Turns`); a trie holds at `h` a block of
  index `h`, not above `CURRENT_BLOCK` (`Indexed`); a node without a trie stands at 0
  (`Fresh`); `OneBlockPerTurn`; and the signer of a block holds it, or
  nothing in its place (`OwnBlocks`).

It says nothing of how `LAST_BLOCK` stands to `CURRENT_BLOCK`: nothing does.

`History` is why a node cannot sign twice: `CURRENT_BLOCK` is the first of the `Put`s, so
that even a death inside `SaveBlockToTrie` leaves the signer past its turn.  With the
arithmetic of `Rotation` (from height 3 on, two nodes with the turn are the same) it
gives that two signed blocks of a height are equal, and with `Provenance` that all
tries agree.  The step proofs do not go action by action through every conjunct: a
lemma first sorts the steps by their effect on the disk (a genesis block, a signed block
that is next, saved whole or in part, a claim of `LAST_BLOCK`, nothing), and the
invariants are proved for the effects.  Refinement uses the same effects: each is a
`Decide`, an `Adopt` or a stuttering step.  `HolesAreCuts` is a count over all nodes
(`HolesCounted`): a step opens no hole, or is a death inside a save, costs
one of the `MaxCuts`, and opens one at most, the height of the block it was saving.
`LostBlocksAreCuts` follows: by `OwnBlocks`, a signed block that is in no trie is a hole
of its signer, and two such are two holes.

*Ledger.*  The invariant is `TypeOK /\ ListInv /\ CutInv`.  `ListInv`: what the running
proposal will list was executed and was listed by no block before; what was
listed is executed; a transaction in flight is not executed yet, unless a fetch was
mixed up.  `CutInv`: a transaction was debited at most as often as processes died inside
a loop and fetches were mixed up, plus one if it is executed or in flight between its
first and third save; a transaction that a mixup brought and that waits for its debit
(`Pending`) counts as debited already.  The lemma `StepEffect` sorts the steps;
refinement adds `CopyInv`, that between the two saves `toAcc` is still what the
recipient has, the amount added.  `AccountsAddUp` compares a balance with sums over the
transactions.  A save changes one summand by one debit or one credit (`SumsChange`), and
`CopyOfRecipient` says what the save of the recipient overwrites: for a transfer to
another account the account it has.  For one to oneself it overwrites the debit, and the
account is left out from then on (`PaidItself`).

*TxFetch.*  `Shape` is what the rest stands on: the types; a fetch runs in a handler that
is at a transaction, and without one nothing of a fetch is left (`Busy`); it reads
once at most from each peer (`ReadsOnce`); messages, readers and the loop of a handler
are of a connection (`Wired`).  On it stand, one by one:

- `Costs`: readings done and readers left are at most the requests made.  A reader that
  turns from `"job"` to `"ghost"` is counted on;
- `Uphill`: a block that is on its way, waits for `bc.mut` or is handled is in its
  sender's chain, which only grows; and one that is handled is not in the handler's,
  since `Lock` looked and a node with a handler behind `bc.mut` does not propose;
- `Answered`: questions and answers on their way about a transaction (`Out`) are at most
  the requests made on this connection, and an answer's sender has its transaction, which
  goes from the mempool to the trie and no further, unless the sender dies, and the
  connection with it;
- `Late`: of a transaction that is not owed, at most one question or answer is on its
  way, and that is what the fetch that runs has asked and not got.

`MixupsAreLate` was false as first stated, which its proof showed: a peer whose
goroutine had ended, or had an answer waiting at the `select`, when another peer's
answer was taken, can also answer late.  `owed` has every peer that did not answer with
the transaction, and the run has a node with two peers.

*NodeStore.*  `ServedOnce` is not inductive: a block is served out of a trie, out of what
a reader saw of one, or out of the outbox, and it may be in the process's memory only.
`Single` takes all of these together (`Held`): nothing is held above `CURRENT_BLOCK`, and
one block for each height; from the `Put` of `CURRENT_BLOCK` on, the block being saved is
the only one of its height.  So a block can be lost, but not signed anew.

What faults can cost is in a module of its own, `NodeStoreFaults`.  `Follows`
(`Mirror`, `Sees`): a trie in memory is the one in LevelDB but for the item of the
save in progress, is closed exactly from its commit to its swap, and a reader of the trie
in use saw what it still is, unless an update waits for its commit.  With it an update
can be undone only in that short time, which the steps of the code leave open.  The two
counts follow one pattern: a height without a block, or a block without its
transaction, has cost a fault, or in the case of the transaction that it was skipped or
mixed up (`Undone`); what was undone or left out in the save in progress, and will
be missing once its root is put, is counted as missing already (`Pending`,
`PendingTx`); and a step either changes nothing, pays for what it loses, or puts on
disk what was counted.

*ReplicatedLedger.*  Every step of the composition is a step of `BlockSync` or leaves its
variables alone, so that its theorems hold of nodes with ledgers.  The other three
theorems need to know what folds do: `ExecuteAll` of a list, the loop of a proposal
and `Replay` of a chain are folds, and `FoldsExist` of `Counting` gives each of
them as a function of the places passed, which can be reasoned about.  `StepEffect` sorts
the steps by what they do to the ledger and chain of a node: nothing (`NoWork`), a first
part of the next block (`Begun`), all of it (`Whole`), or they make the node stray
(`Loses`).  Deaths between the `Put`s of a transfer and mixed-up fetches are of the last
kind, whatever they leave in the ledger.

- `Follows`: the ledger of a node that has not strayed is the replay of its
  chain, or that with the first transactions of the block that comes next, each of which
  it executed (`AheadBy`).  This is what makes the second execution of the block harmless:
  `ExecuteAgain`, that a list whose first part was executed in full has the same result
  from there as from the start.  Without the words "each of which it executed" the lemma
  is false: a transaction that was skipped the first time may be covered the second
  time.  With the first definition of `strayed` so was `LedgerIsChain`; a death
  in such a block is one of the steps that make a node stray.
- `CleanPays`: as long as no node has strayed and no height has two blocks, the
  signer of a block still has it and all below (`HeldBySigner`), and the replay of any
  chain pays for each transaction of each block when it comes to it
  (`PaidEverywhere`): the signer's ledger did, and it was the replay of the same chain.

Model-checked only: `CatchUp` (of both modules), `Progress`, `Decided` and `HandlersEnd`,
which are liveness under fairness, out of the prover's reach.

Induction.  The induction theorems of the library take an operator as a parameter, which
the provers at hand cannot instantiate.  `Counting` states induction over sets instead of
predicates (`SetInduction`: a set that has 0 and is closed under successor has all
natural numbers) and proves it from the fact that a finite set has no endless chain of
smaller subsets.  With it functions that satisfy the recursion of a sum or a fold are
shown to exist, and to be the folds of the community modules.

## Where the code departs from its documentation

Each of these is a run in which TLC finds the violation; `PROJECT.json` has the
quotations.

| Run | Documentation | Code |
|---|---|---|
| `missing` | missing blocks are fetched from other nodes (`src/README.md:159`) | a proposer that dies after `Put(CURRENT_BLOCK)` announces a block that nobody has; the others wait for it for ever |
| `panic` | `tx.go:390`: nil, so as not to stop the process | the caller dereferences the nil; no fault is needed: the only peer has not answered when the read times out |
| `mixup` | `tx.go:320`: returns the transaction with this ID | with two peers, the late answer to one fetch is taken for the answer to the next, and another transaction is executed |
| `selfpay` | the nonce counts the transactions executed from an account (`account.go:20`) | a transfer to oneself saves a copy of the account from before the debit, which puts the nonce back and adds the amount to the balance |
| `diverge` | the state is synchronised (`src/README.md:62`) | a proposal that ends with an error leaves transactions executed that are in no block: two nodes with the same chain have different accounts |

Others were met while modelling and are in the models, without a run of their own:

- nodes propose in turn (`src/README.md:193`): the subtraction of the config
  index wraps, and gives the turn at heights 1 and 2 to two nodes; the fork stays for
  good in the tries, and ends at height 3 (`Rotation!Eligible`, `Agreement`);
- signatures of other nodes' blocks are verified (`src/README.md:82`): the key looked
  up is that of another node from height 3 on, and the result of the comparison is
  dropped (`Rotation!VerifierIndex`, `BlockSync!Accepts`);
- `tx.go:578`, remove the transaction from the mempool: nothing follows the comment
  (`Ledger!Record`);
- `tx.go:520-526`, a transaction that was executed is skipped: the ID is saved last, and
  a death before it lets the sender pay again (`OnceMorePerFault`);
- `GetLastBlock` is called thread-safe (`chain.go:199`): it is, but the handler that
  reads `LAST_BLOCK` and then writes it is not, so that the key can fall back
  (`BlockSync!SaveLastBlock`, `NodeStore!ClaimPut`).  A node that falls back behind what
  others announce catches up with them all the same (`CatchUp` of both modules).  A node
  that falls back behind what it has itself need not: if its block was lost on the way to
  the others, or proposed by a loop without a connection, nobody has heard of it, nobody
  asks for it, and the others wait for it if it is the turn of no other node.  So
  `Progress` without its condition is false, and "nodes fetch the blocks they miss"
  (`src/README.md:159`) has a second exception beside that of the run `missing`.

## Assumptions, and what is not modelled

- The LevelDB directory survives a restart of the process.  (A container that is
  *recreated* starts from nothing: the compose file mounts the configuration only.)
- LevelDB, the file system and the trie library report no error.  `Init` returns nil
  when a trie cannot be opened, and the process runs on without one: not modelled.
- Nodes are honest, so that a signature is its signer.  Cryptography is not
  modelled.
- In `BlockSync` a handler is one step, but for the death inside it and the two steps of
  `handleLastBlockResponse`.  `bc.mut` justifies that between `ProposeNewBlock` and
  `HandleNewBlock`.  The receive loops, which take no lock, can do three things beside
  a save: write `LAST_BLOCK` (`SaveBlockToTrie` has the overwriting; a write at
  another moment of the save is one before or after it), answer with `LAST_BLOCK` or a
  block before the save is done (`NodeStore`), and undo an update of the trie
  (`NodeStore`).
- In `Ledger` accounts are opened in any order, and blocks received list only
  transactions whose accounts exist (their proposer has executed them).
- In `TxFetch` a send takes no time unless it fails, timers are prompt (the caller's, of
  10 s, is then never first), every payment is
  covered, and a block is saved in one step.  Both ends of a connection come and go
  together.
- In `NodeStore` a block lists one transaction, named by its height, which is saved,
  skipped or mixed up (`BlockStrays`); a further one shows only as `LoopFails`.  The account trie
  has the life cycle of the transaction trie, and what a cut does to accounts
  is in `Ledger`.  The HTTP reads of blocks and transactions are reads like a peer's.
- In `ReplicatedLedger` a handler is one step with what it does to the ledger, but for the
  deaths inside it; a transaction that the fetch gets right is on a peer that is
  connected; amounts are those of the instance, and nobody pays himself.  `Ledger` has the
  rest.
- `BroadcastTransaction` sends on `txChannels`, to which nothing is ever added: it
  changes nothing and has no action.  A transaction leaves its node in a block.
- Goroutines that a lost connection leaves behind are in `BlockSync` as far as they act
  (`orphan`); their number is not.
- Out of scope: HTTP reads and formatting, configuration, logging, the BLS demos, and code
  without a caller (`TransferBalance`, `UpdateBalance`, the case `TransactionMsg` of the
  receive loop, which nothing sends).

## Plan

Done: all modules above, their runs, and a theorem for every safety property that a
passing run checks.  What is left:

1. That the detailed modules justify what the others assume of them, as theorems where
   the models meet: the ledger of one node in `ReplicatedLedger` changes as `AtomicLedger`
   allows when nothing is cut, so that atomicity holds of the composition.
2. The positive side of `MissingBlocksArrive`: without a death inside
   `SaveBlockToTrie` some node has every block that is announced, a corollary of
   `HolesAreCuts` and `LostBlocksAreCuts`.
