-------------------------- MODULE ReplicatedLedger --------------------------
(***************************************************************************)
(* BlockSync with the transactions that its blocks list: every node keeps  *)
(* a ledger of its own and executes the list of a block when it proposes   *)
(* the block or is sent it.  A step of BlockSync that proposes or handles  *)
(* a block is one step here together with what it does to the ledger; the  *)
(* Puts inside a transfer are in module Ledger.                            *)
(***************************************************************************)
EXTENDS BlockSync, SequencesExt

CONSTANTS
    Txs,              \* the transactions: [from, to, amount]
    Accounts,         \* the addresses that have an account, on every node
    InitialBalance,   \* the balance of a new account
    MaxSubmits,       \* bound: calls of the API that create a transaction
    MaxMixups         \* bound: wrong transactions fetched for one block

\* A block lists transactions that its proposer executed.
Lists == SetToAllKPermutations({t \in Txs : t.to \in Accounts})

ASSUME ReplicatedAssumption ==
    /\ IsFiniteSet(Txs)
    /\ \A t \in Txs : t.from \in Accounts /\ t.from # t.to /\ t.amount \in Nat
    /\ InitialBalance \in Nat
    /\ MaxSubmits \in Nat
    /\ MaxMixups \in Nat
    /\ Bodies = Lists
    /\ EmptyBody = <<>>

VARIABLES
    ledger,    \* ledger[n]: the balances and the executed transactions of n
    mempool,   \* mempool[n]: the transactions in the mempool of n
    ahead,     \* history, ahead[n]: the next block, cut in its execution
    strayed,   \* history, strayed[n]: n executed what its chain does not say
    submits    \* submissions so far

ledgers == <<ledger, mempool, ahead, strayed, submits>>
allVars == <<vars, ledgers>>

NewLedger == [balance |-> [a \in Accounts |-> InitialBalance], executed |-> {}]

-----------------------------------------------------------------------------
(* Execution.                                                               *)

\* Mutant: a balance may fall short by one.
CoveredButOne(l, t) == l.balance[t.from] + 1 >= t.amount

Covered(l, t) == l.balance[t.from] >= t.amount

Transfer(l, t) ==
    [balance |-> [l.balance EXCEPT ![t.from] = @ - t.amount, ![t.to] = @ + t.amount],
     executed |-> l.executed \cup {t}]

\* One round of ProcessTransactionsByIDs.
Execute(l, t) == IF t \notin l.executed /\ Covered(l, t) THEN Transfer(l, t) ELSE l

ExecuteAll(l, list) == FoldLeft(Execute, l, list)

\* What a death between the Puts of a transfer leaves: the sender has paid, or
\* the recipient has the money too, and the transaction is not executed.
Interrupted(l, t) ==
    {[l EXCEPT !.balance[t.from] = @ - t.amount],
     [l EXCEPT !.balance = Transfer(l, t).balance]}

\* Mutant: a transaction that the sender cannot pay is listed all the same.
ProcessListsPoor(r, t) ==
    CASE r.failed \/ t \in r.ledger.executed -> r
      [] OTHER ->
            LET q == [r EXCEPT !.removed = @ \cup {t}]
            IN  CASE t.to \notin Accounts -> [q EXCEPT !.failed = TRUE]
                  [] OTHER ->
                        [q EXCEPT !.ledger = Execute(@, t), !.listed = Append(@, t)]

\* Mutant: the list of the block is not in the order of execution.
ProcessListsBackward(r, t) ==
    CASE r.failed \/ t \in r.ledger.executed -> r
      [] OTHER ->
            LET q == [r EXCEPT !.removed = @ \cup {t}]
            IN  CASE t.to \notin Accounts -> [q EXCEPT !.failed = TRUE]
                  [] t.to \in Accounts /\ ~Covered(r.ledger, t) -> q
                  [] OTHER ->
                        [q EXCEPT !.ledger = Transfer(@, t), !.listed = <<t>> \o @]

\* One round of ProcessMempoolTransactions: an executed transaction is
\* skipped, one to an unknown address ends the loop with an error, one that
\* its sender cannot pay is removed.
Process(r, t) ==
    CASE r.failed \/ t \in r.ledger.executed -> r
      [] OTHER ->
            LET q == [r EXCEPT !.removed = @ \cup {t}]
            IN  CASE t.to \notin Accounts -> [q EXCEPT !.failed = TRUE]
                  [] t.to \in Accounts /\ ~Covered(r.ledger, t) -> q
                  [] OTHER ->
                        [q EXCEPT !.ledger = Transfer(@, t), !.listed = Append(@, t)]

\* The loop over the transactions of orders, each in the order of a Go map.
LoopsOver(n, orders) ==
    {FoldLeft(Process,
              [ledger |-> ledger[n], listed |-> <<>>, removed |-> {}, failed |-> FALSE],
              order) : order \in orders}

\* What the loop of a proposal of n can end with.
Loops(n) == LoopsOver(n, SetToSeqs(mempool[n]))

\* Node n has ledger l now; the transactions in removed leave its mempool.
Becomes(n, l, removed) ==
    /\ ledger' = [ledger EXCEPT ![n] = l]
    /\ mempool' = [mempool EXCEPT ![n] = @ \ removed]

Strays(n, condition) == strayed' = [strayed EXCEPT ![n] = @ \/ condition]

Ahead(n, b) == ahead' = [ahead EXCEPT ![n] = b]

-----------------------------------------------------------------------------
(* The mempool and proposals.                                               *)

Submit(n, t) ==
    /\ up[n]
    /\ submits < MaxSubmits
    /\ t \notin mempool[n]
    /\ submits' = submits + 1
    /\ mempool' = [mempool EXCEPT ![n] = @ \cup {t}]
    /\ UNCHANGED <<vars, ledger, ahead, strayed>>

\* ProposeNewBlock: the block lists what the loop executed.
ProposeList(n) ==
    /\ ProposeOrphan(n) \/ \E p \in Nodes : Propose(n, p)
    /\ \E loop \in Loops(n) :
          /\ ~loop.failed
          /\ current'[n].body = loop.listed
          /\ Becomes(n, loop.ledger, loop.removed)
    /\ Strays(n, ahead[n] # NoBlock)
    /\ Ahead(n, NoBlock)
    /\ UNCHANGED submits

\* The loop of ProposeNewBlock that n may run now.
MayPropose(n) ==
    /\ up[n]
    /\ orphan[n] \/ Peers(n) # {}
    /\ CheckProposalCondition(n)
    /\ current[n].index < MaxHeight

\* An error ends the proposal; what was executed before stays.
ProposalFails(n) ==
    /\ MayPropose(n)
    /\ \E loop \in Loops(n) :
          /\ loop.failed
          /\ Becomes(n, loop.ledger, loop.removed)
          /\ Strays(n, loop.listed # <<>>)
    /\ UNCHANGED <<vars, ahead, submits>>

-----------------------------------------------------------------------------
(* A block arrives.                                                         *)

\* The early returns of HandleNewBlock before the transactions.
HasBlock(n, b) == b.index = 0 \/ trie[n][b.index] # NoBlock

\* GetTransactionByID finds t here or on a peer.
Fetchable(n, t) ==
    \E p \in Peers(n) \cup {n} : t \in mempool[p] \cup ledger[p].executed

\* What a fetch may return in place of what it asks for: the late answer to an
\* earlier one, which had asked two peers (module TxFetch), of which one may be
\* a node outside Nodes.
LateAnswers == UNION {ToSet(b.body) : b \in proposed}

\* The rounds of ProcessTransactionsByIDs over list: the ID of each and the
\* transaction that GetTransactionByID returns for it, which nobody compares.
Rounds(n, list) ==
    {rounds \in [DOMAIN list -> [id : ToSet(list), tx : ToSet(list) \cup LateAnswers]] :
        LET mixed == {i \in DOMAIN list : rounds[i].tx # rounds[i].id}
        IN  /\ Cardinality(mixed) <= MaxMixups
            /\ \A i \in DOMAIN list :
                  /\ rounds[i].id = list[i]
                  /\ IF i \in mixed
                     THEN rounds[i].tx \in LateAnswers
                          /\ list[i] \notin mempool[n] \cup ledger[n].executed
                     ELSE Fetchable(n, list[i])}

MixedUp(rounds) == \E i \in DOMAIN rounds : rounds[i].tx # rounds[i].id

\* One of these rounds; a transaction that is not covered leaves the mempool.
Round(r, round) ==
    CASE round.id \in r.ledger.executed -> r
      [] round.id \notin r.ledger.executed /\ Covered(r.ledger, round.tx) ->
            [r EXCEPT !.ledger = Transfer(@, round.tx)]
      [] OTHER -> [r EXCEPT !.removed = @ \cup {round.id}]

RunRounds(l, rounds) == FoldLeft(Round, [ledger |-> l, removed |-> {}], rounds)

\* HandleNewBlock: the transactions of a block that the trie does not have
\* are executed, then the block is saved, or refused for its index.
ReceiveBlock(n, p) ==
    /\ HandleNewBlock(n, p)
    /\ \E b \in Block :
          /\ Reads(n, p, BlockMsg(b))
          /\ \/ HasBlock(n, b) /\ UNCHANGED <<ledger, mempool, ahead, strayed>>
             \/ /\ ~HasBlock(n, b)
                /\ \A t \in ToSet(b.body) : Fetchable(n, t)
                /\ LET l == ExecuteAll(ledger[n], b.body)
                   IN  /\ Becomes(n, l, ToSet(b.body) \ l.executed)
                       /\ Strays(n, IF IsNext(n, b)
                                    THEN ahead[n] \notin {b, NoBlock}
                                    ELSE l # ledger[n])
                       /\ Ahead(n, IF IsNext(n, b) THEN NoBlock ELSE ahead[n])
    /\ UNCHANGED submits

\* HandleNewBlock when a fetch returns another transaction: that one is
\* executed, also for the second time, and the one that is listed is not.
ReceiveMixedUp(n, p) ==
    /\ HandleNewBlock(n, p)
    /\ \E b \in Block :
          /\ Reads(n, p, BlockMsg(b))
          /\ ~HasBlock(n, b)
          /\ \E rounds \in Rounds(n, b.body) :
                LET r == RunRounds(ledger[n], rounds)
                IN  MixedUp(rounds) /\ Becomes(n, r.ledger, r.removed)
          /\ Ahead(n, IF IsNext(n, b) THEN NoBlock ELSE ahead[n])
    /\ Strays(n, TRUE)
    /\ UNCHANGED submits

-----------------------------------------------------------------------------
(* Deaths.  The mempool is lost.                                            *)

\* Between two handlers.
DieIdle(n) ==
    /\ Crash(n)
    /\ Becomes(n, ledger[n], mempool[n])
    /\ UNCHANGED <<ahead, strayed, submits>>

\* In the loop of a proposal, after some of its transactions or between the
\* Puts of the next one.
DieProposing(n) ==
    /\ Crash(n)
    /\ MayPropose(n)
    /\ \E loop \in LoopsOver(n, SetToAllKPermutations(mempool[n])) :
          \/ /\ Becomes(n, loop.ledger, mempool[n])
             /\ Strays(n, loop.listed # <<>>)
          \/ /\ ~loop.failed
             /\ \E t \in mempool[n] \ (loop.removed \cup loop.ledger.executed) :
                   /\ t.to \in Accounts
                   /\ Covered(loop.ledger, t)
                   /\ \E l \in Interrupted(loop.ledger, t) : Becomes(n, l, mempool[n])
             /\ Strays(n, TRUE)
    /\ UNCHANGED <<ahead, submits>>

\* In the loop over the transactions of a block, also by a fetch that fails.
\* When the block comes again, a transaction of the part that was not covered
\* is tried again, and what was executed after it may cover it then.
DieReceiving(n, p) ==
    /\ Crash(n)
    /\ \E b \in Block :
          /\ Reads(n, p, BlockMsg(b))
          /\ ~HasBlock(n, b)
          /\ \E part \in Prefixes(b.body) :
                LET l == ExecuteAll(ledger[n], part)
                IN  /\ \A t \in ToSet(part) : Fetchable(n, t)
                    /\ Becomes(n, l, mempool[n])
                    /\ Strays(n, l # ledger[n] /\
                                    \/ ~IsNext(n, b)
                                    \/ ahead[n] \notin {b, NoBlock}
                                    \/ ~(ToSet(part) \subseteq l.executed))
                    /\ Ahead(n, IF l # ledger[n] /\ IsNext(n, b) THEN b ELSE ahead[n])
    /\ UNCHANGED submits

\* In a transfer of that loop, between the Puts of the sender, the recipient
\* and the transaction, or after a fetch that returned another transaction.
DieAstray(n, p) ==
    /\ Crash(n)
    /\ \E b \in Block :
          /\ Reads(n, p, BlockMsg(b))
          /\ ~HasBlock(n, b)
          /\ \E part \in Prefixes(b.body) \ {<<>>} : \E rounds \in Rounds(n, part) :
                \/ /\ MixedUp(rounds)
                   /\ Becomes(n, RunRounds(ledger[n], rounds).ledger, mempool[n])
                \/ LET l == RunRounds(ledger[n], Front(rounds)).ledger
                       t == Last(rounds).tx
                   IN  /\ Last(rounds).id \notin l.executed
                       /\ Covered(l, t)
                       /\ \E m \in Interrupted(l, t) : Becomes(n, m, mempool[n])
    /\ Strays(n, TRUE)
    /\ UNCHANGED <<ahead, submits>>

\* Inside SaveBlockToTrie: everything is executed and the block is lost.
DieSaving(n) ==
    /\ \/ /\ ProposeCut(n)
          /\ \E loop \in Loops(n) :
                /\ ~loop.failed
                /\ current'[n].body = loop.listed
                /\ Becomes(n, loop.ledger, mempool[n])
       \/ /\ \E p \in Nodes : HandleNewBlockCut(n, p)
          /\ \E rounds \in Rounds(n, current'[n].body) :
                Becomes(n, RunRounds(ledger[n], rounds).ledger, mempool[n])
    /\ Strays(n, TRUE)
    /\ UNCHANGED <<ahead, submits>>

-----------------------------------------------------------------------------
LedgersInit ==
    /\ Init
    /\ ledger = [n \in Nodes |-> NewLedger]
    /\ mempool = [n \in Nodes |-> {}]
    /\ ahead = [n \in Nodes |-> NoBlock]
    /\ strayed = [n \in Nodes |-> FALSE]
    /\ submits = 0

\* The steps of BlockSync that leave the ledgers alone.
Other(n, p) ==
    /\ \/ Start(n) \/ StartCut(n)
       \/ Connect(n, p) \/ Hangup(n, p) \/ Lose(n, p)
       \/ RequestLast(n, p) \/ RequestBlock(n, p)
       \/ HandleLastBlockRequest(n, p) \/ HandleBlockRequest(n, p)
       \/ HandleLastBlockResponse(n, p) \/ SaveLastBlock(n, p)
    /\ UNCHANGED ledgers

LedgersNext ==
    \/ \E n \in Nodes :
          \/ \E t \in Txs : Submit(n, t)
          \/ ProposeList(n) \/ ProposalFails(n)
          \/ DieIdle(n) \/ DieProposing(n) \/ DieSaving(n)
    \/ \E n, p \in Nodes :
          \/ ReceiveBlock(n, p) \/ ReceiveMixedUp(n, p)
          \/ DieReceiving(n, p) \/ DieAstray(n, p)
          \/ Other(n, p)

LedgersSpec == LedgersInit /\ [][LedgersNext]_allVars

-----------------------------------------------------------------------------
(* Properties.                                                              *)

LedgerStates == [balance : [Accounts -> Nat], executed : SUBSET Txs]

\* The shape of what this module adds to the state; no balance is negative.
LedgersTypeOK ==
    /\ ledger \in [Nodes -> LedgerStates]
    /\ mempool \in [Nodes -> SUBSET Txs]
    /\ ahead \in [Nodes -> Block \cup {NoBlock}]
    /\ strayed \in [Nodes -> BOOLEAN]
    /\ submits \in 0..MaxSubmits
    /\ \A n \in Nodes : ~up[n] => mempool[n] = {}

\* The lists of the blocks of n, one after the other.
ChainOf(n) == [h \in 1..Index(current[n]) |-> trie[n][h]]

Replay(n) ==
    FoldLeft(LAMBDA l, b : ExecuteAll(l, b.body), NewLedger, ChainOf(n))

\* A node that has not strayed has the ledger that its chain makes: duplicates,
\* late blocks, transactions of its own mempool, deaths between two transfers
\* of a block that had skipped nothing and then comes again leave no trace.
LedgerIsChain ==
    \A n \in Nodes :
        ~strayed[n] /\ ahead[n] = NoBlock => ledger[n] = Replay(n)

Forked == \E b, d \in proposed : b.index = d.index /\ b # d

\* Without a fork, and as long as no node has abandoned work, a node executes
\* every transaction that its chain lists, each listed once: what was covered
\* for the proposer is covered everywhere, and no two proposers list the same.
ListedAreExecutedEverywhere ==
    ~Forked /\ (\A n \in Nodes : ~strayed[n]) =>
        \A n \in Nodes :
            LET listed(h) == ToSet(ChainOf(n)[h].body)
            IN  \A h \in 1..Index(current[n]) :
                    /\ listed(h) \subseteq ledger[n].executed
                    /\ \A g \in 1..(h - 1) : listed(g) \cap listed(h) = {}

\* The composition is a run of BlockSync.
ImplementsBlockSync == Spec

-----------------------------------------------------------------------------
(* What the documentation says and the code does not do.                    *)

\* README.md:62, the nodes synchronise the state of the blockchain: nodes with
\* the same blocks have the same accounts.
SameChainSameLedger ==
    \A n, p \in Nodes :
        up[n] /\ up[p] /\ ChainOf(n) = ChainOf(p) => ledger[n] = ledger[p]

=============================================================================
