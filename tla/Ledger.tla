------------------------------- MODULE Ledger -------------------------------
(***************************************************************************)
(* The transactions of one node: the account trie and the transaction trie *)
(* in its LevelDB, its mempool, and the two loops that execute             *)
(* transactions, ProcessMempoolTransactions when the node proposes a block *)
(* and ProcessTransactionsByIDs when it receives one.                      *)
(*                                                                         *)
(* One action is what happens up to the next durable Put, so that the      *)
(* process can die between any two Puts.  bc.mut lets one loop run at a    *)
(* time; the API adds to the mempool whenever it likes.                    *)
(***************************************************************************)
EXTENDS Naturals, SequencesExt

CONSTANTS
    Txs,              \* the transactions: [from, to, amount, stamp]
    TestAccounts,     \* the addresses that InitializeTestAccounts opens
    NoAccount,        \* an address without an account
    InitialBalance,   \* the balance of a new account: 1000 in the code
    MaxSubmits,       \* bound: calls of the API that create a transaction
    MaxCrashes,       \* bound: deaths of the process outside of the loops
    MaxCuts,          \* bound: deaths of the process inside a loop
    MaxMixups         \* bound: fetches that return another transaction

Account == [balance : Nat, nonce : Nat]

\* An ID is the hash of the other fields, so a transaction is its own ID.  The
\* API takes any amount above 0 and cuts it to a whole number: 0 if below 1.
ASSUME LedgerAssumption ==
    /\ IsFiniteSet(Txs)
    /\ \A t \in Txs : t.from \in TestAccounts /\ t.amount \in Nat
    /\ NoAccount \notin Account
    /\ InitialBalance \in Nat
    /\ MaxSubmits \in Nat
    /\ MaxCrashes \in Nat
    /\ MaxCuts \in Nat
    /\ MaxMixups \in Nat

VARIABLES
    proc,       \* what the process does
    acc,        \* acc[a]: the account of a under ACC_ROOT_HASH
    executed,   \* the transactions under TX_ROOT_HASH
    mempool,    \* the transactions in the mempool
    todo,       \* the transactions that the running loop has not done
    txns,       \* the transactions done by the running proposal
    stage,      \* how far the loop is with the head of todo
    toAcc,      \* its copy of the account of the recipient, amount added
    debits,     \* history: how often t was taken from its sender
    credits,    \* history: how often t was given to its recipient
    listed,     \* history: how many saved blocks of this node list t
    budget      \* submissions and faults that may still happen

disk == <<acc, executed>>
loop == <<todo, txns, stage, toAcc>>
history == <<debits, credits, listed>>
vars == <<proc, disk, mempool, loop, history, budget>>

Spend(what) ==
    /\ budget[what] > 0
    /\ budget' = [budget EXCEPT ![what] = @ - 1]

Known(a) == a \in TestAccounts /\ acc[a] # NoAccount

-----------------------------------------------------------------------------
(* The process.                                                             *)

Init ==
    /\ proc = "down"
    /\ acc = [a \in TestAccounts |-> NoAccount]
    /\ executed = {}
    /\ mempool = {}
    /\ todo = <<>> /\ txns = {} /\ stage = "read" /\ toAcc = NoAccount
    /\ debits = [t \in Txs |-> 0]
    /\ credits = [t \in Txs |-> 0]
    /\ listed = [t \in Txs |-> 0]
    /\ budget = [submit |-> MaxSubmits, crash |-> MaxCrashes,
                 cut |-> MaxCuts, mixup |-> MaxMixups]

Start ==
    /\ proc \in {"down", "panicked"}
    /\ proc' = "booting"
    /\ UNCHANGED <<disk, mempool, loop, history, budget>>

\* Mutant: an account is opened without a look at the trie.
OpenAccountAfresh(a) ==
    /\ proc = "booting"
    /\ acc' = [acc EXCEPT ![a] = [balance |-> InitialBalance, nonce |-> 0]]
    /\ UNCHANGED <<proc, executed, mempool, loop, history, budget>>

\* InitializeTestAccounts saves the accounts that do not exist yet.
OpenAccount(a) ==
    /\ proc = "booting"
    /\ ~Known(a)
    /\ acc' = [acc EXCEPT ![a] = [balance |-> InitialBalance, nonce |-> 0]]
    /\ UNCHANGED <<proc, executed, mempool, loop, history, budget>>

Ready ==
    /\ proc = "booting"
    /\ \A a \in TestAccounts : Known(a)
    /\ proc' = "idle"
    /\ UNCHANGED <<disk, mempool, loop, history, budget>>

\* What the process kept in memory is lost.
Die(as) ==
    /\ proc' = as
    /\ mempool' = {}
    /\ todo' = <<>> /\ txns' = {} /\ stage' = "read" /\ toAcc' = NoAccount

Crash ==
    /\ \/ proc = "idle" /\ Spend("crash")
       \/ proc \in {"booting", "proposing", "receiving"} /\ Spend("cut")
    /\ Die("down")
    /\ UNCHANGED <<disk, history>>

\* CreateAndAddTransaction: the balance is not looked at, and neither is the
\* transaction trie.
CreateTx(t) ==
    /\ proc \in {"idle", "proposing", "receiving"}
    /\ t \notin mempool
    /\ Spend("submit")
    /\ mempool' = mempool \cup {t}
    /\ UNCHANGED <<proc, disk, loop, history>>

-----------------------------------------------------------------------------
(* The two loops.                                                           *)

\* Mutant: a block lists all that the mempool held.
BeginProposalListsAll ==
    /\ proc = "idle"
    /\ proc' = "proposing"
    /\ todo' \in SetToSeqs(mempool)
    /\ txns' = mempool
    /\ UNCHANGED <<disk, mempool, stage, toAcc, history, budget>>

\* ProposeNewBlock at the node's turn: a copy of the mempool, in the order of
\* a Go map.
BeginProposal ==
    /\ proc = "idle"
    /\ proc' = "proposing"
    /\ todo' \in SetToSeqs(mempool)
    /\ txns' = {}
    /\ UNCHANGED <<disk, mempool, stage, toAcc, history, budget>>

\* The lists of transactions of the blocks of the other nodes: these list
\* what they executed, so both accounts exist.
BlockLists == SetToAllKPermutations({t \in Txs : t.to \in TestAccounts})

\* HandleNewBlock goes through the list before it looks at the block index.
BeginBlock ==
    /\ proc = "idle"
    /\ proc' = "receiving"
    /\ todo' \in BlockLists
    /\ UNCHANGED <<disk, mempool, txns, stage, toAcc, history, budget>>

\* A loop runs and t is the transaction it is at.
At(t) ==
    /\ proc \in {"proposing", "receiving"}
    /\ todo # <<>>
    /\ t = Head(todo)

\* Mutant: only the transactions of this block are looked at.
ListedHere(t) == t \in txns

\* IsTransactionExist
Exists(t) == t \in executed

\* Mutant: a balance may fall short by one.
CoveredButOne(t) == acc[t.from].balance + 1 >= t.amount

Covered(t) == acc[t.from].balance >= t.amount

SkipExecuted(t) ==
    /\ At(t) /\ stage = "read"
    /\ Exists(t)
    /\ todo' = Tail(todo)
    /\ UNCHANGED <<proc, disk, mempool, txns, stage, toAcc, history, budget>>

\* GetTransactionByID asks the peers for what the mempool does not have.
Fetch(t) ==
    /\ At(t) /\ stage = "read" /\ proc = "receiving"
    /\ ~Exists(t)
    /\ t \notin mempool
    /\ stage' = "fetching"
    /\ UNCHANGED <<proc, disk, mempool, todo, txns, toAcc, history, budget>>

\* An error of RequestTransaction becomes a nil transaction, of which the
\* loop reads the sender.
FetchNil(t) ==
    /\ At(t) /\ stage = "fetching"
    /\ Die("panicked")
    /\ UNCHANGED <<disk, history, budget>>

\* A late answer to an earlier request is taken for the answer to this one
\* (TxFetch): the loop goes on with another transaction in the place of t.
Mixup(t) ==
    /\ At(t) /\ stage = "fetching"
    /\ Spend("mixup")
    /\ \E u \in Txs \ {t} : todo' = <<u>> \o Tail(todo)
    /\ stage' = "mixed"
    /\ UNCHANGED <<proc, disk, mempool, txns, toAcc, history>>

\* The ID of the list leaves the mempool: that of t, or after a mixup one that
\* the model has no longer, so any.
Unpool(t) ==
    \E u \in Txs : (stage # "mixed" => u = t) /\ mempool' = mempool \ {u}

\* The loop gives up: what it executed so far stays executed.
Abandon(t) ==
    /\ proc' = "idle"
    /\ Unpool(t)
    /\ todo' = <<>> /\ txns' = {} /\ stage' = "read" /\ toAcc' = NoAccount

\* The caller's own timeout, the one outcome that is an error.  It is twice
\* that of RequestTransaction, which comes first (TxFetch).
FetchTimeout(t) ==
    /\ At(t) /\ stage = "fetching"
    /\ Abandon(t)
    /\ UNCHANGED <<disk, history, budget>>

\* The loop has t: from the copy of the mempool, the mempool or a peer.
Has(t) ==
    /\ At(t)
    /\ \/ stage = "read" /\ ~Exists(t) /\ (proc = "receiving" => t \in mempool)
       \/ stage \in {"fetching", "mixed"}

MissingAccount(t) ==
    /\ Has(t)
    /\ ~Known(t.from) \/ ~Known(t.to)
    /\ Abandon(t)
    /\ UNCHANGED <<disk, history, budget>>

\* Mutant: a transaction that its sender cannot pay stays in the mempool.
SkipPoorKeeps(t) ==
    /\ Has(t)
    /\ Known(t.from) /\ Known(t.to) /\ ~Covered(t)
    /\ todo' = Tail(todo)
    /\ stage' = "read"
    /\ UNCHANGED <<proc, disk, mempool, txns, toAcc, history, budget>>

SkipPoor(t) ==
    /\ Has(t)
    /\ Known(t.from) /\ Known(t.to) /\ ~Covered(t)
    /\ Unpool(t)
    /\ todo' = Tail(todo)
    /\ stage' = "read"
    /\ UNCHANGED <<proc, disk, txns, toAcc, history, budget>>

\* Mutant: the nonce is not incremented.
ChargedNoNonce(a, amount) == [a EXCEPT !.balance = @ - amount]

Charged(a, amount) == [balance |-> a.balance - amount, nonce |-> a.nonce + 1]

Paid(a, amount) == [balance |-> a.balance + amount, nonce |-> a.nonce]

\* Both accounts are read, then the sender is saved.
Debit(t) ==
    /\ Has(t)
    /\ Known(t.from) /\ Known(t.to) /\ Covered(t)
    /\ stage' = "debited"
    /\ toAcc' = Paid(acc[t.to], t.amount)
    /\ acc' = [acc EXCEPT ![t.from] = Charged(@, t.amount)]
    /\ debits' = [debits EXCEPT ![t] = @ + 1]
    /\ UNCHANGED <<proc, executed, mempool, todo, txns, credits, listed, budget>>

\* The recipient is saved, from the copy made before the sender was.
Credit(t) ==
    /\ At(t) /\ stage = "debited"
    /\ stage' = "credited"
    /\ acc' = [acc EXCEPT ![t.to] = toAcc]
    /\ credits' = [credits EXCEPT ![t] = @ + 1]
    /\ toAcc' = NoAccount
    /\ UNCHANGED <<proc, executed, mempool, todo, txns, debits, listed, budget>>

\* An amount of 0 leaves the account of another as it is.  The commit of an
\* unchanged trie returns no nodes, which SaveAccountToTrie does not expect: the
\* process may end there, the sender saved and the transaction not.
CreditPanics(t) ==
    /\ At(t) /\ stage = "debited"
    /\ t.amount = 0 /\ t.from # t.to
    /\ Spend("cut")
    /\ Die("panicked")
    /\ UNCHANGED <<disk, history>>

\* Mutant: only a proposal saves its transactions.
RecordOwn(t) ==
    /\ At(t) /\ stage = "credited"
    /\ stage' = "read"
    /\ todo' = Tail(todo)
    /\ \/ /\ proc = "proposing"
          /\ executed' = executed \cup {t}
          /\ txns' = txns \cup {t}
          /\ mempool' = mempool \ {t}
       \/ proc = "receiving" /\ UNCHANGED <<executed, txns, mempool>>
    /\ UNCHANGED <<proc, acc, toAcc, history, budget>>

\* SaveTransactionToTrie; only a proposal removes t from the mempool.
Record(t) ==
    /\ At(t) /\ stage = "credited"
    /\ stage' = "read"
    /\ executed' = executed \cup {t}
    /\ todo' = Tail(todo)
    /\ \/ /\ proc = "proposing"
          /\ txns' = txns \cup {t}
          /\ mempool' = mempool \ {t}
       \/ proc = "receiving" /\ UNCHANGED <<txns, mempool>>
    /\ UNCHANGED <<proc, acc, toAcc, history, budget>>

\* After a mixup the trie may have t: its commit, too, returns no nodes.
RecordPanics(t) ==
    /\ At(t) /\ stage = "credited"
    /\ Exists(t)
    /\ Die("panicked")
    /\ UNCHANGED <<disk, history, budget>>

\* The block of the proposal is saved.
FinishProposal ==
    /\ proc = "proposing" /\ todo = <<>>
    /\ proc' = "idle"
    /\ listed' = [t \in Txs |-> listed[t] + IF t \in txns THEN 1 ELSE 0]
    /\ txns' = {}
    /\ UNCHANGED <<disk, mempool, todo, stage, toAcc, debits, credits, budget>>

\* The block received is saved, or refused for its index.
FinishBlock ==
    /\ proc = "receiving" /\ todo = <<>>
    /\ proc' = "idle"
    /\ UNCHANGED <<disk, mempool, loop, history, budget>>

-----------------------------------------------------------------------------
Boot == Start \/ Ready \/ \E a \in TestAccounts : OpenAccount(a)

Process(t) ==
    \/ SkipExecuted(t) \/ Fetch(t) \/ FetchNil(t) \/ FetchTimeout(t)
    \/ Mixup(t) \/ MissingAccount(t) \/ SkipPoor(t)
    \/ Debit(t) \/ Credit(t) \/ CreditPanics(t) \/ Record(t)
    \/ RecordPanics(t)

Work == FinishProposal \/ FinishBlock \/ \E t \in Txs : Process(t)

Next ==
    \/ Boot \/ Crash \/ BeginProposal \/ BeginBlock \/ Work
    \/ \E t \in Txs : CreateTx(t)

Spec == Init /\ [][Next]_vars

\* The operator restarts a dead process.  A loop that runs goes on (a fetch
\* has a timeout).  bc.mut is fair, so the proposal loop gets it again and
\* again whatever blocks arrive, and the turn of the node comes back.
Fairness ==
    /\ WF_vars(Boot)
    /\ WF_vars(Work)
    /\ SF_vars(BeginProposal)

FairSpec == Spec /\ Fairness

-----------------------------------------------------------------------------
(* Properties.                                                              *)

\* The shape of the state; no balance falls below zero (the loops subtract in
\* a uint64), and while a loop runs every account exists.
TypeOK ==
    /\ proc \in {"down", "panicked", "booting", "idle", "proposing", "receiving"}
    /\ acc \in [TestAccounts -> Account \cup {NoAccount}]
    /\ executed \subseteq Txs
    /\ mempool \subseteq Txs
    /\ todo \in Seq(Txs)
    /\ txns \subseteq Txs
    /\ stage \in {"read", "fetching", "mixed", "debited", "credited"}
    /\ toAcc \in Account \cup {NoAccount}
    /\ debits \in [Txs -> Nat]
    /\ credits \in [Txs -> Nat]
    /\ listed \in [Txs -> Nat]
    /\ budget \in [{"submit", "crash", "cut", "mixup"} -> Nat]
    /\ proc \in {"idle", "proposing", "receiving"} =>
          \A a \in TestAccounts : acc[a] # NoAccount
    /\ stage # "read" => proc \in {"proposing", "receiving"} /\ todo # <<>>
    /\ stage = "debited" <=> toAcc # NoAccount

Total(amount(_), S) == MapThenSumSet(amount, S)

\* A transfer of a to itself got as far as its second save.
PaidItself(a) == \E t \in Txs : t.from = a /\ t.to = a /\ credits[t] > 0

\* Through restarts and deaths between two Puts, the balance and the nonce of
\* an account are what the saves that happened make of them: no debit or credit
\* is lost or made twice, and each debit is counted.  An account that paid itself
\* is left out: its second save overwrites the first (NonceCountsExecuted).
AccountsAddUp ==
    \A a \in TestAccounts :
        LET sent == {t \in Txs : t.from = a}
            got == {t \in Txs : t.to = a}
            Taken(t) == t.amount * debits[t]
            Given(t) == t.amount * credits[t]
        IN  acc[a] # NoAccount /\ ~PaidItself(a) =>
              /\ acc[a].balance + Total(Taken, sent)
                    = InitialBalance + Total(Given, got)
              /\ acc[a].nonce = Total(LAMBDA t : debits[t], sent)

\* No two blocks of this node list the same transaction, also after a death
\* in the middle of a proposal or the same transaction submitted twice.
ListedOnce == \A t \in Txs : listed[t] <= 1

\* A saved block of this node lists only what its tries hold as executed.
ListedAreExecuted == \A t \in Txs : listed[t] > 0 => t \in executed

\* A transaction is executed once, and once more for each death of the
\* process between the save of its sender and the save of its ID, and for each
\* fetch that returned it in place of another.
OnceMorePerFault ==
    \A t \in Txs :
        debits[t] <= 1 + (MaxCuts - budget.cut) + (MaxMixups - budget.mixup)

\* The sender of t before the debit.
Undone(t) == [balance |-> acc[t.from].balance + t.amount,
              nonce |-> acc[t.from].nonce - 1]

\* The ledger as the abstract one has it: a transfer happens when its
\* recipient is saved.
SeenAccount ==
    [a \in TestAccounts |->
        IF stage = "debited" /\ a = Head(todo).from THEN Undone(Head(todo)) ELSE acc[a]]

SeenExecuted == IF stage = "credited" THEN executed \cup {Head(todo)} ELSE executed

\* As long as no process dies inside a loop, no fetch is mixed up and nobody
\* pays himself, the three saves of a transfer are one step of the abstract ledger.
Atomic == INSTANCE AtomicLedger WITH account <- SeenAccount, executed <- SeenExecuted

ImplementsAtomicLedger == Atomic!Spec

\* A submitted transaction does not wait for ever: it is executed, or it
\* leaves the mempool.
Decided == \A t \in Txs : t \in mempool ~> (t \in executed \/ t \notin mempool)

-----------------------------------------------------------------------------
(* What a comment says and the code does not do.                            *)

\* account.go:20, the nonce is the number of transactions executed from the
\* account, between two transfers and when no process died inside one.
NonceCountsExecuted ==
    stage = "read" /\ budget.cut = MaxCuts /\ budget.mixup = MaxMixups =>
        \A a \in TestAccounts :
            acc[a] # NoAccount =>
                acc[a].nonce = Cardinality({t \in executed : t.from = a})

=============================================================================
