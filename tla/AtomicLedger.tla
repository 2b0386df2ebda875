---------------------------- MODULE AtomicLedger ----------------------------
(***************************************************************************)
(* What the execution of transactions promises: an account is opened once, *)
(* and a transaction moves its amount in one step, once, out of a balance  *)
(* that covers it, and counts in the nonce of its sender.                  *)
(***************************************************************************)
EXTENDS Naturals

CONSTANTS
    Txs,              \* the transactions: [from, to, amount, stamp]
    TestAccounts,     \* the addresses that have an account
    NoAccount,        \* the value of an address without one
    InitialBalance    \* the balance an account opens with

VARIABLES
    account,    \* account[a]: the balance and nonce of address a
    executed    \* the transactions executed so far

ledgerVars == <<account, executed>>

NewAccount == [balance |-> InitialBalance, nonce |-> 0]

Init ==
    /\ account = [a \in TestAccounts |-> NoAccount]
    /\ executed = {}

Open(a) ==
    /\ account[a] = NoAccount
    /\ account' = [account EXCEPT ![a] = NewAccount]
    /\ UNCHANGED executed

Transfer(t) ==
    /\ t \notin executed
    /\ t.from \in TestAccounts /\ t.to \in TestAccounts
    /\ account[t.from] # NoAccount /\ account[t.to] # NoAccount
    /\ account[t.from].balance >= t.amount
    /\ account' = [account EXCEPT
          ![t.from] = [balance |-> @.balance - t.amount, nonce |-> @.nonce + 1],
          ![t.to] = [balance |-> @.balance + t.amount, nonce |-> @.nonce]]
    /\ executed' = executed \cup {t}

Next == \/ \E a \in TestAccounts : Open(a)
        \/ \E t \in Txs : Transfer(t)

Spec == Init /\ [][Next]_ledgerVars

=============================================================================
