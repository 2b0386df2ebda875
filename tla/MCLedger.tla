------------------------------ MODULE MCLedger ------------------------------
(* Instances of Ledger for TLC: the accounts and the transactions.          *)
EXTENDS Ledger

CONSTANTS alice, bob, nobody

Tx(f, t, n, s) == [from |-> f, to |-> t, amount |-> n, stamp |-> s]

Pair == {alice, bob}

\* Two payments that one balance covers once, and the way back.
Payments == {Tx(alice, bob, 2, 1), Tx(alice, bob, 2, 2), Tx(bob, alice, 3, 1)}

\* A payment, one to oneself, one to an address without an account, and one of
\* nothing.
Odd == {Tx(alice, bob, 2, 1), Tx(alice, alice, 1, 1), Tx(bob, nobody, 1, 1),
        Tx(bob, alice, 0, 1)}

=============================================================================
