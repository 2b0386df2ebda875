------------------------- MODULE MCReplicatedLedger -------------------------
(* Instances of ReplicatedLedger for TLC: accounts and transactions.        *)
EXTENDS ReplicatedLedger

CONSTANTS alice, bob, nobody

NoTxs == <<>>

Pair == {alice, bob}

Tx(f, t, n) == [from |-> f, to |-> t, amount |-> n]

\* The second is covered only after the first; the third fails.
Dependent == {Tx(bob, alice, 1), Tx(alice, bob, 2), Tx(alice, nobody, 1)}

\* One that is executed before the one that fails.
Abandoned == {Tx(alice, bob, 1), Tx(alice, nobody, 1)}

=============================================================================
