----------------------------- MODULE MCTxFetch ------------------------------
(* Instances of TxFetch for TLC: who is connected, what was submitted where. *)
EXTENDS TxFetch

CONSTANTS t1, t2

Everybody == {{n, p} : n, p \in Nodes}

\* Node 3 in the middle.
Star == {{n, 3} : n \in Nodes}

One == {t1}
Two == {t1, t2}

AtOne == [n \in Nodes |-> IF n = 1 THEN {t1} ELSE {}]

\* Both at node 1, and t1 submitted to node 2 as well.
Shared == [n \in Nodes |-> IF n = 1 THEN Txs ELSE IF n = 2 THEN {t1} ELSE {}]

=============================================================================
