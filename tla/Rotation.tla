------------------------------ MODULE Rotation ------------------------------
(***************************************************************************)
(* Whose turn it is to propose a block, and whose key a received block is  *)
(* compared with.  Both are arithmetic on the block index, which the code  *)
(* keeps in a uint64: the subtraction in CheckProposalCondition wraps.     *)
(***************************************************************************)
EXTENDS Naturals

CONSTANT WordSize   \* number of values of a uint64: 2^64

\* Every even power of two leaves the remainder 1 modulo 3, so TLC can use
\* 2^16 where the code has 2^64; the proofs use nothing else about it.
ASSUME WordSizeAssumption == /\ WordSize \in Nat
                             /\ WordSize > 3
                             /\ WordSize % 3 = 1

\* The node indices of config1.json .. config3.json.
ConfigNodes == 1..3

\* a - b on unsigned words.
UintSub(a, b) == IF b <= a THEN a - b ELSE WordSize - (b - a)

\* CheckProposalCondition: may the node with config index i propose the
\* successor of the block at height c?
Eligible(c, i) == UintSub(c + 1, i) % 3 = 0

\* HandleNewBlock: the config index of the node whose public key the
\* signature of the block at height h is compared with.
VerifierIndex(h) == (h % 3) + 1

=============================================================================
