----------------------- MODULE ReplicatedLedgerProofs -----------------------
(***************************************************************************)
(* What holds of nodes with ledgers.  The composition adds nothing to what *)
(* the blocks do, so that what is proved of BlockSync holds of it; the     *)
(* ledger of a node that has not strayed is the replay of its chain; and   *)
(* what a chain lists was executed, once, by every node that has it.       *)
(*                                                                         *)
(* The lemmas on execution come first.  Then every step is sorted by what  *)
(* it does to the ledger and the chain of a node, and the invariants are   *)
(* proved for these effects.                                               *)
(***************************************************************************)
EXTENDS ReplicatedLedger, BlockSyncProofs

\* Each step of the composition is a step of BlockSync, or leaves its
\* variables as they are.
LEMMA LedgerStep == LedgersNext => [Next]_vars
<1> SUFFICES ASSUME LedgersNext PROVE [Next]_vars
  OBVIOUS
<1>1. ASSUME NEW n \in Nodes, NEW t \in Txs, Submit(n, t)
      PROVE  UNCHANGED vars
  BY <1>1 DEF Submit
<1>2. ASSUME NEW n \in Nodes, ProposeList(n)
      PROVE  ProposeOrphan(n) \/ \E p \in Nodes : Propose(n, p)
  BY <1>2 DEF ProposeList
<1>3. ASSUME NEW n \in Nodes, ProposalFails(n)
      PROVE  UNCHANGED vars
  BY <1>3 DEF ProposalFails
<1>4. ASSUME NEW n \in Nodes, DieIdle(n) \/ DieProposing(n)
      PROVE  Crash(n)
  BY <1>4 DEF DieIdle, DieProposing
<1>5. ASSUME NEW n \in Nodes, NEW p \in Nodes, DieReceiving(n, p) \/ DieAstray(n, p)
      PROVE  Crash(n)
  BY <1>5 DEF DieReceiving, DieAstray
<1>6. ASSUME NEW n \in Nodes, DieSaving(n)
      PROVE  ProposeCut(n) \/ \E p \in Nodes : HandleNewBlockCut(n, p)
  BY <1>6 DEF DieSaving
<1>7. ASSUME NEW n \in Nodes, NEW p \in Nodes, ReceiveBlock(n, p) \/ ReceiveMixedUp(n, p)
      PROVE  HandleNewBlock(n, p)
  BY <1>7 DEF ReceiveBlock, ReceiveMixedUp
<1>8. ASSUME NEW n \in Nodes, NEW p \in Nodes, Other(n, p)
      PROVE  Next
  BY <1>8 DEF Other, Next, Alone, Timer, Receive
<1>9. ASSUME NEW n \in Nodes,
             \/ ProposeOrphan(n) \/ Crash(n) \/ ProposeCut(n)
             \/ \E p \in Nodes : \/ Propose(n, p) \/ HandleNewBlock(n, p)
                                 \/ HandleNewBlockCut(n, p)
      PROVE  Next
  BY <1>9 DEF Next, Alone, Timer, Receive
<1> QED
  BY <1>1, <1>2, <1>3, <1>4, <1>5, <1>6, <1>7, <1>8, <1>9 DEF LedgersNext

\* The composition of ledgers and block synchronisation is a run of block
\* synchronisation, whatever the transactions do (ProposeNewBlock and
\* HandleNewBlock touch the chain in SaveBlockToTrie only).
THEOREM Composition == LedgersSpec => ImplementsBlockSync
<1>1. LedgersInit => Init
  BY DEF LedgersInit
<1>2. [LedgersNext]_allVars => [Next]_vars
  BY LedgerStep DEF allVars
<1> QED
  BY <1>1, <1>2, PTL DEF LedgersSpec, ImplementsBlockSync, Spec

\* Nodes that execute the lists of their blocks hold the same blocks, and so
\* the same lists, from height 3 on.
THEOREM ListsAgree == LedgersSpec => []Agreement
  BY Composition, NodesAgree, PTL DEF ImplementsBlockSync

\* A node never lists transactions twice over for one height.
THEOREM OneListPerTurn == LedgersSpec => []OneBlockPerTurn
  BY Composition, SignsOnce, PTL DEF ImplementsBlockSync

-----------------------------------------------------------------------------
(* Execution.  A transaction to an account is executed if it is covered and *)
(* was not executed before; a ledger stays one.                             *)

Payable == {t \in Txs : t.to \in Accounts}

LEMMA PayableTxs ==
    \A t \in Payable : /\ t \in Txs /\ t.from \in Accounts /\ t.to \in Accounts
                       /\ t.from # t.to /\ t.amount \in Nat
  BY ReplicatedAssumption DEF Payable

LEMMA TransferType ==
    ASSUME NEW l \in LedgerStates, NEW t \in Payable, Covered(l, t)
    PROVE  /\ Transfer(l, t) \in LedgerStates
           /\ Transfer(l, t).executed = l.executed \cup {t}
<1> DEFINE poorer == [l.balance EXCEPT ![t.from] = @ - t.amount]
           richer == [poorer EXCEPT ![t.to] = @ + t.amount]
<1>1. /\ l.balance \in [Accounts -> Nat] /\ l.executed \in SUBSET Txs
      /\ t \in Txs /\ t.from \in Accounts /\ t.to \in Accounts /\ t.amount \in Nat
  BY PayableTxs DEF LedgerStates
<1>2. l.balance[t.from] - t.amount \in Nat
  BY <1>1 DEF Covered
<1>3. poorer \in [Accounts -> Nat]
  BY <1>1, <1>2
<1>4. richer \in [Accounts -> Nat]
  <2> HIDE DEF poorer
  <2>1. poorer[t.to] + t.amount \in Nat
    BY <1>1, <1>3
  <2> QED
    BY <1>3, <2>1
<1>5. Transfer(l, t) = [balance |-> richer, executed |-> l.executed \cup {t}]
  BY DEF Transfer
<1> HIDE DEF richer
<1> QED
  BY <1>1, <1>4, <1>5 DEF LedgerStates

LEMMA InterruptedType ==
    ASSUME NEW l \in LedgerStates, NEW t \in Payable, Covered(l, t)
    PROVE  Interrupted(l, t) \subseteq LedgerStates
<1> DEFINE poorer == [l.balance EXCEPT ![t.from] = @ - t.amount]
<1>1. /\ l.balance \in [Accounts -> Nat] /\ l.executed \in SUBSET Txs
      /\ l = [balance |-> l.balance, executed |-> l.executed]
      /\ t.from \in Accounts /\ t.amount \in Nat
  BY PayableTxs DEF LedgerStates
<1>2. poorer \in [Accounts -> Nat]
  <2>1. l.balance[t.from] - t.amount \in Nat
    BY <1>1 DEF Covered
  <2> QED
    BY <1>1, <2>1
<1>3. Transfer(l, t).balance \in [Accounts -> Nat]
  BY TransferType DEF LedgerStates
<1>4. [l EXCEPT !.balance[t.from] = @ - t.amount] = [l EXCEPT !.balance = poorer]
  BY <1>1
<1>5. ASSUME NEW f \in [Accounts -> Nat]
      PROVE  [l EXCEPT !.balance = f] \in LedgerStates
  BY DEF LedgerStates
<1> HIDE DEF poorer
<1>6. [l EXCEPT !.balance = poorer] \in LedgerStates
  BY <1>2, <1>5
<1>7. [l EXCEPT !.balance = Transfer(l, t).balance] \in LedgerStates
  BY <1>3, <1>5
<1> QED
  BY <1>4, <1>6, <1>7 DEF Interrupted

LEMMA ExecuteType ==
    ASSUME NEW l \in LedgerStates, NEW t \in Payable
    PROVE  /\ Execute(l, t) \in LedgerStates
           /\ l.executed \subseteq Execute(l, t).executed
           /\ Execute(l, t).executed \subseteq l.executed \cup {t}
           /\ t \in l.executed => Execute(l, t) = l
           /\ t \notin l.executed /\ Covered(l, t) => Execute(l, t) = Transfer(l, t)
  BY TransferType DEF Execute

-----------------------------------------------------------------------------
(* The execution of a list, one transaction after the other: a run of       *)
(* ledgers, of which ExecuteAll gives the last.                             *)

Executes(r, l, list) ==
    /\ r[0] = l
    /\ \A i \in 1 .. Len(list) : r[i] = Execute(r[i - 1], list[i])

LEMMA ExecutesType ==
    ASSUME NEW l \in LedgerStates, NEW list \in Seq(Payable), NEW r, Executes(r, l, list)
    PROVE  \A i \in 0 .. Len(list) : r[i] \in LedgerStates
<1> DEFINE Good == {i \in Nat : i <= Len(list) => r[i] \in LedgerStates}
<1>1. 0 \in Good
  BY DEF Executes
<1>2. ASSUME NEW i \in Nat, i \in Good
      PROVE  i + 1 \in Good
  <2> SUFFICES ASSUME i + 1 <= Len(list) PROVE r[i + 1] \in LedgerStates
    OBVIOUS
  <2>1. i + 1 \in 1 .. Len(list) /\ (i + 1) - 1 = i /\ r[i] \in LedgerStates
    BY <1>2
  <2>2. r[i + 1] = Execute(r[i], list[i + 1]) /\ list[i + 1] \in Payable
    BY <2>1 DEF Executes
  <2> QED
    BY <2>1, <2>2, ExecuteType
<1>3. Nat \subseteq Good
  <2> HIDE DEF Good
  <2> QED
    BY <1>1, <1>2, SetInduction
<1> QED
  BY <1>3

\* ExecuteAll is the end of a run.
LEMMA ExecuteAllRuns ==
    ASSUME NEW l \in LedgerStates, NEW list \in Seq(Payable)
    PROVE  \E r : Executes(r, l, list) /\ ExecuteAll(l, list) = r[Len(list)]
<1> DEFINE P == 1 .. Len(list)
           op == [p \in LedgerStates \X Payable |-> Execute(p[1], p[2])]
           Eq(g) == g = [s \in SUBSET P |->
                          IF s = {} THEN l
                          ELSE Execute(g[s \ {Largest(s)}], list[Largest(s)])]
<1>0. Len(list) \in Nat /\ DOMAIN list = P /\ \A i \in P : list[i] \in Payable
  OBVIOUS
<1>1. ExecuteAll(l, list) = (CHOOSE g : Eq(g))[P]
  BY <1>0 DEF ExecuteAll, FoldLeft, MapThenFoldSet, Max, Largest
<1>2. \E g : Eq(g)
  <2>1. op \in [LedgerStates \X Payable -> LedgerStates]
    BY ExecuteType
  <2>2. \A m \in LedgerStates, t \in Payable : op[<<m, t>>] = Execute(m, t)
    OBVIOUS
  <2> HIDE DEF op
  <2>p. PICK g : Folds(g, op, l, list, LedgerStates)
    BY <2>1, FoldsExist
  <2>3. /\ g \in [SUBSET P -> LedgerStates]
        /\ \A s \in SUBSET P :
              g[s] = IF s = {} THEN l ELSE op[<<g[s \ {Largest(s)}], list[Largest(s)]>>]
    BY <2>p DEF Folds
  <2>4. ASSUME NEW s \in SUBSET P
        PROVE  g[s] = IF s = {} THEN l
                      ELSE Execute(g[s \ {Largest(s)}], list[Largest(s)])
    <3>1. CASE s = {}
      BY <2>3, <3>1
    <3>2. CASE s # {}
      <4>1. Largest(s) \in P /\ s \ {Largest(s)} \in SUBSET P
        BY <1>0, <3>2, LargestSmaller
      <4> QED
        BY <1>0, <2>2, <2>3, <3>2, <4>1
    <3> QED
      BY <3>1, <3>2
  <2>5. Eq(g)
    <3> HIDE DEF P
    <3> QED
      BY <2>3, <2>4
  <2> HIDE DEF Eq
  <2> QED
    BY <2>5
<1>3. PICK g : Eq(g) /\ ExecuteAll(l, list) = g[P]
  <2> HIDE DEF Eq
  <2> QED
    BY <1>1, <1>2
<1> DEFINE r == [i \in 0 .. Len(list) |-> g[1 .. i]]
<1>4. r[0] = l
  <2>1. g[{}] = l /\ 1 .. 0 = {}
    BY <1>3
  <2> QED
    BY <1>0, <2>1
<1>5. ASSUME NEW i \in P
      PROVE  r[i] = Execute(r[i - 1], list[i])
  <2>1. /\ 1 .. i \in SUBSET P /\ 1 .. i # {}
        /\ Largest(1 .. i) = i /\ (1 .. i) \ {Largest(1 .. i)} = 1 .. i - 1
    BY <1>0, FirstPlaces
  <2>2. g[1 .. i] = Execute(g[1 .. i - 1], list[i])
    BY <1>3, <2>1
  <2>3. i \in 0 .. Len(list) /\ i - 1 \in 0 .. Len(list)
    BY <1>0
  <2> QED
    BY <2>2, <2>3
<1>6. r[Len(list)] = ExecuteAll(l, list)
  BY <1>0, <1>3
<1>7. Executes(r, l, list)
  BY <1>4, <1>5 DEF Executes
<1> HIDE DEF r
<1> QED
  BY <1>6, <1>7

\* Runs that begin alike go on alike, as long as their lists are the same.
LEMMA RunsAgree ==
    ASSUME NEW l, NEW one, NEW two, NEW r, NEW s, NEW k \in Nat,
           Executes(r, l, one), Executes(s, l, two),
           Len(one) \in Nat, Len(two) \in Nat, k <= Len(one), k <= Len(two),
           \A i \in 1 .. k : one[i] = two[i]
    PROVE  \A i \in 0 .. k : r[i] = s[i]
<1> DEFINE Good == {i \in Nat : i <= k => r[i] = s[i]}
<1>1. 0 \in Good
  BY DEF Executes
<1>2. ASSUME NEW i \in Nat, i \in Good
      PROVE  i + 1 \in Good
  <2> SUFFICES ASSUME i + 1 <= k PROVE r[i + 1] = s[i + 1]
    OBVIOUS
  <2>1. /\ i + 1 \in 1 .. Len(one) /\ i + 1 \in 1 .. Len(two) /\ i + 1 \in 1 .. k
        /\ (i + 1) - 1 = i /\ r[i] = s[i]
    BY <1>2
  <2>2. r[i + 1] = Execute(r[i], one[i + 1]) /\ s[i + 1] = Execute(s[i], two[i + 1])
    BY <2>1 DEF Executes
  <2> QED
    BY <2>1, <2>2
<1>3. Nat \subseteq Good
  <2> HIDE DEF Good
  <2> QED
    BY <1>1, <1>2, SetInduction
<1> QED
  BY <1>3

\* The first k transactions of a list.
First(list, k) == SubSeq(list, 1, k)

LEMMA FirstType ==
    ASSUME NEW S, NEW list \in Seq(S), NEW k \in 0 .. Len(list)
    PROVE  /\ First(list, k) \in Seq(S) /\ Len(First(list, k)) = k
           /\ \A i \in 1 .. k : First(list, k)[i] = list[i]
           /\ ToSet(First(list, k)) = {list[i] : i \in 1 .. k}
           /\ ToSet(list) = {list[i] : i \in 1 .. Len(list)}
           /\ First(list, Len(list)) = list
<1>1. /\ First(list, k) \in Seq(S) /\ Len(First(list, k)) = k
      /\ \A i \in 1 .. k : First(list, k)[i] = list[i]
  BY SubSeqProperties DEF First
<1>2. DOMAIN First(list, k) = 1 .. k /\ DOMAIN list = 1 .. Len(list)
  BY <1>1
<1>3. ToSet(First(list, k)) = {list[i] : i \in 1 .. k}
  BY <1>1, <1>2 DEF ToSet
<1>4. ToSet(list) = {list[i] : i \in 1 .. Len(list)}
  BY <1>2 DEF ToSet
<1>5. First(list, Len(list)) = list
  BY SubSeqProperties DEF First
<1> QED
  BY <1>1, <1>3, <1>4, <1>5

\* A run passes the ends of the executions of the parts of its list.
LEMMA ExecutePart ==
    ASSUME NEW l \in LedgerStates, NEW list \in Seq(Payable), NEW r,
           Executes(r, l, list), NEW k \in 0 .. Len(list)
    PROVE  ExecuteAll(l, First(list, k)) = r[k]
<1>1. /\ First(list, k) \in Seq(Payable) /\ Len(First(list, k)) = k
      /\ \A i \in 1 .. k : First(list, k)[i] = list[i]
  BY FirstType
<1>2. PICK s : Executes(s, l, First(list, k)) /\ ExecuteAll(l, First(list, k)) = s[k]
  BY <1>1, ExecuteAllRuns
<1>3. k \in Nat /\ k <= Len(list) /\ Len(list) \in Nat /\ k \in 0 .. k
  OBVIOUS
<1>4. \A i \in 0 .. k : s[i] = r[i]
  BY <1>1, <1>2, <1>3, RunsAgree
<1> QED
  BY <1>2, <1>3, <1>4

\* Execution adds to what was executed, and nothing but the list.
LEMMA ExecuteAllType ==
    ASSUME NEW l \in LedgerStates, NEW list \in Seq(Payable)
    PROVE  /\ ExecuteAll(l, list) \in LedgerStates
           /\ l.executed \subseteq ExecuteAll(l, list).executed
           /\ ExecuteAll(l, list).executed \subseteq l.executed \cup ToSet(list)
<1>1. PICK r : Executes(r, l, list) /\ ExecuteAll(l, list) = r[Len(list)]
  BY ExecuteAllRuns
<1>2. \A i \in 0 .. Len(list) : r[i] \in LedgerStates
  BY <1>1, ExecutesType
<1> DEFINE Good == {i \in Nat : i <= Len(list) =>
                        /\ l.executed \subseteq r[i].executed
                        /\ r[i].executed \subseteq l.executed \cup ToSet(list)}
<1>3. 0 \in Good
  BY <1>1 DEF Executes
<1>4. ASSUME NEW i \in Nat, i \in Good
      PROVE  i + 1 \in Good
  <2> SUFFICES ASSUME i + 1 <= Len(list)
               PROVE  /\ l.executed \subseteq r[i + 1].executed
                      /\ r[i + 1].executed \subseteq l.executed \cup ToSet(list)
    OBVIOUS
  <2>1. /\ i + 1 \in 1 .. Len(list) /\ (i + 1) - 1 = i /\ i \in 0 .. Len(list)
        /\ l.executed \subseteq r[i].executed
        /\ r[i].executed \subseteq l.executed \cup ToSet(list)
    BY <1>4
  <2>2. r[i + 1] = Execute(r[i], list[i + 1]) /\ list[i + 1] \in Payable
    BY <1>1, <2>1 DEF Executes
  <2>3. list[i + 1] \in ToSet(list)
    BY <2>1 DEF ToSet
  <2>4. /\ r[i].executed \subseteq r[i + 1].executed
        /\ r[i + 1].executed \subseteq r[i].executed \cup {list[i + 1]}
    BY <1>2, <2>1, <2>2, ExecuteType
  <2> QED
    BY <2>1, <2>3, <2>4
<1>5. Nat \subseteq Good
  <2> HIDE DEF Good
  <2> QED
    BY <1>3, <1>4, SetInduction
<1>6. Len(list) \in Good
  BY <1>5
<1> QED
  BY <1>1, <1>2, <1>6

LEMMA ExecuteAllEmpty ==
    ASSUME NEW l \in LedgerStates
    PROVE  ExecuteAll(l, <<>>) = l
<1>1. <<>> \in Seq(Payable) /\ Len(<<>>) = 0
  BY EmptySeq
<1>2. PICK r : Executes(r, l, <<>>) /\ ExecuteAll(l, <<>>) = r[0]
  BY <1>1, ExecuteAllRuns
<1> QED
  BY <1>2 DEF Executes

LEMMA ExecuteAllAppend ==
    ASSUME NEW l \in LedgerStates, NEW list \in Seq(Payable), NEW t \in Payable
    PROVE  ExecuteAll(l, Append(list, t)) = Execute(ExecuteAll(l, list), t)
<1> DEFINE longer == Append(list, t)
           n == Len(list)
<1>1. /\ longer \in Seq(Payable) /\ Len(longer) = n + 1 /\ n \in Nat
      /\ \A i \in 1 .. n : longer[i] = list[i]
      /\ longer[n + 1] = t
  BY AppendProperties
<1> HIDE DEF longer
<1>2. PICK r : Executes(r, l, longer) /\ ExecuteAll(l, longer) = r[n + 1]
  BY <1>1, ExecuteAllRuns
<1>3. PICK s : Executes(s, l, list) /\ ExecuteAll(l, list) = s[n]
  BY ExecuteAllRuns
<1>4. \A i \in 0 .. n : r[i] = s[i]
  BY <1>1, <1>2, <1>3, RunsAgree
<1>5. r[n + 1] = Execute(r[n], t)
  <2>1. n + 1 \in 1 .. Len(longer) /\ (n + 1) - 1 = n
    BY <1>1
  <2> QED
    BY <1>1, <1>2, <2>1 DEF Executes
<1>6. n \in 0 .. n
  BY <1>1
<1> QED
  BY <1>2, <1>3, <1>4, <1>5, <1>6 DEF longer

\* Execution that stopped after k transactions, all of which it executed, and
\* begins again with the first, ends where it would have ended.
LEMMA ExecuteAgain ==
    ASSUME NEW l \in LedgerStates, NEW list \in Seq(Payable), NEW k \in 0 .. Len(list),
           NEW m, m = ExecuteAll(l, First(list, k)),
           ToSet(First(list, k)) \subseteq m.executed, NEW j \in 0 .. Len(list)
    PROVE  ExecuteAll(m, First(list, j)) = ExecuteAll(l, First(list, IF j <= k THEN k ELSE j))
<1>1. PICK r : Executes(r, l, list)
  BY ExecuteAllRuns
<1>2. m = r[k] /\ \A i \in 0 .. Len(list) : r[i] \in LedgerStates
  BY <1>1, ExecutePart, ExecutesType
<1>3. m \in LedgerStates
  BY <1>2
<1>4. PICK s : Executes(s, m, list)
  BY <1>3, ExecuteAllRuns
<1>5. \A i \in 1 .. k : list[i] \in m.executed
  BY FirstType
<1> DEFINE Good == {i \in Nat : i <= Len(list) => s[i] = IF i <= k THEN m ELSE r[i]}
<1>6. 0 \in Good
  BY <1>4 DEF Executes
<1>7. ASSUME NEW i \in Nat, i \in Good
      PROVE  i + 1 \in Good
  <2> SUFFICES ASSUME i + 1 <= Len(list)
               PROVE  s[i + 1] = IF i + 1 <= k THEN m ELSE r[i + 1]
    OBVIOUS
  <2>1. i + 1 \in 1 .. Len(list) /\ (i + 1) - 1 = i /\ i \in 0 .. Len(list)
    OBVIOUS
  <2>2. s[i] = IF i <= k THEN m ELSE r[i]
    BY <1>7, <2>1
  <2>3. /\ s[i + 1] = Execute(s[i], list[i + 1]) /\ list[i + 1] \in Payable
        /\ r[i + 1] = Execute(r[i], list[i + 1])
    BY <1>1, <1>4, <2>1 DEF Executes
  <2>4. CASE i + 1 <= k
    <3>1. s[i] = m /\ list[i + 1] \in m.executed
      BY <1>5, <2>2, <2>4
    <3>2. Execute(m, list[i + 1]) = m
      BY <1>3, <2>3, <3>1, ExecuteType
    <3> QED
      BY <2>3, <2>4, <3>1, <3>2
  <2>5. CASE ~(i + 1 <= k)
    <3>1. s[i] = r[i]
      BY <1>2, <2>2, <2>5
    <3> QED
      BY <2>3, <2>5, <3>1
  <2> QED
    BY <2>4, <2>5
<1>8. Nat \subseteq Good
  <2> HIDE DEF Good
  <2> QED
    BY <1>6, <1>7, SetInduction
<1>9. s[j] = IF j <= k THEN m ELSE r[j]
  BY <1>8
<1>10. ExecuteAll(m, First(list, j)) = s[j]
  BY <1>3, <1>4, ExecutePart
<1>11. \A i \in 0 .. Len(list) : ExecuteAll(l, First(list, i)) = r[i]
  BY <1>1, ExecutePart
<1> QED
  BY <1>2, <1>9, <1>10, <1>11

-----------------------------------------------------------------------------
(* The loop of a proposal: what it lists is what it executes, so that the   *)
(* list, executed anywhere from the same ledger, gives the same.            *)

LoopStates == [ledger : LedgerStates, listed : Seq(Payable),
               removed : SUBSET Txs, failed : BOOLEAN]

LoopStart(l) == [ledger |-> l, listed |-> <<>>, removed |-> {}, failed |-> FALSE]

\* Executed from l, the list is paid for: nothing in it was executed before,
\* all of it is executed.
Pays(l, list) ==
    /\ ToSet(list) \cap l.executed = {}
    /\ ToSet(list) \subseteq ExecuteAll(l, list).executed

\* The loop that began with l is at x.
LoopAt(x, l) ==
    /\ x \in LoopStates
    /\ x.ledger = ExecuteAll(l, x.listed)
    /\ Pays(l, x.listed)

LEMMA ToSetAppend ==
    ASSUME NEW S, NEW list \in Seq(S), NEW t \in S
    PROVE  ToSet(Append(list, t)) = ToSet(list) \cup {t}
<1>1. /\ DOMAIN Append(list, t) = 1 .. Len(list) + 1 /\ DOMAIN list = 1 .. Len(list)
      /\ \A i \in 1 .. Len(list) : Append(list, t)[i] = list[i]
      /\ Append(list, t)[Len(list) + 1] = t /\ Len(list) \in Nat
  BY AppendProperties
<1> QED
  BY <1>1 DEF ToSet

LEMMA LoopStartsAt ==
    ASSUME NEW l \in LedgerStates
    PROVE  LoopAt(LoopStart(l), l)
<1>1. <<>> \in Seq(Payable) /\ ToSet(<<>>) = {}
  BY EmptySeq DEF ToSet
<1>2. LoopStart(l) \in LoopStates
  BY <1>1 DEF LoopStart, LoopStates
<1> QED
  BY <1>1, <1>2, ExecuteAllEmpty DEF LoopStart, LoopAt, Pays

LEMMA ProcessAt ==
    ASSUME NEW l \in LedgerStates, NEW x, LoopAt(x, l), NEW t \in Txs
    PROVE  LoopAt(Process(x, t), l)
<1>x. /\ x.ledger \in LedgerStates /\ x.listed \in Seq(Payable)
      /\ x.removed \in SUBSET Txs /\ x.failed \in BOOLEAN
      /\ x = [ledger |-> x.ledger, listed |-> x.listed,
              removed |-> x.removed, failed |-> x.failed]
  BY DEF LoopAt, LoopStates
<1> DEFINE q == [ledger |-> x.ledger, listed |-> x.listed,
                 removed |-> x.removed \cup {t}, failed |-> x.failed]
           skips == x.failed \/ t \in x.ledger.executed
<1>q. [x EXCEPT !.removed = @ \cup {t}] = q
  <2>1. PICK a, b, c, d : x = [ledger |-> a, listed |-> b, removed |-> c, failed |-> d]
    BY <1>x, Zenon
  <2>2. x.ledger = a /\ x.listed = b /\ x.removed = c /\ x.failed = d
    BY <2>1
  <2>3. q = [ledger |-> a, listed |-> b, removed |-> c \cup {t}, failed |-> d]
    BY <2>2, Zenon
  <2> QED
    BY <2>1, <2>3
<1>1. CASE skips
  BY <1>1 DEF Process
<1>2. CASE ~skips /\ t.to \notin Accounts
  <2>1. Process(x, t) = [q EXCEPT !.failed = TRUE]
    BY <1>2, <1>q DEF Process
  <2>2. Process(x, t) = [ledger |-> x.ledger, listed |-> x.listed,
                         removed |-> x.removed \cup {t}, failed |-> TRUE]
    BY <2>1
  <2> QED
    BY <1>x, <2>2 DEF LoopAt, LoopStates
<1>3. CASE ~skips /\ t.to \in Accounts /\ ~Covered(x.ledger, t)
  <2>1. Process(x, t) = q
    BY <1>3, <1>q DEF Process
  <2> QED
    BY <1>x, <2>1 DEF LoopAt, LoopStates
<1>4. CASE ~skips /\ t.to \in Accounts /\ Covered(x.ledger, t)
  <2> DEFINE l2 == Transfer(x.ledger, t)
             list == Append(x.listed, t)
  <2>1. Process(x, t) = [q EXCEPT !.ledger = Transfer(@, t), !.listed = Append(@, t)]
    BY <1>4, <1>q DEF Process
  <2>2. Process(x, t) = [ledger |-> l2, listed |-> list,
                         removed |-> x.removed \cup {t}, failed |-> x.failed]
    BY <2>1
  <2>3. t \in Payable
    BY <1>4 DEF Payable
  <2>4. /\ l2 \in LedgerStates /\ l2.executed = x.ledger.executed \cup {t}
        /\ Execute(x.ledger, t) = l2
    BY <1>x, <1>4, <2>3, TransferType DEF Execute
  <2>5. list \in Seq(Payable) /\ ToSet(list) = ToSet(x.listed) \cup {t}
    BY <1>x, <2>3, AppendProperties, ToSetAppend
  <2>6. ExecuteAll(l, list) = l2
    BY <1>x, <2>3, <2>4, ExecuteAllAppend DEF LoopAt
  <2>7. l.executed \subseteq x.ledger.executed
    BY <1>x, ExecuteAllType DEF LoopAt
  <2>8. Pays(l, list)
    BY <1>4, <2>4, <2>5, <2>6, <2>7 DEF Pays, LoopAt
  <2> HIDE DEF l2, list
  <2>9. Process(x, t) \in LoopStates
    BY <1>x, <2>2, <2>4, <2>5 DEF LoopStates
  <2> QED
    BY <2>2, <2>6, <2>8, <2>9 DEF LoopAt
<1> QED
  BY <1>1, <1>2, <1>3, <1>4

Loop(l, order) == FoldLeft(Process, LoopStart(l), order)

\* Wherever the loop ends, it paid for what it lists.
LEMMA LoopEnds ==
    ASSUME NEW l \in LedgerStates, NEW order \in Seq(Txs)
    PROVE  LoopAt(Loop(l, order), l)
<1> DEFINE P == 1 .. Len(order)
           States == {x \in LoopStates : LoopAt(x, l)}
           op == [p \in States \X Txs |-> Process(p[1], p[2])]
           Eq(g) == g = [s \in SUBSET P |->
                          IF s = {} THEN LoopStart(l)
                          ELSE Process(g[s \ {Largest(s)}], order[Largest(s)])]
<1>0. Len(order) \in Nat /\ DOMAIN order = P /\ \A i \in P : order[i] \in Txs
  OBVIOUS
<1>1. Loop(l, order) = (CHOOSE g : Eq(g))[P]
  BY <1>0 DEF Loop, FoldLeft, MapThenFoldSet, Max, Largest
<1>s. LoopStart(l) \in States /\ \A x \in States, t \in Txs : Process(x, t) \in States
  BY LoopStartsAt, ProcessAt DEF LoopAt
<1>2. \E g : Eq(g)
  <2>1. op \in [States \X Txs -> States]
    BY <1>s
  <2>2. \A x \in States, t \in Txs : op[<<x, t>>] = Process(x, t)
    OBVIOUS
  <2> HIDE DEF op, States
  <2>p. PICK g : Folds(g, op, LoopStart(l), order, States)
    BY <1>s, <2>1, FoldsExist
  <2>3. /\ g \in [SUBSET P -> States]
        /\ \A s \in SUBSET P :
              g[s] = IF s = {} THEN LoopStart(l)
                     ELSE op[<<g[s \ {Largest(s)}], order[Largest(s)]>>]
    BY <2>p DEF Folds
  <2>4. ASSUME NEW s \in SUBSET P
        PROVE  g[s] = IF s = {} THEN LoopStart(l)
                      ELSE Process(g[s \ {Largest(s)}], order[Largest(s)])
    <3>1. CASE s = {}
      BY <2>3, <3>1
    <3>2. CASE s # {}
      <4>1. Largest(s) \in P /\ s \ {Largest(s)} \in SUBSET P
        BY <1>0, <3>2, LargestSmaller
      <4> QED
        BY <1>0, <2>2, <2>3, <3>2, <4>1
    <3> QED
      BY <3>1, <3>2
  <2>5. Eq(g)
    <3> HIDE DEF P
    <3> QED
      BY <2>3, <2>4
  <2> HIDE DEF Eq
  <2> QED
    BY <2>5
<1>3. PICK g : Eq(g) /\ Loop(l, order) = g[P]
  <2> HIDE DEF Eq
  <2> QED
    BY <1>1, <1>2
<1> DEFINE Good == {i \in Nat : i <= Len(order) => g[1 .. i] \in States}
<1>4. 0 \in Good
  <2>1. g[{}] = LoopStart(l) /\ 1 .. 0 = {}
    BY <1>3
  <2> QED
    BY <1>s, <2>1
<1>5. ASSUME NEW i \in Nat, i \in Good
      PROVE  i + 1 \in Good
  <2> SUFFICES ASSUME i + 1 <= Len(order) PROVE g[1 .. i + 1] \in States
    OBVIOUS
  <2>1. i + 1 \in P /\ (i + 1) - 1 = i /\ g[1 .. i] \in States
    BY <1>0, <1>5
  <2>2. /\ 1 .. i + 1 \in SUBSET P /\ 1 .. i + 1 # {}
        /\ Largest(1 .. i + 1) = i + 1 /\ (1 .. i + 1) \ {Largest(1 .. i + 1)} = 1 .. i
    BY <1>0, <2>1, FirstPlaces
  <2>3. g[1 .. i + 1] = Process(g[1 .. i], order[i + 1])
    BY <1>3, <2>2
  <2> HIDE DEF States
  <2> QED
    BY <1>0, <1>s, <2>1, <2>3
<1>6. Nat \subseteq Good
  <2> HIDE DEF Good
  <2> QED
    BY <1>4, <1>5, SetInduction
<1>7. g[P] \in States
  BY <1>0, <1>6
<1> QED
  BY <1>3, <1>7

\* An order of the mempool, or of a part of it, is a sequence.
LEMMA OrdersAreSequences ==
    ASSUME NEW S, S \subseteq Txs
    PROVE  /\ SetToSeqs(S) \subseteq Seq(Txs)
           /\ SetToAllKPermutations(S) \subseteq Seq(Txs)
<1>1. ASSUME NEW s \in SUBSET Txs
      PROVE  SetToSeqs(s) \subseteq Seq(Txs)
  <2>1. Cardinality(s) \in Nat
    BY ReplicatedAssumption, FS_Subset, FS_CardinalityType
  <2>2. ASSUME NEW f \in [1 .. Cardinality(s) -> s]
        PROVE  f \in Seq(Txs)
    BY <2>1
  <2> QED
    BY <2>2 DEF SetToSeqs
<1> QED
  BY <1>1 DEF SetToAllKPermutations

-----------------------------------------------------------------------------
(* What a step does to the ledgers and the chains together: one of four     *)
(* effects, whichever the action.                                           *)

LEMMA BodiesPayable ==
    \A b \in Block : b.body \in Seq(Payable) /\ ToSet(b.body) \subseteq Payable
<1> SUFFICES ASSUME NEW list \in Lists
             PROVE  list \in Seq(Payable) /\ ToSet(list) \subseteq Payable
  BY ReplicatedAssumption DEF Block
<1>1. PICK s \in SUBSET Payable : list \in SetToSeqs(s)
  BY DEF Lists, SetToAllKPermutations, Payable
<1>2. Cardinality(s) \in Nat
  BY ReplicatedAssumption, FS_Subset, FS_CardinalityType DEF Payable
<1>3. list \in [1 .. Cardinality(s) -> s]
  BY <1>1 DEF SetToSeqs
<1>4. list \in Seq(Payable)
  BY <1>2, <1>3
<1> QED
  BY <1>3, <1>4 DEF ToSet

\* Node p keeps what this module adds to it, and its chain.
Kept(p) == /\ ledger'[p] = ledger[p]
           /\ ahead'[p] = ahead[p]
           /\ strayed'[p] <=> strayed[p]

ChainKept(p) ==
    /\ Index(current'[p]) = Index(current[p])
    /\ \A h \in Heights : h # 0 => trie'[p][h] = trie[p][h]

OnlyAt(n) == \A p \in Nodes : p # n => Kept(p) /\ ChainKept(p)

\* No ledger changes, and no chain.
NoWork == /\ \A p \in Nodes : Kept(p) /\ ChainKept(p)
          /\ UNCHANGED proposed

\* Node n executes the first k transactions of the block b that comes next,
\* all of them, and no more.
Begun(n, b, k) ==
    /\ OnlyAt(n) /\ ChainKept(n)
    /\ UNCHANGED proposed
    /\ b \in proposed
    /\ b.index = Index(current[n]) + 1
    /\ ahead[n] \in {b, NoBlock} /\ ahead'[n] = b
    /\ strayed'[n] <=> strayed[n]
    /\ ledger'[n] = ExecuteAll(ledger[n], First(b.body, k))
    /\ ToSet(First(b.body, k)) \subseteq ledger'[n].executed

\* Node n executes and saves the block b, which somebody signed before or n
\* signs now.
Whole(n, b) ==
    /\ OnlyAt(n)
    /\ b.index = Index(current[n]) + 1
    /\ Index(current'[n]) = b.index
    /\ trie'[n] = [trie[n] EXCEPT ![b.index] = b]
    /\ ahead[n] \in {b, NoBlock} /\ ahead'[n] = NoBlock
    /\ strayed'[n] <=> strayed[n]
    /\ ledger'[n] = ExecuteAll(ledger[n], b.body)
    /\ \/ b \in proposed /\ UNCHANGED proposed
       \/ /\ b.proposer = n
          /\ proposed' = proposed \cup {b}
          /\ ahead[n] = NoBlock
          /\ Pays(ledger[n], b.body)

\* Node n goes astray.
Loses(n) == OnlyAt(n) /\ strayed'[n] /\ proposed \subseteq proposed'

LedgersEffect ==
    \/ NoWork
    \/ \E n \in Nodes : Loses(n)
    \/ \E n \in Nodes, b \in Block :
          Whole(n, b) \/ \E k \in 0 .. Len(b.body) : Begun(n, b, k)

\* Strays takes a condition.
LEMMA StraysType ==
    ASSUME strayed \in [Nodes -> BOOLEAN], NEW n \in Nodes, NEW c \in BOOLEAN,
           Strays(n, c)
    PROVE  /\ strayed' \in [Nodes -> BOOLEAN]
           /\ strayed'[n] <=> strayed[n] \/ c
           /\ \A p \in Nodes : p # n => (strayed'[p] <=> strayed[p])
  BY DEF Strays

\* What a node that works is left with.
LEMMA Works ==
    ASSUME LedgersTypeOK, NEW n \in Nodes,
           NEW l \in LedgerStates, NEW removed, Becomes(n, l, removed),
           NEW c \in BOOLEAN, Strays(n, c),
           NEW b \in Block \cup {NoBlock}, Ahead(n, b)
    PROVE  /\ ledger' \in [Nodes -> LedgerStates]
           /\ ahead' \in [Nodes -> Block \cup {NoBlock}]
           /\ strayed' \in [Nodes -> BOOLEAN]
           /\ mempool' \in [Nodes -> SUBSET Txs]
           /\ ledger'[n] = l /\ ahead'[n] = b
           /\ strayed'[n] <=> strayed[n] \/ c
           /\ \A p \in Nodes : p # n => Kept(p)
           /\ \A p \in Nodes : mempool'[p] \subseteq mempool[p]
           /\ mempool'[n] = mempool[n] \ removed
<1>t. /\ ledger \in [Nodes -> LedgerStates] /\ mempool \in [Nodes -> SUBSET Txs]
      /\ ahead \in [Nodes -> Block \cup {NoBlock}] /\ strayed \in [Nodes -> BOOLEAN]
  BY DEF LedgersTypeOK
<1>1. ledger' \in [Nodes -> LedgerStates] /\ mempool' \in [Nodes -> SUBSET Txs]
  BY <1>t DEF Becomes
<1>2. ahead' \in [Nodes -> Block \cup {NoBlock}]
  BY <1>t DEF Ahead
<1>3. ledger'[n] = l /\ ahead'[n] = b
  BY <1>t DEF Becomes, Ahead
<1>4. /\ strayed' \in [Nodes -> BOOLEAN]
      /\ strayed'[n] <=> strayed[n] \/ c
      /\ \A p \in Nodes : p # n => (strayed'[p] <=> strayed[p])
  BY <1>t, StraysType
<1>5. \A p \in Nodes : p # n => Kept(p)
  BY <1>t, <1>4 DEF Becomes, Ahead, Kept
<1>6. /\ \A p \in Nodes : mempool'[p] \subseteq mempool[p]
      /\ mempool'[n] = mempool[n] \ removed
  BY <1>t DEF Becomes
<1> QED
  BY <1>1, <1>2, <1>3, <1>4, <1>5, <1>6

\* The types after the step of a node that stays alive, or dies.
LEMMA WorksType ==
    ASSUME LedgersTypeOK, up \in [Nodes -> BOOLEAN], NEW n \in Nodes,
           ledger' \in [Nodes -> LedgerStates],
           ahead' \in [Nodes -> Block \cup {NoBlock}],
           strayed' \in [Nodes -> BOOLEAN],
           mempool' \in [Nodes -> SUBSET Txs],
           \A p \in Nodes : mempool'[p] \subseteq mempool[p],
           submits' = submits,
           \/ up' = up
           \/ up' = [up EXCEPT ![n] = FALSE] /\ mempool'[n] = {}
    PROVE  LedgersTypeOK'
<1>1. \A p \in Nodes : ~up'[p] => mempool'[p] = {}
  BY DEF LedgersTypeOK
<1> QED
  BY <1>1 DEF LedgersTypeOK

LEMMA QuietChains ==
    ASSUME Quiet
    PROVE  (\A p \in Nodes : ChainKept(p)) /\ UNCHANGED proposed
  BY DEF Quiet, ChainKept

LEMMA BeginsChains ==
    ASSUME IInv, NEW n \in Nodes, Begins(n)
    PROVE  (\A p \in Nodes : ChainKept(p)) /\ UNCHANGED proposed
<1>t. /\ current \in [Nodes -> Block \cup {NoBlock}]
      /\ trie \in [Nodes -> [Heights -> Block \cup {NoBlock}]]
      /\ Basic /\ History
  BY DEF IInv, Basic, TypeOK
<1>1. Index(current[n]) = 0 /\ Index(current'[n]) = 0
  BY <1>t, IndexInHeights DEF Begins, History, Fresh
<1>2. \A h \in Heights : h # 0 => trie'[n][h] = trie[n][h]
  BY <1>t DEF Begins
<1>3. ASSUME NEW p \in Nodes, p # n
      PROVE  current'[p] = current[p] /\ trie'[p] = trie[p]
  BY <1>3, <1>t DEF Begins
<1> QED
  BY <1>1, <1>2, <1>3 DEF ChainKept, Begins

LEMMA ClimbsChains ==
    ASSUME IInv, NEW n \in Nodes, NEW b \in Block, Climbs(n, b)
    PROVE  /\ \A p \in Nodes : p # n => ChainKept(p)
           /\ current'[n] = b
           /\ b.index = Index(current[n]) + 1 /\ Index(current'[n]) = b.index
           /\ proposed \subseteq proposed'
           /\ SaveBlockToTrie(n, b) => trie'[n] = [trie[n] EXCEPT ![b.index] = b]
<1>t. /\ current \in [Nodes -> Block \cup {NoBlock}]
      /\ trie \in [Nodes -> [Heights -> Block \cup {NoBlock}]]
      /\ Basic /\ History
  BY DEF IInv, Basic, TypeOK
<1>1. /\ b.index = Index(current[n]) + 1
      /\ current' = [current EXCEPT ![n] = b]
      /\ \A p \in Nodes : p # n => trie'[p] = trie[p]
  BY <1>t, ClimbsWhere
<1>2. current'[n] = b /\ Index(current'[n]) = b.index
  BY <1>t, <1>1, IndexInHeights
<1>3. \A p \in Nodes : p # n => ChainKept(p)
  BY <1>t, <1>1 DEF ChainKept
<1>4. SaveBlockToTrie(n, b) => trie'[n] = [trie[n] EXCEPT ![b.index] = b]
  BY <1>t DEF SaveBlockToTrie
<1> QED
  BY <1>1, <1>2, <1>3, <1>4 DEF Climbs

\* A submission changes a mempool only.
LEMMA SubmitEffect ==
    ASSUME LedgersTypeOK, NEW n \in Nodes, NEW t \in Txs, Submit(n, t)
    PROVE  LedgersTypeOK' /\ NoWork
<1>1. mempool' \in [Nodes -> SUBSET Txs] /\ submits' \in 0 .. MaxSubmits
  BY ReplicatedAssumption DEF LedgersTypeOK, Submit
<1>2. \A p \in Nodes : ~up'[p] => mempool'[p] = {}
  BY DEF LedgersTypeOK, Submit, vars
<1>3. LedgersTypeOK'
  BY <1>1, <1>2 DEF LedgersTypeOK, Submit
<1>4. NoWork
  BY DEF NoWork, Kept, ChainKept, Submit, vars
<1> QED
  BY <1>3, <1>4

\* A node that strays, and lives or dies.
LEMMA AstrayEffect ==
    ASSUME IInv, LedgersTypeOK, NEW n \in Nodes,
           NEW l \in LedgerStates, NEW removed, Becomes(n, l, removed), Strays(n, TRUE),
           NEW b \in Block \cup {NoBlock}, Ahead(n, b), submits' = submits,
           \A p \in Nodes : p # n => ChainKept(p), proposed \subseteq proposed',
           \/ up' = up
           \/ up' = [up EXCEPT ![n] = FALSE] /\ removed = mempool[n]
    PROVE  LedgersTypeOK' /\ LedgersEffect
<1> DEFINE c == TRUE
<1>1. c \in BOOLEAN /\ Strays(n, c) /\ up \in [Nodes -> BOOLEAN]
  BY DEF IInv, Basic, TypeOK
<1> HIDE DEF c
<1>2. /\ ledger' \in [Nodes -> LedgerStates]
      /\ ahead' \in [Nodes -> Block \cup {NoBlock}]
      /\ strayed' \in [Nodes -> BOOLEAN]
      /\ mempool' \in [Nodes -> SUBSET Txs]
      /\ strayed'[n] <=> strayed[n] \/ c
      /\ \A p \in Nodes : p # n => Kept(p)
      /\ \A p \in Nodes : mempool'[p] \subseteq mempool[p]
      /\ mempool'[n] = mempool[n] \ removed
  BY <1>1, Works
<1>3. LedgersTypeOK'
  <2>1. removed = mempool[n] => mempool'[n] = {}
    BY <1>2
  <2> QED
    BY <1>1, <1>2, <2>1, WorksType
<1>4. Loses(n)
  BY <1>2 DEF c, Loses, OnlyAt
<1> QED
  BY <1>3, <1>4 DEF LedgersEffect

\* What the loop of a proposal can end with is the end of a loop over a
\* sequence.
LEMMA LoopsEnd ==
    ASSUME LedgersTypeOK, NEW n \in Nodes, NEW S, S \subseteq Txs,
           NEW loop \in LoopsOver(n, SetToSeqs(S)) \cup LoopsOver(n, SetToAllKPermutations(S))
    PROVE  LoopAt(loop, ledger[n])
<1>1. ledger[n] \in LedgerStates
  BY DEF LedgersTypeOK
<1>2. PICK order \in Seq(Txs) : loop = Loop(ledger[n], order)
  BY OrdersAreSequences DEF LoopsOver, Loop, LoopStart
<1> QED
  BY <1>1, <1>2, LoopEnds

\* A proposal is executed and saved, or strays from the block ahead.
LEMMA ProposeEffect ==
    ASSUME IInv, LedgersTypeOK, NEW n \in Nodes, ProposeList(n)
    PROVE  LedgersTypeOK' /\ LedgersEffect
<1>t. mempool[n] \subseteq Txs /\ up \in [Nodes -> BOOLEAN]
  BY DEF LedgersTypeOK, IInv, Basic, TypeOK
<1>1. PICK b \in Block : Proposes(n, b) /\ SaveBlockToTrie(n, b) /\ UNCHANGED up
  BY DEF ProposeList, ProposeOrphan, Propose
<1>2. PICK loop \in Loops(n) : /\ ~loop.failed
                               /\ current'[n].body = loop.listed
                               /\ Becomes(n, loop.ledger, loop.removed)
  BY DEF ProposeList
<1>3. LoopAt(loop, ledger[n])
  BY <1>t, LoopsEnd DEF Loops
<1>4. loop.ledger \in LedgerStates
  BY <1>3 DEF LoopAt, LoopStates
<1>5. Climbs(n, b)
  BY <1>1, ProposesClimbs
<1>6. /\ \A p \in Nodes : p # n => ChainKept(p)
      /\ current'[n] = b
      /\ b.index = Index(current[n]) + 1 /\ Index(current'[n]) = b.index
      /\ proposed \subseteq proposed'
      /\ trie'[n] = [trie[n] EXCEPT ![b.index] = b]
  BY <1>1, <1>5, ClimbsChains
<1>7. loop.ledger = ExecuteAll(ledger[n], b.body) /\ Pays(ledger[n], b.body)
  BY <1>2, <1>3, <1>6 DEF LoopAt
<1> DEFINE c == ahead[n] # NoBlock
<1>8. Strays(n, c) /\ c \in BOOLEAN /\ Ahead(n, NoBlock) /\ submits' = submits
  BY DEF ProposeList
<1> HIDE DEF c
<1>9. /\ ledger' \in [Nodes -> LedgerStates]
      /\ ahead' \in [Nodes -> Block \cup {NoBlock}]
      /\ strayed' \in [Nodes -> BOOLEAN]
      /\ mempool' \in [Nodes -> SUBSET Txs]
      /\ ledger'[n] = loop.ledger /\ ahead'[n] = NoBlock
      /\ strayed'[n] <=> strayed[n] \/ c
      /\ \A p \in Nodes : p # n => Kept(p)
      /\ \A p \in Nodes : mempool'[p] \subseteq mempool[p]
  BY <1>2, <1>4, <1>8, Works
<1>10. LedgersTypeOK'
  BY <1>t, <1>1, <1>8, <1>9, WorksType
<1>11. OnlyAt(n)
  BY <1>6, <1>9 DEF OnlyAt
<1>12. CASE c
  BY <1>6, <1>9, <1>10, <1>11, <1>12 DEF LedgersEffect, Loses
<1>13. CASE ~c
  <2>1. ahead[n] = NoBlock /\ (strayed'[n] <=> strayed[n])
    BY <1>9, <1>13 DEF c
  <2>2. b.proposer = n /\ proposed' = proposed \cup {b}
    BY <1>1 DEF Proposes, NewBlock
  <2>3. Whole(n, b)
    BY <1>6, <1>7, <1>9, <1>11, <2>1, <2>2 DEF Whole
  <2> QED
    BY <1>10, <2>3 DEF LedgersEffect
<1> QED
  BY <1>12, <1>13

LEMMA SameAhead ==
    ASSUME LedgersTypeOK, UNCHANGED ahead, NEW n \in Nodes
    PROVE  Ahead(n, ahead[n]) /\ ahead[n] \in Block \cup {NoBlock}
  BY DEF LedgersTypeOK, Ahead

\* A loop that fails strays, unless it has executed nothing.
LEMMA LoopEffect ==
    ASSUME LedgersTypeOK, NEW n \in Nodes,
           \A p \in Nodes : ChainKept(p), UNCHANGED proposed, UNCHANGED ahead,
           NEW loop, LoopAt(loop, ledger[n]), NEW removed, Becomes(n, loop.ledger, removed),
           Strays(n, loop.listed # <<>>)
    PROVE  /\ ledger' \in [Nodes -> LedgerStates]
           /\ ahead' \in [Nodes -> Block \cup {NoBlock}]
           /\ strayed' \in [Nodes -> BOOLEAN]
           /\ mempool' \in [Nodes -> SUBSET Txs]
           /\ \A p \in Nodes : mempool'[p] \subseteq mempool[p]
           /\ mempool'[n] = mempool[n] \ removed
           /\ LedgersEffect
<1>1. loop.ledger \in LedgerStates /\ ledger[n] \in LedgerStates
  BY DEF LoopAt, LoopStates, LedgersTypeOK
<1> DEFINE c == loop.listed # <<>>
<1>2. c \in BOOLEAN /\ Strays(n, c)
  OBVIOUS
<1> HIDE DEF c
<1>3. /\ ledger' \in [Nodes -> LedgerStates]
      /\ ahead' \in [Nodes -> Block \cup {NoBlock}]
      /\ strayed' \in [Nodes -> BOOLEAN]
      /\ mempool' \in [Nodes -> SUBSET Txs]
      /\ ledger'[n] = loop.ledger /\ ahead'[n] = ahead[n]
      /\ strayed'[n] <=> strayed[n] \/ c
      /\ \A p \in Nodes : p # n => Kept(p)
      /\ \A p \in Nodes : mempool'[p] \subseteq mempool[p]
      /\ mempool'[n] = mempool[n] \ removed
  BY <1>1, <1>2, SameAhead, Works
<1>4. CASE c
  <2>1. Loses(n)
    BY <1>3, <1>4 DEF Loses, OnlyAt
  <2> QED
    BY <1>3, <2>1 DEF LedgersEffect
<1>5. CASE ~c
  <2>1. ledger'[n] = ledger[n]
    BY <1>1, <1>3, <1>5, ExecuteAllEmpty DEF c, LoopAt
  <2>2. Kept(n)
    BY <1>3, <1>5, <2>1 DEF Kept
  <2>3. NoWork
    BY <1>3, <2>2 DEF NoWork
  <2> QED
    BY <1>3, <2>3 DEF LedgersEffect
<1> QED
  BY <1>4, <1>5

LEMMA ProposalFailsEffect ==
    ASSUME IInv, LedgersTypeOK, NEW n \in Nodes, ProposalFails(n)
    PROVE  LedgersTypeOK' /\ LedgersEffect
<1>1. PICK loop \in Loops(n) : /\ Becomes(n, loop.ledger, loop.removed)
                               /\ Strays(n, loop.listed # <<>>)
  BY DEF ProposalFails
<1>2. LoopAt(loop, ledger[n])
  <2>1. mempool[n] \subseteq Txs
    BY DEF LedgersTypeOK
  <2> QED
    BY <2>1, LoopsEnd DEF Loops
<1>3. (\A p \in Nodes : ChainKept(p)) /\ UNCHANGED <<proposed, ahead, up, submits>>
  BY DEF ProposalFails, vars, ChainKept
<1>4. /\ ledger' \in [Nodes -> LedgerStates]
      /\ ahead' \in [Nodes -> Block \cup {NoBlock}]
      /\ strayed' \in [Nodes -> BOOLEAN]
      /\ mempool' \in [Nodes -> SUBSET Txs]
      /\ \A p \in Nodes : mempool'[p] \subseteq mempool[p]
      /\ LedgersEffect
  BY <1>1, <1>2, <1>3, LoopEffect
<1>5. up \in [Nodes -> BOOLEAN]
  BY DEF IInv, Basic, TypeOK
<1> QED
  BY <1>3, <1>4, <1>5, WorksType

LEMMA CrashEffect ==
    ASSUME NEW n \in Nodes, Crash(n)
    PROVE  /\ \A p \in Nodes : ChainKept(p)
           /\ UNCHANGED proposed
           /\ up' = [up EXCEPT ![n] = FALSE]
  BY DEF Crash, Die, ChainKept

LEMMA DieIdleEffect ==
    ASSUME IInv, LedgersTypeOK, NEW n \in Nodes, DieIdle(n)
    PROVE  LedgersTypeOK' /\ LedgersEffect
<1>t. /\ ledger \in [Nodes -> LedgerStates] /\ mempool \in [Nodes -> SUBSET Txs]
      /\ up \in [Nodes -> BOOLEAN]
  BY DEF LedgersTypeOK, IInv, Basic, TypeOK
<1>1. /\ \A p \in Nodes : ChainKept(p)
      /\ UNCHANGED <<proposed, ahead, strayed, submits>>
      /\ up' = [up EXCEPT ![n] = FALSE]
  BY CrashEffect DEF DieIdle
<1>2. ledger' = ledger /\ mempool' = [mempool EXCEPT ![n] = {}]
  BY <1>t DEF DieIdle, Becomes
<1>3. NoWork
  BY <1>1, <1>2 DEF NoWork, Kept
<1>4. LedgersTypeOK'
  <2>1. \A p \in Nodes : ~up'[p] => mempool'[p] = {}
    BY <1>t, <1>1, <1>2 DEF LedgersTypeOK
  <2> QED
    BY <1>1, <1>2, <2>1 DEF LedgersTypeOK
<1> QED
  BY <1>3, <1>4 DEF LedgersEffect

LEMMA DieProposingEffect ==
    ASSUME IInv, LedgersTypeOK, NEW n \in Nodes, DieProposing(n)
    PROVE  LedgersTypeOK' /\ LedgersEffect
<1> DEFINE Between(loop) == /\ Becomes(n, loop.ledger, mempool[n])
                            /\ Strays(n, loop.listed # <<>>)
           Within(loop) == /\ \E t \in mempool[n] : \E l \in Interrupted(loop.ledger, t) :
                                 /\ t.to \in Accounts
                                 /\ Covered(loop.ledger, t)
                                 /\ Becomes(n, l, mempool[n])
                           /\ Strays(n, TRUE)
<1>1. PICK loop \in LoopsOver(n, SetToAllKPermutations(mempool[n])) :
           Between(loop) \/ Within(loop)
  BY DEF DieProposing
<1>p. mempool[n] \subseteq Txs
  BY DEF LedgersTypeOK
<1>2. LoopAt(loop, ledger[n])
  BY <1>p, LoopsEnd
<1>3. /\ \A p \in Nodes : ChainKept(p)
      /\ UNCHANGED <<proposed, ahead, submits>>
      /\ up' = [up EXCEPT ![n] = FALSE]
  BY CrashEffect DEF DieProposing
<1>4. CASE Between(loop)
  <2>1. /\ ledger' \in [Nodes -> LedgerStates]
        /\ ahead' \in [Nodes -> Block \cup {NoBlock}]
        /\ strayed' \in [Nodes -> BOOLEAN]
        /\ mempool' \in [Nodes -> SUBSET Txs]
        /\ \A p \in Nodes : mempool'[p] \subseteq mempool[p]
        /\ mempool'[n] = mempool[n] \ mempool[n]
        /\ LedgersEffect
    BY <1>2, <1>3, <1>4, LoopEffect
  <2>2. up \in [Nodes -> BOOLEAN] /\ mempool'[n] = {}
    BY <2>1 DEF IInv, Basic, TypeOK
  <2> QED
    BY <1>3, <2>1, <2>2, WorksType
<1>5. CASE Within(loop)
  <2>1. PICK t \in mempool[n] : \E l \in Interrupted(loop.ledger, t) :
                /\ t.to \in Accounts
                /\ Covered(loop.ledger, t)
                /\ Becomes(n, l, mempool[n])
    BY <1>5
  <2>2. t \in Payable /\ Covered(loop.ledger, t) /\ loop.ledger \in LedgerStates
    BY <1>2, <1>p, <2>1 DEF Payable, LoopAt, LoopStates
  <2>3. PICK l \in LedgerStates : Becomes(n, l, mempool[n])
    BY <2>1, <2>2, InterruptedType
  <2> QED
    BY <1>3, <1>5, <2>3, SameAhead, AstrayEffect
<1> QED
  BY <1>1, <1>4, <1>5

-----------------------------------------------------------------------------
(* The rounds over a list, in which a fetch may return something else.      *)

RoundSet == [id : Txs, tx : Payable]

RoundStates == [ledger : LedgerStates, removed : SUBSET Txs]

LEMMA RoundType ==
    ASSUME NEW r \in RoundStates, NEW x \in RoundSet
    PROVE  Round(r, x) \in RoundStates
<1>1. CASE x.id \in r.ledger.executed
  BY <1>1 DEF Round
<1>2. CASE x.id \notin r.ledger.executed /\ Covered(r.ledger, x.tx)
  <2>1. Transfer(r.ledger, x.tx) \in LedgerStates
    BY <1>2, TransferType DEF RoundStates, RoundSet
  <2>2. Round(r, x) = [r EXCEPT !.ledger = Transfer(@, x.tx)]
    BY <1>2 DEF Round
  <2> QED
    BY <2>1, <2>2 DEF RoundStates
<1>3. CASE x.id \notin r.ledger.executed /\ ~Covered(r.ledger, x.tx)
  BY <1>3 DEF Round, RoundStates, RoundSet
<1> QED
  BY <1>1, <1>2, <1>3

LEMMA RunRoundsType ==
    ASSUME NEW l \in LedgerStates, NEW rounds \in Seq(RoundSet)
    PROVE  RunRounds(l, rounds).ledger \in LedgerStates
<1> DEFINE P == 1 .. Len(rounds)
           start == [ledger |-> l, removed |-> {}]
           op == [p \in RoundStates \X RoundSet |-> Round(p[1], p[2])]
           Eq(g) == g = [s \in SUBSET P |->
                          IF s = {} THEN start
                          ELSE Round(g[s \ {Largest(s)}], rounds[Largest(s)])]
<1>0. Len(rounds) \in Nat /\ DOMAIN rounds = P /\ \A i \in P : rounds[i] \in RoundSet
  OBVIOUS
<1>1. RunRounds(l, rounds) = (CHOOSE g : Eq(g))[P]
  BY <1>0 DEF RunRounds, FoldLeft, MapThenFoldSet, Max, Largest
<1>s. start \in RoundStates
  BY DEF RoundStates
<1> HIDE DEF start
<1>2. \E g : Eq(g) /\ g \in [SUBSET P -> RoundStates]
  <2>1. op \in [RoundStates \X RoundSet -> RoundStates]
    BY RoundType
  <2>2. \A r \in RoundStates, x \in RoundSet : op[<<r, x>>] = Round(r, x)
    OBVIOUS
  <2> HIDE DEF op
  <2>p. PICK g : Folds(g, op, start, rounds, RoundStates)
    BY <1>s, <2>1, FoldsExist
  <2>3. /\ g \in [SUBSET P -> RoundStates]
        /\ \A s \in SUBSET P :
              g[s] = IF s = {} THEN start
                     ELSE op[<<g[s \ {Largest(s)}], rounds[Largest(s)]>>]
    BY <2>p DEF Folds
  <2>4. ASSUME NEW s \in SUBSET P
        PROVE  g[s] = IF s = {} THEN start
                      ELSE Round(g[s \ {Largest(s)}], rounds[Largest(s)])
    <3>1. CASE s = {}
      BY <2>3, <3>1
    <3>2. CASE s # {}
      <4>1. Largest(s) \in P /\ s \ {Largest(s)} \in SUBSET P
        BY <1>0, <3>2, LargestSmaller
      <4> QED
        BY <1>0, <2>2, <2>3, <3>2, <4>1
    <3> QED
      BY <3>1, <3>2
  <2>5. Eq(g)
    <3> HIDE DEF P
    <3> QED
      BY <2>3, <2>4
  <2> HIDE DEF Eq
  <2> QED
    BY <2>3, <2>5
<1>3. PICK g : Eq(g) /\ RunRounds(l, rounds) = g[P]
  <2> HIDE DEF Eq
  <2> QED
    BY <1>1, <1>2
<1> DEFINE Good == {i \in Nat : i <= Len(rounds) => g[1 .. i] \in RoundStates}
<1>4. 0 \in Good
  <2>1. g[{}] = start /\ 1 .. 0 = {}
    BY <1>3
  <2> QED
    BY <1>s, <2>1
<1>5. ASSUME NEW i \in Nat, i \in Good
      PROVE  i + 1 \in Good
  <2> SUFFICES ASSUME i + 1 <= Len(rounds) PROVE g[1 .. i + 1] \in RoundStates
    OBVIOUS
  <2>1. i + 1 \in P /\ (i + 1) - 1 = i /\ g[1 .. i] \in RoundStates
    BY <1>0, <1>5
  <2>2. /\ 1 .. i + 1 \in SUBSET P /\ 1 .. i + 1 # {}
        /\ Largest(1 .. i + 1) = i + 1 /\ (1 .. i + 1) \ {Largest(1 .. i + 1)} = 1 .. i
    BY <1>0, <2>1, FirstPlaces
  <2>3. g[1 .. i + 1] = Round(g[1 .. i], rounds[i + 1])
    BY <1>3, <2>2
  <2> QED
    BY <1>0, <2>1, <2>3, RoundType
<1>6. Nat \subseteq Good
  <2> HIDE DEF Good
  <2> QED
    BY <1>4, <1>5, SetInduction
<1>7. g[P] \in RoundStates
  BY <1>0, <1>6
<1> QED
  BY <1>3, <1>7 DEF RoundStates

\* What is fetched was listed in a block.
LEMMA RoundsAre ==
    ASSUME IInv, NEW n \in Nodes, NEW list \in Seq(Payable)
    PROVE  Rounds(n, list) \subseteq Seq(RoundSet)
<1> SUFFICES ASSUME NEW rounds \in Rounds(n, list) PROVE rounds \in Seq(RoundSet)
  OBVIOUS
<1>1. DOMAIN list = 1 .. Len(list) /\ Len(list) \in Nat /\ ToSet(list) \subseteq Payable
  BY DEF ToSet
<1>2. LateAnswers \subseteq Payable
  <2>1. proposed \subseteq Block
    BY DEF IInv, Basic, TypeOK
  <2> QED
    BY <2>1, BodiesPayable DEF LateAnswers
<1>3. rounds \in [1 .. Len(list) -> [id : ToSet(list), tx : ToSet(list) \cup LateAnswers]]
  BY <1>1 DEF Rounds
<1>4. [id : ToSet(list), tx : ToSet(list) \cup LateAnswers] \subseteq RoundSet
  BY <1>1, <1>2 DEF RoundSet, Payable
<1>5. rounds \in [1 .. Len(list) -> RoundSet]
  BY <1>3, <1>4
<1> QED
  BY <1>1, <1>5

LEMMA RoundsLedger ==
    ASSUME IInv, LedgersTypeOK, NEW n \in Nodes, NEW list \in Seq(Payable),
           NEW rounds \in Rounds(n, list)
    PROVE  RunRounds(ledger[n], rounds).ledger \in LedgerStates
  BY RoundsAre, RunRoundsType DEF LedgersTypeOK

\* A death inside the save strays.
LEMMA DieSavingEffect ==
    ASSUME IInv, LedgersTypeOK, NEW n \in Nodes, DieSaving(n)
    PROVE  LedgersTypeOK' /\ LedgersEffect
<1>t. ledger[n] \in LedgerStates /\ mempool[n] \subseteq Txs /\ up \in [Nodes -> BOOLEAN]
  BY DEF LedgersTypeOK, IInv, Basic, TypeOK
<1>1. PICK b \in Block : Climbs(n, b)
  <2>1. CASE ProposeCut(n)
    BY <2>1, ProposesClimbs DEF ProposeCut
  <2>2. ASSUME NEW p \in Nodes, HandleNewBlockCut(n, p)
        PROVE  \E b \in Block : Climbs(n, b)
    <3>1. PICK b \in Block : Reads(n, p, BlockMsg(b)) /\ Accepts(n, b) /\ SaveBlockToTrieCut(n, b)
      BY <2>2 DEF HandleNewBlockCut
    <3>2. b \in Known
      BY <3>1, ReadsKnown DEF IInv
    <3>3. up[n]
      BY <3>1, ReadsConnected, ConnectedUp DEF IInv
    <3>4. Climbs(n, b)
      BY <2>2, <3>1, <3>2, <3>3 DEF Climbs, Accepts, HandleNewBlockCut
    <3> QED
      BY <3>4
  <2> QED
    BY <2>1, <2>2 DEF DieSaving
<1>2. /\ \A p \in Nodes : p # n => ChainKept(p)
      /\ current'[n] = b
      /\ proposed \subseteq proposed'
  BY <1>1, ClimbsChains
<1>3. up' = [up EXCEPT ![n] = FALSE]
  BY DEF DieSaving, ProposeCut, HandleNewBlockCut, Die
<1>4. PICK l \in LedgerStates : Becomes(n, l, mempool[n])
  <2>1. CASE \E loop \in Loops(n) : Becomes(n, loop.ledger, mempool[n])
    <3>1. PICK loop \in Loops(n) : Becomes(n, loop.ledger, mempool[n])
      BY <2>1
    <3>2. LoopAt(loop, ledger[n])
      BY <1>t, LoopsEnd DEF Loops
    <3> QED
      BY <3>1, <3>2 DEF LoopAt, LoopStates
  <2>2. CASE \E rounds \in Rounds(n, current'[n].body) :
                Becomes(n, RunRounds(ledger[n], rounds).ledger, mempool[n])
    <3>1. PICK rounds \in Rounds(n, b.body) :
                Becomes(n, RunRounds(ledger[n], rounds).ledger, mempool[n])
      BY <1>2, <2>2
    <3>2. RunRounds(ledger[n], rounds).ledger \in LedgerStates
      BY BodiesPayable, RoundsLedger
    <3> QED
      BY <3>1, <3>2
  <2> QED
    BY <2>1, <2>2 DEF DieSaving
<1>5. Strays(n, TRUE) /\ UNCHANGED <<ahead, submits>>
  BY DEF DieSaving
<1> QED
  BY <1>2, <1>3, <1>4, <1>5, SameAhead, AstrayEffect

LEMMA VerifierIsConfigured ==
    \A h \in Heights : VerifierIndex(h) \in ConfigNodes
  BY BlockSyncAssumption DEF Heights, VerifierIndex, ConfigNodes

\* The block that n reads was signed, unless it is a genesis block.
LEMMA BlockRead ==
    ASSUME IInv, NEW n \in Nodes, NEW p \in Nodes, NEW b \in Block,
           Reads(n, p, BlockMsg(b))
    PROVE  /\ up[n] /\ b \in Known /\ current[n] \in Block
           /\ \A d : Reads(n, p, BlockMsg(d)) => d = b
           /\ IsNext(n, b) <=> b.index = Index(current[n]) + 1
           /\ IsNext(n, b) => b \in proposed /\ b.index # 0
<1>1. up[n] /\ b \in Known /\ current[n] \in Block
  BY ReadsKnown, ReadsConnected, ConnectedUp DEF IInv
<1>2. ASSUME NEW d, Reads(n, p, BlockMsg(d))
      PROVE  d = b
  <2>1. BlockMsg(d) = BlockMsg(b)
    BY <1>2 DEF Reads
  <2> QED
    BY <2>1 DEF BlockMsg
<1>3. /\ Index(current[n]) = current[n].index /\ current[n].index \in Nat
      /\ b.index \in Nat
  BY <1>1, IndexInHeights
<1>4. IsNext(n, b) => b.index # 0
  BY <1>3 DEF IsNext
<1>5. b \in proposed \/ b.index = 0
  BY <1>1 DEF Known, Genesis
<1> QED
  BY <1>1, <1>2, <1>3, <1>4, <1>5 DEF IsNext

\* A block is executed when it comes; it is saved if it comes next.
LEMMA ReceiveEffect ==
    ASSUME IInv, LedgersTypeOK, NEW n \in Nodes, NEW p \in Nodes, ReceiveBlock(n, p)
    PROVE  LedgersTypeOK' /\ LedgersEffect
<1>t. /\ ledger[n] \in LedgerStates /\ up \in [Nodes -> BOOLEAN]
      /\ ahead[n] \in Block \cup {NoBlock}
  BY DEF LedgersTypeOK, IInv, Basic, TypeOK
<1>h. HandleNewBlock(n, p) /\ submits' = submits /\ up' = up /\ proposed' = proposed
  BY DEF ReceiveBlock, HandleNewBlock
<1> DEFINE l(b) == ExecuteAll(ledger[n], b.body)
           c(b) == IF IsNext(n, b) THEN ahead[n] \notin {b, NoBlock} ELSE l(b) # ledger[n]
           next(b) == IF IsNext(n, b) THEN NoBlock ELSE ahead[n]
<1>1. PICK b \in Block :
         /\ Reads(n, p, BlockMsg(b))
         /\ \/ HasBlock(n, b) /\ UNCHANGED <<ledger, mempool, ahead, strayed>>
            \/ /\ ~HasBlock(n, b)
               /\ Becomes(n, l(b), ToSet(b.body) \ l(b).executed)
               /\ Strays(n, c(b))
               /\ Ahead(n, next(b))
  BY DEF ReceiveBlock
<1>2. /\ up[n] /\ b \in Known
      /\ \A d : Reads(n, p, BlockMsg(d)) => d = b
      /\ IsNext(n, b) <=> b.index = Index(current[n]) + 1
      /\ IsNext(n, b) => b \in proposed /\ b.index # 0
  BY <1>1, BlockRead
<1>3. \/ Accepts(n, b) /\ SaveBlockToTrie(n, b)
      \/ ~Accepts(n, b) /\ UNCHANGED disk
  <2>1. PICK d \in Block :
           /\ Reads(n, p, BlockMsg(d))
           /\ \/ Accepts(n, d) /\ SaveBlockToTrie(n, d)
              \/ ~Accepts(n, d) /\ UNCHANGED disk
    BY <1>h DEF HandleNewBlock
  <2>2. d = b
    BY <1>2, <2>1
  <2> QED
    BY <2>1, <2>2
<1>4. Accepts(n, b) <=> ~HasBlock(n, b) /\ IsNext(n, b)
  <2>1. VerifierIndex(b.index) \in ConfigNodes
    BY VerifierIsConfigured, IndexInHeights
  <2> QED
    BY <2>1 DEF Accepts, HasBlock
<1>5. UNCHANGED disk => \A q \in Nodes : ChainKept(q)
  BY DEF disk, ChainKept
<1>6. CASE HasBlock(n, b)
  <2>1. UNCHANGED <<ledger, mempool, ahead, strayed>> /\ \A q \in Nodes : ChainKept(q)
    BY <1>1, <1>3, <1>4, <1>5, <1>6
  <2>2. NoWork
    BY <1>h, <2>1 DEF NoWork, Kept
  <2>3. LedgersTypeOK'
    BY <1>h, <2>1 DEF LedgersTypeOK
  <2> QED
    BY <2>2, <2>3 DEF LedgersEffect
<1>7. CASE ~HasBlock(n, b)
  <2>1. l(b) \in LedgerStates /\ c(b) \in BOOLEAN /\ next(b) \in Block \cup {NoBlock}
    BY <1>t, BodiesPayable, ExecuteAllType
  <2>2. /\ Becomes(n, l(b), ToSet(b.body) \ l(b).executed)
        /\ Strays(n, c(b)) /\ Ahead(n, next(b))
    BY <1>1, <1>7
  <2> HIDE DEF l, c, next
  <2>3. /\ ledger' \in [Nodes -> LedgerStates]
        /\ ahead' \in [Nodes -> Block \cup {NoBlock}]
        /\ strayed' \in [Nodes -> BOOLEAN]
        /\ mempool' \in [Nodes -> SUBSET Txs]
        /\ ledger'[n] = l(b) /\ ahead'[n] = next(b)
        /\ strayed'[n] <=> strayed[n] \/ c(b)
        /\ \A q \in Nodes : q # n => Kept(q)
        /\ \A q \in Nodes : mempool'[q] \subseteq mempool[q]
    BY <2>1, <2>2, Works
  <2>4. LedgersTypeOK'
    BY <1>t, <1>h, <2>3, WorksType
  <2>5. \A q \in Nodes : q # n => ChainKept(q)
    <3>1. CASE Accepts(n, b)
      BY <1>2, <1>3, <1>4, <1>h, <3>1, ClimbsChains DEF Climbs
    <3>2. CASE ~Accepts(n, b)
      BY <1>3, <1>5, <3>2
    <3> QED
      BY <3>1, <3>2
  <2>6. OnlyAt(n)
    BY <2>3, <2>5 DEF OnlyAt
  <2>7. CASE c(b)
    <3>1. Loses(n)
      BY <1>h, <2>3, <2>6, <2>7 DEF Loses
    <3> QED
      BY <2>4, <3>1 DEF LedgersEffect
  <2>8. CASE ~c(b) /\ IsNext(n, b)
    <3>1. SaveBlockToTrie(n, b) /\ Climbs(n, b)
      BY <1>2, <1>3, <1>4, <1>7, <1>h, <2>8 DEF Climbs
    <3>2. /\ b.index = Index(current[n]) + 1 /\ Index(current'[n]) = b.index
          /\ trie'[n] = [trie[n] EXCEPT ![b.index] = b]
      BY <3>1, ClimbsChains
    <3>3. ahead[n] \in {b, NoBlock} /\ next(b) = NoBlock
      BY <2>8 DEF c, next
    <3>4. Whole(n, b)
      BY <1>2, <1>h, <2>3, <2>6, <2>8, <3>2, <3>3 DEF Whole, l
    <3> QED
      BY <2>4, <3>4 DEF LedgersEffect
  <2>9. CASE ~c(b) /\ ~IsNext(n, b)
    <3>1. l(b) = ledger[n] /\ next(b) = ahead[n]
      BY <2>9 DEF c, next
    <3>2. \A q \in Nodes : ChainKept(q)
      BY <1>3, <1>4, <1>5, <2>9
    <3>3. Kept(n)
      BY <2>3, <2>9, <3>1 DEF Kept
    <3>4. NoWork
      BY <1>h, <2>3, <3>2, <3>3 DEF NoWork
    <3> QED
      BY <2>4, <3>4 DEF LedgersEffect
  <2> QED
    BY <2>7, <2>8, <2>9
<1> QED
  BY <1>6, <1>7

\* A block is executed in part, by a node that dies.
LEMMA DieReceivingEffect ==
    ASSUME IInv, LedgersTypeOK, NEW n \in Nodes, NEW p \in Nodes, DieReceiving(n, p)
    PROVE  LedgersTypeOK' /\ LedgersEffect
<1>t. /\ ledger[n] \in LedgerStates /\ up \in [Nodes -> BOOLEAN]
      /\ ahead[n] \in Block \cup {NoBlock}
  BY DEF LedgersTypeOK, IInv, Basic, TypeOK
<1>h. /\ \A q \in Nodes : ChainKept(q)
      /\ proposed' = proposed /\ submits' = submits
      /\ up' = [up EXCEPT ![n] = FALSE]
  BY CrashEffect DEF DieReceiving
<1> DEFINE l(part) == ExecuteAll(ledger[n], part)
           c(b, part) == l(part) # ledger[n] /\
                            \/ ~IsNext(n, b)
                            \/ ahead[n] \notin {b, NoBlock}
                            \/ ~(ToSet(part) \subseteq l(part).executed)
           next(b, part) == IF l(part) # ledger[n] /\ IsNext(n, b) THEN b ELSE ahead[n]
<1>b. PICK b \in Block :
         /\ Reads(n, p, BlockMsg(b))
         /\ \E part \in Prefixes(b.body) :
               /\ Becomes(n, l(part), mempool[n])
               /\ Strays(n, c(b, part))
               /\ Ahead(n, next(b, part))
  BY DEF DieReceiving
<1>1. PICK part \in Prefixes(b.body) :
         /\ Becomes(n, l(part), mempool[n])
         /\ Strays(n, c(b, part))
         /\ Ahead(n, next(b, part))
  BY <1>b
<1>2. PICK k \in 0 .. Len(b.body) : part = First(b.body, k)
  BY DEF Prefixes, First
<1>3. /\ IsNext(n, b) <=> b.index = Index(current[n]) + 1
      /\ IsNext(n, b) => b \in proposed
  BY <1>b, BlockRead
<1>4. part \in Seq(Payable)
  BY <1>2, BodiesPayable, FirstType
<1>5. /\ l(part) \in LedgerStates /\ c(b, part) \in BOOLEAN
      /\ next(b, part) \in Block \cup {NoBlock}
  BY <1>t, <1>4, ExecuteAllType
<1> HIDE DEF l, c, next
<1>6. /\ ledger' \in [Nodes -> LedgerStates]
      /\ ahead' \in [Nodes -> Block \cup {NoBlock}]
      /\ strayed' \in [Nodes -> BOOLEAN]
      /\ mempool' \in [Nodes -> SUBSET Txs]
      /\ ledger'[n] = l(part) /\ ahead'[n] = next(b, part)
      /\ strayed'[n] <=> strayed[n] \/ c(b, part)
      /\ \A q \in Nodes : q # n => Kept(q)
      /\ \A q \in Nodes : mempool'[q] \subseteq mempool[q]
      /\ mempool'[n] = mempool[n] \ mempool[n]
  BY <1>1, <1>5, Works
<1>7. LedgersTypeOK'
  <2>1. mempool'[n] = {}
    BY <1>6
  <2> QED
    BY <1>t, <1>h, <1>6, <2>1, WorksType
<1>8. OnlyAt(n)
  BY <1>h, <1>6 DEF OnlyAt
<1>9. CASE c(b, part)
  <2>1. Loses(n)
    BY <1>h, <1>6, <1>8, <1>9 DEF Loses
  <2> QED
    BY <1>7, <2>1 DEF LedgersEffect
<1>10. CASE ~c(b, part) /\ l(part) = ledger[n]
  <2>1. Kept(n)
    BY <1>6, <1>10 DEF Kept, next
  <2>2. NoWork
    BY <1>h, <1>6, <2>1 DEF NoWork
  <2> QED
    BY <1>7, <2>2 DEF LedgersEffect
<1>11. CASE ~c(b, part) /\ l(part) # ledger[n]
  <2>1. /\ IsNext(n, b) /\ ahead[n] \in {b, NoBlock}
        /\ ToSet(part) \subseteq l(part).executed /\ next(b, part) = b
    BY <1>11 DEF c, next
  <2>2. Begun(n, b, k)
    BY <1>2, <1>3, <1>h, <1>6, <1>8, <1>11, <2>1 DEF Begun, l
  <2> QED
    BY <1>7, <2>2 DEF LedgersEffect
<1> QED
  BY <1>9, <1>10, <1>11

\* What a block is after HandleNewBlock to the chains of the others.
LEMMA HandledChains ==
    ASSUME IInv, NEW n \in Nodes, NEW p \in Nodes, HandleNewBlock(n, p)
    PROVE  /\ \A q \in Nodes : q # n => ChainKept(q)
           /\ up' = up /\ proposed' = proposed
<1>1. up' = up /\ proposed' = proposed
  BY DEF HandleNewBlock
<1>2. PICK b \in Block :
         /\ Reads(n, p, BlockMsg(b))
         /\ \/ Accepts(n, b) /\ SaveBlockToTrie(n, b)
            \/ UNCHANGED disk
  BY DEF HandleNewBlock
<1>3. CASE Accepts(n, b) /\ SaveBlockToTrie(n, b)
  <2>1. Climbs(n, b)
    BY <1>1, <1>2, <1>3, BlockRead DEF Climbs, Accepts
  <2> QED
    BY <1>1, <2>1, ClimbsChains
<1>4. CASE UNCHANGED disk
  BY <1>1, <1>4 DEF disk, ChainKept
<1> QED
  BY <1>2, <1>3, <1>4

\* A fetch returns another transaction.
LEMMA MixedUpEffect ==
    ASSUME IInv, LedgersTypeOK, NEW n \in Nodes, NEW p \in Nodes, ReceiveMixedUp(n, p)
    PROVE  LedgersTypeOK' /\ LedgersEffect
<1>1. PICK b \in Block :
         /\ \E rounds \in Rounds(n, b.body) :
               LET r == RunRounds(ledger[n], rounds)
               IN  Becomes(n, r.ledger, r.removed)
         /\ Ahead(n, IF IsNext(n, b) THEN NoBlock ELSE ahead[n])
  BY DEF ReceiveMixedUp
<1>2. PICK rounds \in Rounds(n, b.body) :
         Becomes(n, RunRounds(ledger[n], rounds).ledger, RunRounds(ledger[n], rounds).removed)
  BY <1>1
<1>3. RunRounds(ledger[n], rounds).ledger \in LedgerStates
  BY BodiesPayable, RoundsLedger
<1>4. (IF IsNext(n, b) THEN NoBlock ELSE ahead[n]) \in Block \cup {NoBlock}
  BY DEF LedgersTypeOK
<1>5. /\ \A q \in Nodes : q # n => ChainKept(q)
      /\ up' = up /\ proposed' = proposed /\ submits' = submits /\ Strays(n, TRUE)
  BY HandledChains DEF ReceiveMixedUp
<1> QED
  BY <1>1, <1>2, <1>3, <1>4, <1>5, AstrayEffect

\* A block is executed in part and astray, by a node that dies.
LEMMA DieAstrayEffect ==
    ASSUME IInv, LedgersTypeOK, NEW n \in Nodes, NEW p \in Nodes, DieAstray(n, p)
    PROVE  LedgersTypeOK' /\ LedgersEffect
<1>h. /\ \A q \in Nodes : ChainKept(q)
      /\ proposed' = proposed /\ submits' = submits /\ ahead' = ahead
      /\ up' = [up EXCEPT ![n] = FALSE]
      /\ Strays(n, TRUE)
  BY CrashEffect DEF DieAstray
<1> DEFINE Mixed(rounds) == Becomes(n, RunRounds(ledger[n], rounds).ledger, mempool[n])
           Before(rounds) == RunRounds(ledger[n], Front(rounds)).ledger
           Cut(rounds) == /\ Covered(Before(rounds), Last(rounds).tx)
                          /\ \E m \in Interrupted(Before(rounds), Last(rounds).tx) :
                                Becomes(n, m, mempool[n])
<1>1. PICK b \in Block : \E part \in Prefixes(b.body) \ {<<>>} : \E rounds \in Rounds(n, part) :
                            Mixed(rounds) \/ Cut(rounds)
  BY DEF DieAstray
<1>2. PICK part \in Prefixes(b.body) \ {<<>>} :
         \E rounds \in Rounds(n, part) : Mixed(rounds) \/ Cut(rounds)
  BY <1>1
<1>3. PICK rounds \in Rounds(n, part) : Mixed(rounds) \/ Cut(rounds)
  BY <1>2
<1>4. part \in Seq(Payable) /\ part # <<>>
  <2>1. PICK k \in 0 .. Len(b.body) : part = First(b.body, k)
    BY DEF Prefixes, First
  <2> QED
    BY <2>1, BodiesPayable, FirstType
<1>5. rounds \in Seq(RoundSet) /\ Len(rounds) = Len(part) /\ Len(part) \in Nat \ {0}
  <2>1. rounds \in Seq(RoundSet) /\ DOMAIN rounds = DOMAIN part
    BY <1>4, RoundsAre DEF Rounds
  <2>2. Len(part) \in Nat /\ Len(part) # 0
    BY <1>4, EmptySeq
  <2>3. Len(rounds) = Len(part)
    BY <1>4, <2>1
  <2> QED
    BY <2>1, <2>2, <2>3
<1>6. PICK l \in LedgerStates : Becomes(n, l, mempool[n])
  <2>1. CASE Mixed(rounds)
    BY <1>4, <2>1, RoundsLedger
  <2>2. CASE Cut(rounds)
    <3>1. Front(rounds) \in Seq(RoundSet) /\ Last(rounds) \in RoundSet
      <4>1. Front(rounds) = SubSeq(rounds, 1, Len(rounds) - 1)
        BY DEF Front
      <4>2. Last(rounds) = rounds[Len(rounds)] /\ Len(rounds) \in 1 .. Len(rounds)
        BY <1>5 DEF Last
      <4> QED
        BY <1>5, <4>1, <4>2
    <3>2. Before(rounds) \in LedgerStates
      BY <3>1, RunRoundsType DEF LedgersTypeOK
    <3>3. Last(rounds).tx \in Payable
      BY <3>1 DEF RoundSet
    <3> QED
      BY <2>2, <3>2, <3>3, InterruptedType
  <2> QED
    BY <1>3, <2>1, <2>2
<1> QED
  BY <1>6, <1>h, SameAhead, AstrayEffect

\* The other steps of BlockSync leave the ledgers and the chains alone.
LEMMA OtherEffect ==
    ASSUME IInv, LedgersTypeOK, NEW n \in Nodes, NEW p \in Nodes, Other(n, p)
    PROVE  LedgersTypeOK' /\ LedgersEffect
<1>t. /\ up \in [Nodes -> BOOLEAN] /\ 0 \in Heights
      /\ trie \in [Nodes -> [Heights -> Block \cup {NoBlock}]]
      /\ last \in [Nodes -> Block \cup {NoBlock}]
  BY BlockSyncAssumption DEF Heights, IInv, Basic, TypeOK
<1>1. UNCHANGED <<ledger, mempool, ahead, strayed, submits>>
  BY DEF Other, ledgers
<1>2. /\ \A q \in Nodes : ChainKept(q)
      /\ UNCHANGED proposed
      /\ \A q \in Nodes : up[q] => up'[q]
  <2>1. CASE Start(n) \/ StartCut(n)
    <3>1. Quiet \/ Begins(n)
      BY <1>t, <2>1 DEF Start, StartCut, SaveGenesis, Begins, Quiet, disk
    <3>2. \A q \in Nodes : up[q] => up'[q]
      BY <1>t, <2>1 DEF Start, StartCut
    <3> QED
      BY <3>1, <3>2, QuietChains, BeginsChains
  <2>2. CASE Connect(n, p) \/ Hangup(n, p) \/ Lose(n, p)
    BY <2>2, QuietChains DEF Connect, Hangup, Lose, Quiet
  <2>3. CASE RequestLast(n, p) \/ RequestBlock(n, p)
    BY <2>3, QuietChains DEF RequestLast, RequestBlock, Quiet
  <2>4. CASE HandleLastBlockRequest(n, p) \/ HandleBlockRequest(n, p)
    BY <2>4, QuietChains DEF HandleLastBlockRequest, HandleBlockRequest, Quiet
  <2>5. CASE HandleLastBlockResponse(n, p) \/ SaveLastBlock(n, p)
    BY <2>5 DEF HandleLastBlockResponse, SaveLastBlock, ChainKept
  <2> QED
    BY <2>1, <2>2, <2>3, <2>4, <2>5 DEF Other
<1>3. NoWork
  BY <1>1, <1>2 DEF NoWork, Kept
<1>4. LedgersTypeOK'
  BY <1>1, <1>2 DEF LedgersTypeOK
<1> QED
  BY <1>3, <1>4 DEF LedgersEffect

LEMMA StepEffect ==
    ASSUME IInv, LedgersTypeOK, [LedgersNext]_allVars
    PROVE  LedgersTypeOK' /\ LedgersEffect
<1>1. CASE UNCHANGED allVars
  <2>1. UNCHANGED <<vars, ledger, mempool, ahead, strayed, submits>>
    BY <1>1 DEF allVars, ledgers
  <2>2. NoWork
    BY <2>1 DEF NoWork, Kept, ChainKept, vars
  <2>3. LedgersTypeOK'
    BY <2>1 DEF LedgersTypeOK, vars
  <2> QED
    BY <2>2, <2>3 DEF LedgersEffect
<1>2. ASSUME NEW n \in Nodes, NEW t \in Txs, Submit(n, t)
      PROVE  LedgersTypeOK' /\ LedgersEffect
  BY <1>2, SubmitEffect DEF LedgersEffect
<1>3. ASSUME NEW n \in Nodes,
             \/ ProposeList(n) \/ ProposalFails(n)
             \/ DieIdle(n) \/ DieProposing(n) \/ DieSaving(n)
      PROVE  LedgersTypeOK' /\ LedgersEffect
  BY <1>3, ProposeEffect, ProposalFailsEffect, DieIdleEffect, DieProposingEffect,
     DieSavingEffect
<1>4. ASSUME NEW n \in Nodes, NEW p \in Nodes,
             \/ ReceiveBlock(n, p) \/ ReceiveMixedUp(n, p)
             \/ DieReceiving(n, p) \/ DieAstray(n, p) \/ Other(n, p)
      PROVE  LedgersTypeOK' /\ LedgersEffect
  BY <1>4, ReceiveEffect, MixedUpEffect, DieReceivingEffect, DieAstrayEffect, OtherEffect
<1> QED
  BY <1>1, <1>2, <1>3, <1>4 DEF LedgersNext

LEMMA LedgersInitType == LedgersInit => LedgersTypeOK
<1> SUFFICES ASSUME LedgersInit PROVE LedgersTypeOK
  OBVIOUS
<1>1. NewLedger \in LedgerStates
  BY ReplicatedAssumption DEF NewLedger, LedgerStates
<1>2. 0 \in 0 .. MaxSubmits
  BY ReplicatedAssumption
<1> QED
  BY <1>1, <1>2 DEF LedgersInit, LedgersTypeOK

\* The ledgers keep their shape on every node, whatever is executed where and
\* however often: no balance is negative (a transfer is guarded by the balance
\* it is taken from), and a dead node has no mempool.
THEOREM LedgersTypeCorrect == LedgersSpec => []LedgersTypeOK
<1>1. LedgersSpec => []IInv
  BY Composition, Invariance, PTL DEF ImplementsBlockSync
<1>2. IInv /\ LedgersTypeOK /\ [LedgersNext]_allVars => LedgersTypeOK'
  BY StepEffect
<1> QED
  BY <1>1, <1>2, LedgersInitType, PTL DEF LedgersSpec

-----------------------------------------------------------------------------
(* The replay of a chain: the run of ledgers that its blocks make.          *)

Replays(r, c, m) ==
    /\ r[0] = NewLedger
    /\ \A h \in 1 .. m : r[h] = ExecuteAll(r[h - 1], c[h].body)

FullTo(c, m) == \A h \in 1 .. m : c[h] \in Block

LEMMA NewLedgerType == NewLedger \in LedgerStates
  BY ReplicatedAssumption DEF NewLedger, LedgerStates

\* Chains that agree are replayed alike.
LEMMA ReplaysAgree ==
    ASSUME NEW r, NEW s, NEW c, NEW d, NEW m \in Nat, NEW k \in Nat, NEW j \in Nat,
           Replays(r, c, m), Replays(s, d, k), j <= m, j <= k,
           \A h \in 1 .. j : c[h] = d[h]
    PROVE  \A h \in 0 .. j : r[h] = s[h]
<1> DEFINE Good == {h \in Nat : h <= j => r[h] = s[h]}
<1>1. 0 \in Good
  BY DEF Replays
<1>2. ASSUME NEW h \in Nat, h \in Good
      PROVE  h + 1 \in Good
  <2> SUFFICES ASSUME h + 1 <= j PROVE r[h + 1] = s[h + 1]
    OBVIOUS
  <2>1. /\ h + 1 \in 1 .. m /\ h + 1 \in 1 .. k /\ h + 1 \in 1 .. j
        /\ (h + 1) - 1 = h /\ r[h] = s[h]
    BY <1>2
  <2>2. /\ r[h + 1] = ExecuteAll(r[h], c[h + 1].body)
        /\ s[h + 1] = ExecuteAll(s[h], d[h + 1].body)
    BY <2>1 DEF Replays
  <2> QED
    BY <2>1, <2>2
<1>3. Nat \subseteq Good
  <2> HIDE DEF Good
  <2> QED
    BY <1>1, <1>2, SetInduction
<1> QED
  BY <1>3

\* A replay is of ledgers, each with all that was executed before.
LEMMA ReplaysType ==
    ASSUME NEW r, NEW c, NEW m \in Nat, Replays(r, c, m), FullTo(c, m)
    PROVE  \A h \in 0 .. m : /\ r[h] \in LedgerStates
                             /\ \A g \in 0 .. h : r[g].executed \subseteq r[h].executed
<1> DEFINE Fine(h) == /\ r[h] \in LedgerStates
                      /\ \A g \in 0 .. h : r[g].executed \subseteq r[h].executed
           Good == {h \in Nat : h <= m => Fine(h)}
<1>1. 0 \in Good
  <2>1. r[0] \in LedgerStates
    BY NewLedgerType DEF Replays
  <2>2. \A g \in 0 .. 0 : g = 0
    OBVIOUS
  <2> QED
    BY <2>1, <2>2
<1>2. ASSUME NEW h \in Nat, h \in Good
      PROVE  h + 1 \in Good
  <2> SUFFICES ASSUME h + 1 <= m PROVE Fine(h + 1)
    OBVIOUS
  <2>1. h + 1 \in 1 .. m /\ (h + 1) - 1 = h /\ Fine(h)
    BY <1>2
  <2>2. r[h + 1] = ExecuteAll(r[h], c[h + 1].body) /\ c[h + 1] \in Block
    BY <2>1 DEF Replays, FullTo
  <2>3. r[h + 1] \in LedgerStates /\ r[h].executed \subseteq r[h + 1].executed
    BY <2>1, <2>2, BodiesPayable, ExecuteAllType
  <2>4. \A g \in 0 .. h + 1 : g \in 0 .. h \/ g = h + 1
    OBVIOUS
  <2> QED
    BY <2>1, <2>3, <2>4
<1>3. Nat \subseteq Good
  <2> HIDE DEF Good
  <2> QED
    BY <1>1, <1>2, SetInduction
<1> QED
  BY <1>3

\* One block more.
LEMMA ReplaysMore ==
    ASSUME NEW r, NEW c, NEW m \in Nat, Replays(r, c, m), NEW d,
           \A h \in 1 .. m : d[h] = c[h]
    PROVE  \E s : /\ Replays(s, d, m + 1)
                  /\ s[m + 1] = ExecuteAll(r[m], d[m + 1].body)
                  /\ \A h \in 0 .. m : s[h] = r[h]
<1> DEFINE s == [h \in 0 .. m + 1 |-> IF h <= m THEN r[h]
                                      ELSE ExecuteAll(r[m], d[m + 1].body)]
<1>1. s[m + 1] = ExecuteAll(r[m], d[m + 1].body) /\ \A h \in 0 .. m : s[h] = r[h]
  OBVIOUS
<1>2. s[0] = NewLedger
  BY <1>1 DEF Replays
<1>3. ASSUME NEW h \in 1 .. m + 1
      PROVE  s[h] = ExecuteAll(s[h - 1], d[h].body)
  <2>1. CASE h = m + 1
    BY <1>1, <2>1
  <2>2. CASE h # m + 1
    <3>1. h \in 1 .. m /\ h \in 0 .. m /\ h - 1 \in 0 .. m
      BY <2>2
    <3> QED
      BY <1>1, <3>1 DEF Replays
  <2> QED
    BY <2>1, <2>2
<1>4. Replays(s, d, m + 1)
  BY <1>2, <1>3 DEF Replays
<1> HIDE DEF s
<1> QED
  BY <1>1, <1>4

\* Replay is the end of a replay.
LEMMA ReplayEnds ==
    ASSUME NEW n \in Nodes, Index(current[n]) \in Nat,
           FullTo(trie[n], Index(current[n]))
    PROVE  \E r : /\ Replays(r, trie[n], Index(current[n]))
                  /\ Replay(n) = r[Index(current[n])]
<1> DEFINE m == Index(current[n])
           P == 1 .. m
           q == ChainOf(n)
           op == [x \in LedgerStates \X Block |-> ExecuteAll(x[1], x[2].body)]
           Eq(g) == g = [s \in SUBSET P |->
                          IF s = {} THEN NewLedger
                          ELSE ExecuteAll(g[s \ {Largest(s)}], q[Largest(s)].body)]
<1>0. /\ m \in Nat /\ q \in Seq(Block) /\ Len(q) = m /\ DOMAIN q = P
      /\ \A h \in P : q[h] = trie[n][h] /\ q[h] \in Block
  BY DEF FullTo, ChainOf
<1> HIDE DEF q, m
<1>1. Replay(n) = (CHOOSE g : Eq(g))[P]
  BY <1>0 DEF q, Replay, FoldLeft, MapThenFoldSet, Max, Largest
<1>2. \E g : Eq(g)
  <2>1. op \in [LedgerStates \X Block -> LedgerStates]
    BY BodiesPayable, ExecuteAllType
  <2>2. \A l \in LedgerStates, b \in Block : op[<<l, b>>] = ExecuteAll(l, b.body)
    OBVIOUS
  <2> HIDE DEF op
  <2>p. PICK g : Folds(g, op, NewLedger, q, LedgerStates)
    BY <1>0, <2>1, NewLedgerType, FoldsExist
  <2>3. /\ g \in [SUBSET P -> LedgerStates]
        /\ \A s \in SUBSET P :
              g[s] = IF s = {} THEN NewLedger
                     ELSE op[<<g[s \ {Largest(s)}], q[Largest(s)]>>]
    BY <1>0, <2>p DEF Folds
  <2>4. ASSUME NEW s \in SUBSET P
        PROVE  g[s] = IF s = {} THEN NewLedger
                      ELSE ExecuteAll(g[s \ {Largest(s)}], q[Largest(s)].body)
    <3>1. CASE s = {}
      BY <2>3, <3>1
    <3>2. CASE s # {}
      <4>1. Largest(s) \in P /\ s \ {Largest(s)} \in SUBSET P
        BY <1>0, <3>2, LargestSmaller
      <4> QED
        BY <1>0, <2>2, <2>3, <3>2, <4>1
    <3> QED
      BY <3>1, <3>2
  <2>5. Eq(g)
    <3> HIDE DEF P
    <3> QED
      BY <2>3, <2>4
  <2> HIDE DEF Eq
  <2> QED
    BY <2>5
<1>3. PICK g : Eq(g) /\ Replay(n) = g[P]
  <2> HIDE DEF Eq
  <2> QED
    BY <1>1, <1>2
<1> DEFINE r == [h \in 0 .. m |-> g[1 .. h]]
<1>4. r[0] = NewLedger
  <2>1. g[{}] = NewLedger /\ 1 .. 0 = {}
    BY <1>3
  <2> QED
    BY <1>0, <2>1
<1>5. ASSUME NEW h \in P
      PROVE  r[h] = ExecuteAll(r[h - 1], trie[n][h].body)
  <2>1. /\ 1 .. h \in SUBSET P /\ 1 .. h # {}
        /\ Largest(1 .. h) = h /\ (1 .. h) \ {Largest(1 .. h)} = 1 .. h - 1
    BY <1>0, FirstPlaces
  <2>2. g[1 .. h] = ExecuteAll(g[1 .. h - 1], q[h].body)
    BY <1>3, <2>1
  <2>3. h \in 0 .. m /\ h - 1 \in 0 .. m
    BY <1>0
  <2> QED
    BY <1>0, <2>2, <2>3
<1>6. r[m] = Replay(n)
  BY <1>0, <1>3
<1>7. Replays(r, trie[n], m)
  BY <1>4, <1>5 DEF Replays
<1> HIDE DEF r
<1> QED
  BY <1>6, <1>7 DEF m

-----------------------------------------------------------------------------
(* A node that has not strayed has the ledger that its chain makes, or is   *)
(* ahead of it by a first part of the block that comes next, all of which   *)
(* it executed: executed again, that part does nothing.                     *)

Height(n) == Index(current[n])

\* With k transactions executed of the block ahead, after ledger l.
AheadBy(n, l, k) ==
    /\ ahead[n] \in Block
    /\ ahead[n].index = Height(n) + 1
    /\ k \in 0 .. Len(ahead[n].body)
    /\ ledger[n] = ExecuteAll(l, First(ahead[n].body, k))
    /\ ToSet(First(ahead[n].body, k)) \subseteq ledger[n].executed

Stands(n, l) ==
    \/ ahead[n] = NoBlock /\ ledger[n] = l
    \/ \E k \in Nat : AheadBy(n, l, k)

FollowsChain(n) ==
    /\ FullTo(trie[n], Height(n))
    /\ \E r : Replays(r, trie[n], Height(n)) /\ Stands(n, r[Height(n)])

Follows == \A n \in Nodes : ~strayed[n] => FollowsChain(n)

LEMMA HeightType ==
    ASSUME IInv, NEW n \in Nodes
    PROVE  Height(n) \in Nat /\ \A h \in 1 .. Height(n) : h \in Heights /\ h # 0
<1>1. current[n] \in Block \cup {NoBlock}
  BY DEF IInv, Basic, TypeOK
<1>2. Height(n) \in Heights
  BY <1>1, IndexInHeights DEF Height
<1> QED
  BY <1>2, BlockSyncAssumption DEF Heights

\* What is kept by a step is kept with it.
LEMMA ChainKeptReplays ==
    ASSUME IInv, NEW n \in Nodes, ChainKept(n)
    PROVE  /\ Height(n)' = Height(n)
           /\ \A h \in 1 .. Height(n) : trie'[n][h] = trie[n][h]
           /\ \A r : Replays(r, trie'[n], Height(n)) <=> Replays(r, trie[n], Height(n))
           /\ FullTo(trie'[n], Height(n)) <=> FullTo(trie[n], Height(n))
<1>1. Height(n)' = Height(n) /\ \A h \in 1 .. Height(n) : trie'[n][h] = trie[n][h]
  BY HeightType DEF ChainKept, Height
<1> QED
  BY <1>1 DEF Replays, FullTo

LEMMA FollowsKept ==
    ASSUME IInv, NEW n \in Nodes, FollowsChain(n), Kept(n), ChainKept(n)
    PROVE  FollowsChain(n)'
<1>1. PICK r : Replays(r, trie[n], Height(n)) /\ Stands(n, r[Height(n)])
  BY DEF FollowsChain
<1>2. /\ Height(n)' = Height(n)
      /\ Replays(r, trie'[n], Height(n))
      /\ FullTo(trie'[n], Height(n))
  BY <1>1, ChainKeptReplays DEF FollowsChain
<1>3. Stands(n, r[Height(n)])'
  BY <1>1, <1>2 DEF Stands, AheadBy, Kept
<1> QED
  BY <1>2, <1>3 DEF FollowsChain

LEMMA InitFollows == LedgersInit => Follows
<1> SUFFICES ASSUME LedgersInit, NEW n \in Nodes PROVE FollowsChain(n)
  BY DEF Follows
<1>1. Height(n) = 0 /\ ledger[n] = NewLedger /\ ahead[n] = NoBlock
  BY DEF LedgersInit, Init, Height, Index
<1> DEFINE r == [h \in {0} |-> NewLedger]
<1>2. Replays(r, trie[n], 0) /\ r[0] = NewLedger /\ FullTo(trie[n], 0)
  BY DEF Replays, FullTo
<1> HIDE DEF r
<1> QED
  BY <1>1, <1>2 DEF FollowsChain, Stands

\* The ledger of a node that executes j transactions of the block that comes
\* next is that of its chain and of these, or of those it had executed, if
\* they are more.
LEMMA GoesOn ==
    ASSUME LedgersTypeOK, NEW n \in Nodes, NEW l \in LedgerStates, Stands(n, l),
           NEW b \in Block, ahead[n] \in {b, NoBlock}, NEW j \in 0 .. Len(b.body)
    PROVE  \E k \in 0 .. Len(b.body) :
              /\ j <= k
              /\ ExecuteAll(ledger[n], First(b.body, j)) = ExecuteAll(l, First(b.body, k))
              /\ \A t \in ToSet(First(b.body, k)) :
                    t \in ledger[n].executed \/ t \in ToSet(First(b.body, j))
<1>0. b \notin {NoBlock} /\ b.body \in Seq(Payable)
  BY BodiesPayable, BlockSyncAssumption
<1>1. CASE ahead[n] = NoBlock
  <2>1. ledger[n] = l
    BY <1>1, BlockSyncAssumption DEF Stands, AheadBy
  <2> QED
    BY <2>1
<1>2. CASE ahead[n] = b
  <2>1. PICK k \in Nat : AheadBy(n, l, k)
    BY <1>0, <1>2 DEF Stands
  <2>2. /\ k \in 0 .. Len(b.body)
        /\ ledger[n] = ExecuteAll(l, First(b.body, k))
        /\ ToSet(First(b.body, k)) \subseteq ledger[n].executed
    BY <1>2, <2>1 DEF AheadBy
  <2>3. ExecuteAll(ledger[n], First(b.body, j))
           = ExecuteAll(l, First(b.body, IF j <= k THEN k ELSE j))
    BY <1>0, <2>2, ExecuteAgain
  <2>4. CASE j <= k
    BY <2>2, <2>3, <2>4
  <2>5. CASE ~(j <= k)
    <3>1. ExecuteAll(ledger[n], First(b.body, j)) = ExecuteAll(l, First(b.body, j))
      BY <2>3, <2>5
    <3> QED
      BY <3>1
  <2> QED
    BY <2>4, <2>5
<1> QED
  BY <1>1, <1>2

LEMMA BegunFollows ==
    ASSUME IInv, LedgersTypeOK, LedgersTypeOK', NEW n \in Nodes, FollowsChain(n),
           NEW b \in Block, NEW j \in 0 .. Len(b.body), Begun(n, b, j)
    PROVE  FollowsChain(n)'
<1>1. PICK r : Replays(r, trie[n], Height(n)) /\ Stands(n, r[Height(n)])
  BY DEF FollowsChain
<1>2. /\ Height(n)' = Height(n)
      /\ Replays(r, trie'[n], Height(n))
      /\ FullTo(trie'[n], Height(n))
  BY <1>1, ChainKeptReplays DEF FollowsChain, Begun
<1>3. r[Height(n)] \in LedgerStates
  <2>1. Height(n) \in Nat /\ Height(n) \in 0 .. Height(n)
    BY HeightType
  <2> QED
    BY <1>1, <2>1, ReplaysType DEF FollowsChain
<1>b. /\ ahead[n] \in {b, NoBlock} /\ ahead'[n] = b /\ b.index = Height(n) + 1
      /\ ledger'[n] = ExecuteAll(ledger[n], First(b.body, j))
      /\ ToSet(First(b.body, j)) \subseteq ledger'[n].executed
  BY DEF Begun, Height
<1>4. PICK k \in 0 .. Len(b.body) :
         /\ j <= k
         /\ ledger'[n] = ExecuteAll(r[Height(n)], First(b.body, k))
         /\ \A t \in ToSet(First(b.body, k)) :
               t \in ledger[n].executed \/ t \in ToSet(First(b.body, j))
  <2> DEFINE l == r[Height(n)]
             Goes(k) == /\ j <= k
                        /\ ExecuteAll(ledger[n], First(b.body, j))
                              = ExecuteAll(l, First(b.body, k))
                        /\ \A t \in ToSet(First(b.body, k)) :
                              t \in ledger[n].executed \/ t \in ToSet(First(b.body, j))
  <2>1. l \in LedgerStates /\ Stands(n, l) /\ ahead[n] \in {b, NoBlock}
    BY <1>1, <1>3, <1>b
  <2> HIDE DEF l
  <2>2. \E k \in 0 .. Len(b.body) : Goes(k)
    BY <2>1, GoesOn
  <2>3. \A k : Goes(k) => ledger'[n] = ExecuteAll(l, First(b.body, k))
    BY <1>b
  <2> QED
    BY <2>2, <2>3 DEF l
<1>5. ledger[n].executed \subseteq ledger'[n].executed
  <2>1. ledger[n] \in LedgerStates /\ First(b.body, j) \in Seq(Payable)
    BY BodiesPayable, FirstType DEF LedgersTypeOK
  <2> QED
    BY <1>b, <2>1, ExecuteAllType
<1>6. AheadBy(n, r[Height(n)], k)'
  BY <1>2, <1>b, <1>4, <1>5 DEF AheadBy
<1>7. Stands(n, r[Height(n)])'
  BY <1>2, <1>6 DEF Stands
<1> QED
  BY <1>2, <1>7 DEF FollowsChain

LEMMA WholeFollows ==
    ASSUME IInv, LedgersTypeOK, NEW n \in Nodes, FollowsChain(n),
           NEW b \in Block, Whole(n, b)
    PROVE  FollowsChain(n)'
<1> DEFINE m == Height(n)
<1>1. PICK r : Replays(r, trie[n], m) /\ Stands(n, r[m])
  BY DEF FollowsChain
<1>h. m \in Nat /\ m \in 0 .. m /\ \A h \in 1 .. m : h \in Heights /\ h # 0
  BY HeightType
<1>2. /\ Height(n)' = m + 1 /\ b.index = m + 1 /\ m + 1 \in Heights
      /\ ahead[n] \in {b, NoBlock} /\ ahead'[n] = NoBlock
      /\ ledger'[n] = ExecuteAll(ledger[n], b.body)
      /\ trie'[n] = [trie[n] EXCEPT ![b.index] = b]
  BY IndexInHeights DEF Whole, Height
<1>3. trie'[n][m + 1] = b /\ \A h \in 1 .. m : trie'[n][h] = trie[n][h]
  <2>1. trie[n] \in [Heights -> Block \cup {NoBlock}]
    BY DEF IInv, Basic, TypeOK
  <2>2. \A h \in 1 .. m : h # m + 1
    BY <1>h
  <2> QED
    BY <1>h, <1>2, <2>1, <2>2
<1> HIDE DEF m
<1>4. FullTo(trie'[n], m + 1)
  <2>1. \A h \in 1 .. m + 1 : h \in 1 .. m \/ h = m + 1
    BY <1>h
  <2> QED
    BY <1>3, <2>1 DEF FullTo, FollowsChain, m
<1>5. r[m] \in LedgerStates
  BY <1>1, <1>h, ReplaysType DEF FollowsChain, m
<1>6. ledger'[n] = ExecuteAll(r[m], b.body)
  <2>1. /\ b.body \in Seq(Payable) /\ Len(b.body) \in 0 .. Len(b.body)
        /\ First(b.body, Len(b.body)) = b.body
    BY BodiesPayable, FirstType
  <2>2. PICK k \in 0 .. Len(b.body) :
           /\ Len(b.body) <= k
           /\ ExecuteAll(ledger[n], First(b.body, Len(b.body)))
                 = ExecuteAll(r[m], First(b.body, k))
    BY <1>1, <1>2, <1>5, <2>1, GoesOn
  <2>3. k = Len(b.body)
    BY <2>1, <2>2
  <2> QED
    BY <1>2, <2>1, <2>2, <2>3
<1>7. PICK s : Replays(s, trie'[n], m + 1) /\ s[m + 1] = ExecuteAll(r[m], b.body)
  BY <1>1, <1>h, <1>3, ReplaysMore
<1>8. Stands(n, s[Height(n)])'
  BY <1>2, <1>6, <1>7 DEF Stands
<1> QED
  BY <1>2, <1>4, <1>7, <1>8 DEF FollowsChain

LEMMA StepFollows ==
    ASSUME IInv, LedgersTypeOK, LedgersTypeOK', LedgersEffect, Follows
    PROVE  Follows'
<1> SUFFICES ASSUME NEW p \in Nodes, ~strayed'[p] PROVE FollowsChain(p)'
  BY DEF Follows
<1>1. ASSUME Kept(p), ChainKept(p)
      PROVE  FollowsChain(p)'
  <2>1. FollowsChain(p)
    BY <1>1 DEF Follows, Kept
  <2> QED
    BY <1>1, <2>1, FollowsKept
<1>2. CASE NoWork
  BY <1>1, <1>2 DEF NoWork
<1>3. ASSUME NEW n \in Nodes, Loses(n)
      PROVE  FollowsChain(p)'
  BY <1>1, <1>3 DEF Loses, OnlyAt
<1>4. ASSUME NEW n \in Nodes, NEW b \in Block, Whole(n, b)
      PROVE  FollowsChain(p)'
  <2>1. CASE p = n
    <3>1. FollowsChain(n)
      BY <1>4, <2>1 DEF Follows, Whole
    <3> QED
      BY <1>4, <2>1, <3>1, WholeFollows
  <2>2. CASE p # n
    BY <1>1, <1>4, <2>2 DEF Whole, OnlyAt
  <2> QED
    BY <2>1, <2>2
<1>5. ASSUME NEW n \in Nodes, NEW b \in Block, NEW k \in 0 .. Len(b.body), Begun(n, b, k)
      PROVE  FollowsChain(p)'
  <2>1. CASE p = n
    <3>1. FollowsChain(n)
      BY <1>5, <2>1 DEF Follows, Begun
    <3> QED
      BY <1>5, <2>1, <3>1, BegunFollows
  <2>2. CASE p # n
    BY <1>1, <1>5, <2>2 DEF Begun, OnlyAt
  <2> QED
    BY <2>1, <2>2
<1> QED
  BY <1>2, <1>3, <1>4, <1>5 DEF LedgersEffect

LEMMA FollowsIsChain ==
    ASSUME IInv, Follows
    PROVE  LedgerIsChain
<1> SUFFICES ASSUME NEW n \in Nodes, ~strayed[n], ahead[n] = NoBlock
             PROVE  ledger[n] = Replay(n)
  BY DEF LedgerIsChain
<1>1. FullTo(trie[n], Height(n))
  BY DEF Follows, FollowsChain
<1>2. PICK r : Replays(r, trie[n], Height(n)) /\ Stands(n, r[Height(n)])
  BY DEF Follows, FollowsChain
<1>3. ledger[n] = r[Height(n)]
  BY <1>2, BlockSyncAssumption DEF Stands, AheadBy
<1>4. Height(n) \in Nat /\ Height(n) \in 0 .. Height(n)
  BY HeightType
<1>5. PICK s : Replays(s, trie[n], Height(n)) /\ Replay(n) = s[Height(n)]
  BY <1>1, <1>4, ReplayEnds DEF Height
<1> DEFINE m == Height(n)
<1>6. \A h \in 0 .. m : r[h] = s[h]
  <2>1. m \in Nat /\ m <= m /\ Replays(r, trie[n], m) /\ Replays(s, trie[n], m)
    BY <1>2, <1>4, <1>5
  <2> HIDE DEF m
  <2> QED
    BY <2>1, ReplaysAgree
<1> QED
  BY <1>3, <1>4, <1>5, <1>6

LedgersInv == IInv /\ LedgersTypeOK /\ Follows

LEMMA LedgersInvariance == LedgersSpec => []LedgersInv
<1>1. LedgersSpec => []IInv
  BY Composition, Invariance, PTL DEF ImplementsBlockSync
<1>2. LedgersInit => LedgersTypeOK /\ Follows
  BY LedgersInitType, InitFollows
<1>3. IInv /\ (LedgersTypeOK /\ Follows) /\ [LedgersNext]_allVars
         => (LedgersTypeOK /\ Follows)'
  BY StepEffect, StepFollows
<1> QED
  BY <1>1, <1>2, <1>3, PTL DEF LedgersSpec, LedgersInv

\* A node that has not strayed has the ledger that its chain makes, whatever
\* came twice or late, and also when it died in a block that came again
\* (HandleNewBlock executes before it saves; the executed transactions of a
\* block that comes again are skipped).
THEOREM ReplayedAlike == LedgersSpec => []LedgerIsChain
<1>1. LedgersInv => LedgerIsChain
  BY FollowsIsChain DEF LedgersInv
<1> QED
  BY <1>1, LedgersInvariance, PTL

\* What the replication does keep of the README's claim (line 62) that the
\* state is synchronised: nodes with the same chain have the same accounts,
\* unless one strayed or is in the middle of a block.
SettledAgree ==
    \A n, p \in Nodes :
        /\ ~strayed[n] /\ ahead[n] = NoBlock
        /\ ~strayed[p] /\ ahead[p] = NoBlock
        /\ ChainOf(n) = ChainOf(p)
        => ledger[n] = ledger[p]

THEOREM SameChainSameAccounts == LedgersSpec => []SettledAgree
<1>1. LedgerIsChain => SettledAgree
  BY DEF LedgerIsChain, SettledAgree, Replay
<1> QED
  BY <1>1, ReplayedAlike, PTL

-----------------------------------------------------------------------------
(* Without a fork and without abandoned work there is one chain, of which   *)
(* the signer of each block has all up to that block: what it paid for from *)
(* the ledger of the chain is paid for everywhere.                          *)

Clean == ~Forked /\ \A n \in Nodes : ~strayed[n]

HeldBySigner == \A b \in proposed : trie[b.proposer][b.index] = b

Paid(r, c, m) == \A h \in 1 .. m : Pays(r[h - 1], c[h].body)

PaidEverywhere ==
    \A n \in Nodes : \A r :
        Replays(r, trie[n], Height(n)) => Paid(r, trie[n], Height(n))

CleanPays == Clean => HeldBySigner /\ PaidEverywhere

LEMMA InitCleanPays == LedgersInit => CleanPays
<1> SUFFICES ASSUME LedgersInit PROVE HeldBySigner /\ PaidEverywhere
  BY DEF CleanPays
<1>1. proposed = {} /\ \A n \in Nodes : Height(n) = 0
  BY DEF LedgersInit, Init, Height, Index
<1> QED
  BY <1>1 DEF HeldBySigner, PaidEverywhere, Paid

LEMMA PaidKept ==
    ASSUME IInv, NEW n \in Nodes, ChainKept(n), NEW r,
           Replays(r, trie[n], Height(n)) => Paid(r, trie[n], Height(n)),
           Replays(r, trie[n], Height(n))'
    PROVE  Paid(r, trie[n], Height(n))'
<1>1. /\ Height(n)' = Height(n)
      /\ \A h \in 1 .. Height(n) : trie'[n][h] = trie[n][h]
      /\ Replays(r, trie'[n], Height(n)) <=> Replays(r, trie[n], Height(n))
  BY ChainKeptReplays
<1>2. Paid(r, trie[n], Height(n))
  BY <1>1 DEF Replays
<1> QED
  BY <1>1, <1>2 DEF Paid

\* A signed block has a height above 0, no higher than its signer is.
LEMMA Signed ==
    ASSUME IInv, NEW b \in proposed
    PROVE  /\ b \in Block /\ b.proposer \in Nodes
           /\ b.index \in Heights /\ b.index # 0 /\ b.index \in Nat
           /\ b.index <= Height(b.proposer)
<1>1. b \in Block
  BY DEF IInv, Basic, TypeOK
<1>2. b.index >= 1 /\ b.index <= Height(b.proposer)
  BY DEF IInv, History, Turns, Height
<1> QED
  BY <1>1, <1>2, IndexInHeights DEF Block

\* The blocks of a chain were signed.
LEMMA ChainSigned ==
    ASSUME IInv, NEW n \in Nodes, NEW h \in 1 .. Height(n), FullTo(trie[n], Height(n))
    PROVE  trie[n][h] \in proposed /\ trie[n][h].index = h
<1>1. h \in Heights /\ h # 0 /\ trie[n][h] \in Block
  BY HeightType DEF FullTo
<1>2. trie[n][h] # NoBlock
  BY <1>1, BlockSyncAssumption
<1>3. trie[n][h] \in Known /\ trie[n][h].index = h
  BY <1>1, <1>2 DEF IInv, Provenance, History, Indexed
<1> QED
  BY <1>1, <1>3 DEF Known, Genesis

\* Where there is no fork, two nodes have the same blocks up to the lower.
LEMMA OneChain ==
    ASSUME IInv, ~Forked, NEW n \in Nodes, NEW q \in Nodes,
           FullTo(trie[n], Height(n)), FullTo(trie[q], Height(q)),
           NEW h \in 1 .. Height(n), h \in 1 .. Height(q)
    PROVE  trie[n][h] = trie[q][h]
<1>1. trie[n][h] \in proposed /\ trie[n][h].index = h
  BY ChainSigned
<1>2. trie[q][h] \in proposed /\ trie[q][h].index = h
  BY ChainSigned
<1> QED
  BY <1>1, <1>2 DEF Forked

\* A block that is signed somewhere is paid for by the ledger of the chain
\* below it.
LEMMA SignedIsPaid ==
    ASSUME LedgersInv, Clean, HeldBySigner, PaidEverywhere,
           NEW n \in Nodes, NEW r, Replays(r, trie[n], Height(n)),
           NEW b \in proposed, b.index = Height(n) + 1
    PROVE  Pays(r[Height(n)], b.body)
<1> DEFINE q == b.proposer
           m == Height(n)
<1>1. /\ q \in Nodes /\ b.index <= Height(q) /\ b.index \in 1 .. Height(q)
      /\ m \in Nat /\ Height(q) \in Nat
  BY Signed, HeightType DEF LedgersInv
<1>2. FullTo(trie[n], m) /\ FullTo(trie[q], Height(q))
  BY <1>1 DEF LedgersInv, Follows, FollowsChain, Clean
<1>3. PICK s : Replays(s, trie[q], Height(q))
  BY <1>1 DEF LedgersInv, Follows, FollowsChain, Clean
<1>4. Pays(s[b.index - 1], trie[q][b.index].body)
  BY <1>1, <1>3 DEF PaidEverywhere, Paid
<1>5. trie[q][b.index] = b
  BY DEF HeldBySigner
<1> HIDE DEF q
<1>6. \A h \in 1 .. m : trie[n][h] = trie[q][h]
  <2> SUFFICES ASSUME NEW h \in 1 .. m PROVE trie[n][h] = trie[q][h]
    OBVIOUS
  <2>1. h \in 1 .. Height(n) /\ h \in 1 .. Height(q)
    BY <1>1
  <2> QED
    BY <1>1, <1>2, <2>1, OneChain DEF LedgersInv, Clean
<1>7. m <= Height(q) /\ m <= m /\ b.index - 1 = m /\ m \in 0 .. m
  BY <1>1
<1>8. Replays(r, trie[n], m)
  OBVIOUS
<1> HIDE DEF m
<1>9. \A h \in 0 .. m : r[h] = s[h]
  BY <1>1, <1>3, <1>6, <1>7, <1>8, ReplaysAgree
<1>10. Pays(r[m], b.body)
  BY <1>4, <1>5, <1>7, <1>9
<1> QED
  BY <1>10 DEF m

LEMMA WholePays ==
    ASSUME LedgersInv, Clean, HeldBySigner, PaidEverywhere,
           NEW n \in Nodes, NEW b \in Block, Whole(n, b)
    PROVE  HeldBySigner' /\ PaidEverywhere'
<1> DEFINE m == Height(n)
<1>i. IInv /\ LedgersTypeOK /\ Follows
  BY DEF LedgersInv
<1>h. m \in Nat /\ m \in 0 .. m /\ \A h \in 1 .. m : h \in Heights /\ h # 0
  BY <1>i, HeightType
<1>2. /\ Height(n)' = m + 1 /\ b.index = m + 1 /\ m + 1 \in Heights
      /\ trie'[n] = [trie[n] EXCEPT ![b.index] = b]
      /\ \A q \in Nodes : q # n => ChainKept(q)
  BY IndexInHeights DEF Whole, Height, OnlyAt
<1>3. /\ trie'[n][m + 1] = b
      /\ \A h \in Heights : h # m + 1 => trie'[n][h] = trie[n][h]
  <2>1. trie[n] \in [Heights -> Block \cup {NoBlock}]
    BY <1>i DEF IInv, Basic, TypeOK
  <2> QED
    BY <1>2, <2>1
<1> HIDE DEF m
<1>4. HeldBySigner'
  <2> SUFFICES ASSUME NEW d \in proposed' PROVE trie'[d.proposer][d.index] = d
    BY DEF HeldBySigner
  <2>1. CASE d \in proposed
    <3>1. /\ trie[d.proposer][d.index] = d /\ d.proposer \in Nodes
          /\ d.index \in Heights /\ d.index # 0 /\ d.index \in Nat
          /\ d.index <= Height(d.proposer)
      BY <1>i, <2>1, Signed DEF HeldBySigner
    <3>2. CASE d.proposer # n
      BY <1>2, <3>1, <3>2 DEF ChainKept
    <3>3. CASE d.proposer = n
      <4>1. d.index # m + 1
        BY <1>h, <3>1, <3>3 DEF m
      <4> QED
        BY <1>3, <3>1, <3>3, <4>1
    <3> QED
      BY <3>2, <3>3
  <2>2. CASE d \notin proposed
    <3>1. d = b /\ b.proposer = n
      BY <2>2 DEF Whole
    <3> QED
      BY <1>2, <1>3, <3>1
  <2> QED
    BY <2>1, <2>2
<1>5. PaidEverywhere'
  <2> SUFFICES ASSUME NEW q \in Nodes, NEW r, Replays(r, trie[q], Height(q))'
               PROVE  Paid(r, trie[q], Height(q))'
    BY DEF PaidEverywhere
  <2>1. CASE q # n
    BY <1>i, <1>2, <2>1, PaidKept DEF PaidEverywhere
  <2>2. CASE q = n
    <3>1. Replays(r, trie'[n], m + 1)
      BY <1>2, <2>2 DEF Replays
    <3>2. \A h \in 1 .. m : trie'[n][h] = trie[n][h]
      <4>1. \A h \in 1 .. m : h # m + 1
        BY <1>h
      <4> QED
        BY <1>h, <1>3, <4>1
    <3>3. Replays(r, trie[n], m)
      <4>1. \A h \in 1 .. m : h \in 1 .. m + 1
        BY <1>h
      <4> QED
        BY <3>1, <3>2, <4>1 DEF Replays
    <3>4. Paid(r, trie[n], m)
      BY <3>3 DEF PaidEverywhere, m
    <3>5. Pays(r[m], b.body)
      <4>1. CASE b \in proposed
        BY <1>2, <3>3, <4>1, SignedIsPaid DEF m
      <4>2. CASE b \notin proposed
        <5>1. ahead[n] = NoBlock /\ Pays(ledger[n], b.body)
          BY <4>2 DEF Whole
        <5>2. PICK s : Replays(s, trie[n], m) /\ Stands(n, s[m])
          BY <1>i DEF Clean, Follows, FollowsChain, m
        <5>3. ledger[n] = s[m]
          BY <5>1, <5>2, BlockSyncAssumption DEF Stands, AheadBy
        <5>4. m <= m
          BY <1>h
        <5>5. \A h \in 0 .. m : r[h] = s[h]
          BY <1>h, <3>3, <5>2, <5>4, ReplaysAgree
        <5> QED
          BY <1>h, <5>1, <5>3, <5>5
      <4> QED
        BY <4>1, <4>2
    <3>6. Paid(r, trie'[n], m + 1)
      <4> SUFFICES ASSUME NEW h \in 1 .. m + 1
                   PROVE  Pays(r[h - 1], trie'[n][h].body)
        BY DEF Paid
      <4>1. CASE h = m + 1
        <5>1. h - 1 = m
          BY <1>h, <4>1
        <5> QED
          BY <1>3, <3>5, <4>1, <5>1
      <4>2. CASE h # m + 1
        <5>1. h \in 1 .. m
          BY <1>h, <4>2
        <5> QED
          BY <3>2, <3>4, <5>1 DEF Paid
      <4> QED
        BY <4>1, <4>2
    <3> QED
      BY <1>2, <2>2, <3>6 DEF Paid
  <2> QED
    BY <2>1, <2>2
<1> QED
  BY <1>4, <1>5

LEMMA StepCleanPays ==
    ASSUME LedgersInv, LedgersEffect, CleanPays
    PROVE  CleanPays'
<1> SUFFICES ASSUME Clean' PROVE HeldBySigner' /\ PaidEverywhere'
  BY DEF CleanPays
<1>1. ~\E n \in Nodes : Loses(n)
  BY DEF Loses, Clean
<1>2. Clean
  <2>1. proposed \subseteq proposed'
    BY <1>1 DEF LedgersEffect, NoWork, Whole, Begun
  <2>2. ~Forked
    BY <2>1 DEF Clean, Forked
  <2>3. ASSUME NEW p \in Nodes
        PROVE  ~strayed[p]
    <3>1. ~strayed'[p]
      BY DEF Clean
    <3>2. Kept(p) \/ (strayed'[p] <=> strayed[p])
      BY <1>1 DEF LedgersEffect, NoWork, Whole, Begun, OnlyAt
    <3> QED
      BY <3>1, <3>2 DEF Kept
  <2> QED
    BY <2>2, <2>3 DEF Clean
<1>3. HeldBySigner /\ PaidEverywhere
  BY <1>2 DEF CleanPays
<1>4. ASSUME \A p \in Nodes : ChainKept(p), UNCHANGED proposed
      PROVE  HeldBySigner' /\ PaidEverywhere'
  <2>1. HeldBySigner'
    <3> SUFFICES ASSUME NEW d \in proposed PROVE trie'[d.proposer][d.index] = d
      BY <1>4 DEF HeldBySigner
    <3>1. /\ trie[d.proposer][d.index] = d /\ d.proposer \in Nodes
          /\ d.index \in Heights /\ d.index # 0
      BY <1>3, Signed DEF HeldBySigner, LedgersInv
    <3> QED
      BY <1>4, <3>1 DEF ChainKept
  <2>2. PaidEverywhere'
    <3> SUFFICES ASSUME NEW q \in Nodes, NEW r, Replays(r, trie[q], Height(q))'
                 PROVE  Paid(r, trie[q], Height(q))'
      BY DEF PaidEverywhere
    <3> QED
      BY <1>3, <1>4, PaidKept DEF PaidEverywhere, LedgersInv
  <2> QED
    BY <2>1, <2>2
<1>5. CASE NoWork
  BY <1>4, <1>5 DEF NoWork
<1>6. ASSUME NEW n \in Nodes, NEW b \in Block, Whole(n, b)
      PROVE  HeldBySigner' /\ PaidEverywhere'
  BY <1>2, <1>3, <1>6, WholePays
<1>7. ASSUME NEW n \in Nodes, NEW b \in Block, NEW k \in 0 .. Len(b.body), Begun(n, b, k)
      PROVE  HeldBySigner' /\ PaidEverywhere'
  BY <1>4, <1>7 DEF Begun, OnlyAt
<1> QED
  BY <1>1, <1>5, <1>6, <1>7 DEF LedgersEffect

LEMMA PaidIsExecuted ==
    ASSUME LedgersInv, CleanPays
    PROVE  ListedAreExecutedEverywhere
<1>0. ASSUME NEW n \in Nodes
      PROVE  /\ \A i \in 1 .. Height(n) : ChainOf(n)[i] = trie[n][i]
             /\ \A h \in 1 .. Height(n) : \A g \in 1 .. h - 1 : g \in 1 .. Height(n)
  <2>1. \A i \in 1 .. Height(n) : ChainOf(n)[i] = trie[n][i]
    BY DEF ChainOf, Height
  <2>2. Height(n) \in Nat
    BY HeightType DEF LedgersInv
  <2> QED
    BY <2>1, <2>2
<1> SUFFICES ASSUME Clean, NEW n \in Nodes, NEW h \in 1 .. Height(n)
             PROVE  /\ ToSet(trie[n][h].body) \subseteq ledger[n].executed
                    /\ \A g \in 1 .. h - 1 :
                          ToSet(trie[n][g].body) \cap ToSet(trie[n][h].body) = {}
  BY <1>0 DEF ListedAreExecutedEverywhere, Clean, Height
<1> DEFINE m == Height(n)
<1>1. m \in Nat /\ m \in 0 .. m /\ h \in 0 .. m /\ FullTo(trie[n], m)
  BY HeightType DEF LedgersInv, Clean, Follows, FollowsChain
<1>2. PICK r : Replays(r, trie[n], m) /\ Stands(n, r[m])
  BY DEF LedgersInv, Clean, Follows, FollowsChain
<1>3. \A i \in 1 .. m : Pays(r[i - 1], trie[n][i].body)
  BY <1>2 DEF CleanPays, PaidEverywhere, Paid
<1> HIDE DEF m
<1>4. ASSUME NEW i \in 1 .. m
      PROVE  ToSet(trie[n][i].body) \subseteq r[i].executed
  BY <1>2, <1>3 DEF Replays, Pays
<1>5. \A i \in 0 .. m : /\ r[i] \in LedgerStates
                        /\ \A g \in 0 .. i : r[g].executed \subseteq r[i].executed
  BY <1>1, <1>2, ReplaysType
<1>6. r[m].executed \subseteq ledger[n].executed
  <2>1. CASE ledger[n] = r[m]
    BY <2>1
  <2>2. ASSUME NEW k \in Nat, AheadBy(n, r[m], k)
        PROVE  r[m].executed \subseteq ledger[n].executed
    <3>1. First(ahead[n].body, k) \in Seq(Payable)
      BY <2>2, BodiesPayable, FirstType DEF AheadBy
    <3> QED
      BY <1>1, <1>5, <2>2, <3>1, ExecuteAllType DEF AheadBy
  <2> QED
    BY <1>2, <2>1, <2>2 DEF Stands
<1>7. ToSet(trie[n][h].body) \subseteq ledger[n].executed
  BY <1>1, <1>4, <1>5, <1>6 DEF m
<1>8. ASSUME NEW g \in 1 .. h - 1
      PROVE  ToSet(trie[n][g].body) \cap ToSet(trie[n][h].body) = {}
  <2>1. g \in 1 .. m /\ g \in 0 .. h - 1 /\ h - 1 \in 0 .. m /\ h \in 1 .. m
    BY <1>1 DEF m
  <2>2. ToSet(trie[n][g].body) \subseteq r[h - 1].executed
    BY <1>4, <1>5, <2>1
  <2> QED
    BY <1>3, <2>1, <2>2 DEF Pays
<1> QED
  BY <1>7, <1>8

\* Without a fork and without abandoned work, every transaction of a chain is
\* executed by every node that has the chain, and listed once: what the
\* proposer could pay for, everybody can (ProcessMempoolTransactions lists
\* what it executed; ProcessTransactionsByIDs executes it again elsewhere).
THEOREM ListedOnceExecutedEverywhere == LedgersSpec => []ListedAreExecutedEverywhere
<1>1. LedgersInit => CleanPays
  BY InitCleanPays
<1>2. LedgersInv /\ CleanPays /\ [LedgersNext]_allVars => CleanPays'
  BY StepEffect, StepCleanPays DEF LedgersInv
<1>3. LedgersInv /\ CleanPays => ListedAreExecutedEverywhere
  BY PaidIsExecuted
<1> QED
  BY <1>1, <1>2, <1>3, LedgersInvariance, PTL DEF LedgersSpec

=============================================================================
