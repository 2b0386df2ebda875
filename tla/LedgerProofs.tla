---------------------------- MODULE LedgerProofs ----------------------------
(***************************************************************************)
(* Theorems about the ledger of a node, for every set of accounts and of   *)
(* transactions and for every number of deaths.                            *)
(***************************************************************************)
EXTENDS Ledger, Counting, FiniteSetTheorems, SequenceTheorems, TLAPS

-----------------------------------------------------------------------------
(* Where the lists of transactions come from.                               *)

LEMMA OrdersAreSequences ==
    ASSUME NEW S, IsFiniteSet(S), NEW s \in SetToSeqs(S)
    PROVE  s \in Seq(S)
<1>1. Cardinality(S) \in Nat
  BY FS_CardinalityType
<1>2. s \in [1..Cardinality(S) -> S]
  BY DEF SetToSeqs
<1> QED
  BY <1>1, <1>2, SeqDef

\* An order of some of the transactions is a list of transactions.
LEMMA ListsOfTxs ==
    ASSUME NEW S, S \subseteq Txs, NEW s \in SetToSeqs(S)
    PROVE  s \in Seq(Txs)
<1>1. IsFiniteSet(S)
  BY FS_Subset, LedgerAssumption
<1>2. s \in Seq(S)
  BY <1>1, OrdersAreSequences
<1> QED
  BY <1>2, SeqMonotonic

LEMMA BlockListsOfTxs ==
    ASSUME NEW s \in BlockLists
    PROVE  s \in Seq(Txs)
<1>1. PICK S \in SUBSET {t \in Txs : t.to \in TestAccounts} : s \in SetToSeqs(S)
  BY DEF BlockLists, SetToAllKPermutations
<1>2. S \subseteq Txs
  BY <1>1
<1> QED
  BY <1>1, <1>2, ListsOfTxs

LEMMA TodoShrinks ==
    ASSUME todo \in Seq(Txs), todo # <<>>
    PROVE  Head(todo) \in Txs /\ Tail(todo) \in Seq(Txs)
  BY HeadTailProperties

LEMMA ReplacedHead ==
    ASSUME NEW u \in Txs, NEW s \in Seq(Txs)
    PROVE  /\ <<u>> \o s \in Seq(Txs)
           /\ <<u>> \o s # <<>>
           /\ Head(<<u>> \o s) = u
<1>1. <<u>> \in Seq(Txs) /\ Len(<<u>>) = 1
  OBVIOUS
<1>2. <<u>> \o s \in Seq(Txs) /\ Len(<<u>> \o s) = 1 + Len(s)
  BY <1>1, ConcatProperties
<1>3. (<<u>> \o s)[1] = u
  BY <1>1, ConcatProperties
<1>4. Len(s) \in Nat
  BY LenProperties
<1>5. <<u>> \o s # <<>>
  BY <1>2, <1>4
<1> QED
  BY <1>2, <1>3, <1>5, HeadTailProperties

-----------------------------------------------------------------------------
(* Type correctness.                                                        *)

Budgets == [{"submit", "crash", "cut", "mixup"} -> Nat]

LEMMA SpendType ==
    ASSUME budget \in Budgets, NEW what \in {"submit", "crash", "cut", "mixup"}, Spend(what)
    PROVE  budget' \in Budgets
<1>1. budget[what] - 1 \in Nat
  BY DEF Spend, Budgets
<1> QED
  BY <1>1 DEF Spend, Budgets

\* What holds of the accounts.
AccOK ==
    /\ acc \in [TestAccounts -> Account \cup {NoAccount}]
    /\ proc \in {"idle", "proposing", "receiving"} =>
          \A a \in TestAccounts : acc[a] # NoAccount

\* What holds of the loop.
LoopOK ==
    /\ todo \in Seq(Txs)
    /\ txns \subseteq Txs
    /\ stage \in {"read", "fetching", "mixed", "debited", "credited"}
    /\ toAcc \in Account \cup {NoAccount}
    /\ stage # "read" => proc \in {"proposing", "receiving"} /\ todo # <<>>
    /\ stage = "debited" <=> toAcc # NoAccount

RestOK ==
    /\ proc \in {"down", "panicked", "booting", "idle", "proposing", "receiving"}
    /\ executed \subseteq Txs
    /\ mempool \subseteq Txs
    /\ debits \in [Txs -> Nat]
    /\ credits \in [Txs -> Nat]
    /\ listed \in [Txs -> Nat]
    /\ budget \in Budgets

LEMMA TypeParts == TypeOK <=> AccOK /\ LoopOK /\ RestOK
  BY DEF TypeOK, AccOK, LoopOK, RestOK, Budgets

LEMMA InitType == Init => TypeOK
<1> SUFFICES ASSUME Init PROVE AccOK /\ LoopOK /\ RestOK
  BY TypeParts
<1>1. AccOK
  BY DEF Init, AccOK
<1>2. LoopOK
  BY EmptySeq DEF Init, LoopOK
<1>3. budget \in Budgets
  BY LedgerAssumption DEF Init, Budgets
<1>4. RestOK
  BY <1>3 DEF Init, RestOK
<1> QED
  BY <1>1, <1>2, <1>4

LEMMA DieLoop ==
    ASSUME NEW as, Die(as)
    PROVE  LoopOK'
  BY EmptySeq DEF Die, LoopOK

LEMMA UnpoolType ==
    ASSUME NEW t \in Txs, Unpool(t), mempool \subseteq Txs
    PROVE  mempool' \subseteq Txs
  BY DEF Unpool

LEMMA AbandonLoop ==
    ASSUME NEW t, Abandon(t)
    PROVE  LoopOK'
  BY EmptySeq DEF Abandon, LoopOK

LEMMA BootType == TypeOK /\ Boot => TypeOK'
<1> SUFFICES ASSUME AccOK, LoopOK, RestOK, Boot PROVE AccOK' /\ LoopOK' /\ RestOK'
  BY TypeParts DEF TypeOK, AccOK, LoopOK, RestOK, Budgets
<1>1. CASE Start
  BY <1>1 DEF Start, disk, loop, history, AccOK, LoopOK, RestOK
<1>2. CASE Ready
  BY <1>2 DEF Ready, Known, disk, loop, history, AccOK, LoopOK, RestOK
<1>3. ASSUME NEW a \in TestAccounts, OpenAccount(a)
      PROVE  AccOK' /\ LoopOK' /\ RestOK'
  <2>1. [balance |-> InitialBalance, nonce |-> 0] \in Account
    BY LedgerAssumption DEF Account
  <2>2. AccOK'
    BY <1>3, <2>1, LedgerAssumption DEF OpenAccount, AccOK
  <2>3. LoopOK' /\ RestOK'
    BY <1>3 DEF OpenAccount, loop, history, LoopOK, RestOK
  <2> QED
    BY <2>2, <2>3
<1> QED
  BY <1>1, <1>2, <1>3 DEF Boot

LEMMA OutsideType ==
    ASSUME TypeOK,
           Crash \/ BeginProposal \/ BeginBlock \/ \E t \in Txs : CreateTx(t)
    PROVE  TypeOK'
<1> SUFFICES AccOK' /\ LoopOK' /\ RestOK'
  BY TypeParts DEF TypeOK, AccOK, LoopOK, RestOK, Budgets
<1> USE TypeParts
<1>1. CASE Crash
  <2>1. budget' \in Budgets
    BY <1>1, SpendType DEF Crash, RestOK
  <2>2. AccOK' /\ RestOK'
    BY <1>1, <2>1 DEF Crash, Die, disk, history, AccOK, RestOK
  <2>3. LoopOK'
    BY <1>1, DieLoop DEF Crash
  <2> QED
    BY <2>2, <2>3
<1>2. CASE BeginProposal
  <2>1. todo' \in Seq(Txs)
    BY <1>2, ListsOfTxs DEF BeginProposal, RestOK
  <2>2. LoopOK'
    BY <1>2, <2>1 DEF BeginProposal, LoopOK
  <2>3. AccOK' /\ RestOK'
    BY <1>2 DEF BeginProposal, disk, history, AccOK, RestOK
  <2> QED
    BY <2>2, <2>3
<1>3. CASE BeginBlock
  <2>1. todo' \in Seq(Txs)
    BY <1>3, BlockListsOfTxs DEF BeginBlock
  <2>2. LoopOK'
    BY <1>3, <2>1 DEF BeginBlock, LoopOK
  <2>3. AccOK' /\ RestOK'
    BY <1>3 DEF BeginBlock, disk, history, AccOK, RestOK
  <2> QED
    BY <2>2, <2>3
<1>4. ASSUME NEW t \in Txs, CreateTx(t)
      PROVE  AccOK' /\ LoopOK' /\ RestOK'
  <2>1. budget' \in Budgets
    BY <1>4, SpendType DEF CreateTx, RestOK
  <2> QED
    BY <1>4, <2>1 DEF CreateTx, disk, loop, history, AccOK, LoopOK, RestOK
<1> QED
  BY <1>1, <1>2, <1>3, <1>4

\* The accounts that a debit reads and writes.
LEMMA DebitAccounts ==
    ASSUME AccOK, NEW t \in Txs, Debit(t)
    PROVE  /\ t.from \in TestAccounts /\ t.to \in TestAccounts
           /\ acc[t.from] \in Account /\ acc[t.to] \in Account
           /\ t.amount \in Nat
           /\ Charged(acc[t.from], t.amount) \in Account
           /\ toAcc' = Paid(acc[t.to], t.amount)
           /\ toAcc' \in Account
           /\ acc' = [acc EXCEPT ![t.from] = Charged(acc[t.from], t.amount)]
<1>1. /\ t.from \in TestAccounts /\ t.to \in TestAccounts
      /\ acc[t.from] \in Account /\ acc[t.to] \in Account
  BY DEF Debit, Known, AccOK
<1>2. t.amount \in Nat
  BY LedgerAssumption
<1>3. acc[t.from].balance >= t.amount
  BY DEF Debit, Covered
<1>4. Charged(acc[t.from], t.amount) \in Account
  BY <1>1, <1>2, <1>3 DEF Charged, Account
<1>5. toAcc' = Paid(acc[t.to], t.amount)
  BY DEF Debit
<1>6. Paid(acc[t.to], t.amount) \in Account
  BY <1>1, <1>2 DEF Paid, Account
<1>7. acc' = [acc EXCEPT ![t.from] = Charged(acc[t.from], t.amount)]
  BY DEF Debit
<1> QED
  BY <1>1, <1>2, <1>4, <1>5, <1>6, <1>7

LEMMA ProcessType ==
    ASSUME TypeOK, NEW t \in Txs, Process(t)
    PROVE  TypeOK'
<1> SUFFICES AccOK' /\ LoopOK' /\ RestOK'
  BY TypeParts DEF TypeOK, AccOK, LoopOK, RestOK, Budgets
<1> USE TypeParts
<1>0. At(t) => Tail(todo) \in Seq(Txs) /\ proc \in {"proposing", "receiving"}
  BY TodoShrinks DEF At, LoopOK
<1>1. CASE SkipExecuted(t)
  BY <1>0, <1>1 DEF SkipExecuted, disk, history, AccOK, LoopOK, RestOK
<1>2. CASE Fetch(t)
  BY <1>2 DEF Fetch, At, disk, history, AccOK, LoopOK, RestOK
<1>3. CASE FetchNil(t) \/ CreditPanics(t) \/ RecordPanics(t)
  <2>1. LoopOK'
    BY <1>3, DieLoop DEF FetchNil, CreditPanics, RecordPanics
  <2>2. budget' \in Budgets
    BY <1>3, SpendType DEF FetchNil, CreditPanics, RecordPanics, RestOK
  <2> QED
    BY <1>3, <2>1, <2>2 DEF FetchNil, CreditPanics, RecordPanics, Die, disk, history, AccOK, RestOK
<1>4. CASE FetchTimeout(t) \/ MissingAccount(t)
  <2>1. LoopOK' /\ At(t)
    BY <1>4, AbandonLoop DEF FetchTimeout, MissingAccount, Has
  <2>2. mempool' \subseteq Txs
    BY <1>4, UnpoolType DEF FetchTimeout, MissingAccount, Abandon, RestOK
  <2> QED
    BY <1>0, <1>4, <2>1, <2>2
      DEF FetchTimeout, MissingAccount, Abandon, disk, history, AccOK, RestOK
<1>5. CASE SkipPoor(t)
  <2>1. At(t) /\ stage \in {"read", "fetching", "mixed"}
    BY <1>5 DEF SkipPoor, Has
  <2>2. mempool' \subseteq Txs
    BY <1>5, UnpoolType DEF SkipPoor, RestOK
  <2> QED
    BY <1>0, <1>5, <2>1, <2>2 DEF SkipPoor, disk, history, AccOK, LoopOK, RestOK
<1>6. CASE Debit(t)
  <2>1. At(t)
    BY <1>6 DEF Debit, Has
  <2>2. AccOK'
    BY <1>6, DebitAccounts, LedgerAssumption DEF Debit, AccOK
  <2>3. LoopOK'
    BY <1>6, <2>1, DebitAccounts, LedgerAssumption DEF Debit, At, LoopOK
  <2>4. RestOK'
    BY <1>6 DEF Debit, RestOK
  <2> QED
    BY <2>2, <2>3, <2>4
<1>7. CASE Credit(t)
  <2>1. toAcc \in Account
    BY <1>7 DEF Credit, LoopOK
  <2>2. AccOK'
    BY <1>7, <2>1, LedgerAssumption DEF Credit, AccOK
  <2>3. LoopOK'
    BY <1>7 DEF Credit, At, LoopOK
  <2>4. RestOK'
    BY <1>7 DEF Credit, RestOK
  <2> QED
    BY <2>2, <2>3, <2>4
<1>8. CASE Record(t)
  BY <1>0, <1>8 DEF Record, history, AccOK, LoopOK, RestOK
<1>9. CASE Mixup(t)
  <2>1. budget' \in Budgets
    BY <1>9, SpendType DEF Mixup, RestOK
  <2>2. PICK u \in Txs : todo' = <<u>> \o Tail(todo)
    BY <1>9 DEF Mixup
  <2>3. At(t) /\ toAcc = NoAccount
    BY <1>9 DEF Mixup, LoopOK
  <2>4. todo' \in Seq(Txs) /\ todo' # <<>>
    BY <1>0, <2>2, <2>3, ReplacedHead
  <2>5. LoopOK'
    BY <1>0, <1>9, <2>3, <2>4 DEF Mixup, LoopOK
  <2> QED
    BY <1>9, <2>1, <2>5 DEF Mixup, disk, history, AccOK, RestOK
<1> QED
  BY <1>1, <1>2, <1>3, <1>4, <1>5, <1>6, <1>7, <1>8, <1>9 DEF Process

LEMMA FinishType ==
    ASSUME TypeOK, FinishProposal \/ FinishBlock
    PROVE  TypeOK'
<1> SUFFICES AccOK' /\ LoopOK' /\ RestOK'
  BY TypeParts DEF TypeOK, AccOK, LoopOK, RestOK, Budgets
<1> USE TypeParts
<1>1. CASE FinishProposal
  BY <1>1 DEF FinishProposal, disk, AccOK, LoopOK, RestOK
<1>2. CASE FinishBlock
  BY <1>2 DEF FinishBlock, disk, loop, history, AccOK, LoopOK, RestOK
<1> QED
  BY <1>1, <1>2

LEMMA StepType == TypeOK /\ [Next]_vars => TypeOK'
<1> SUFFICES ASSUME TypeOK, [Next]_vars PROVE TypeOK'
  OBVIOUS
<1>1. CASE Next
  BY <1>1, BootType, OutsideType, ProcessType, FinishType DEF Next, Work
<1>2. CASE UNCHANGED vars
  BY <1>2 DEF vars, disk, loop, history, TypeOK
<1> QED
  BY <1>1, <1>2

\* No balance falls below zero, and a loop only runs over accounts that exist.
THEOREM LedgerTypeCorrect == Spec => []TypeOK
<1> QED
  BY InitType, StepType, PTL DEF Spec

-----------------------------------------------------------------------------
(* What a step does to the tries and to the transaction in flight.          *)

\* A loop is between the first save and the last for t.
InFlight(t) == stage \in {"debited", "credited"} /\ t = Head(todo)

Still ==
    /\ UNCHANGED <<disk, history, todo, txns, stage, toAcc, budget.cut, budget.mixup>>
    /\ stage # "read" => proc' = proc

\* No transaction is in flight, before and after.
Settled ==
    /\ UNCHANGED <<disk, history, budget.cut, budget.mixup>>
    /\ stage \notin {"debited", "credited"}
    /\ \/ stage' = "read"
       \/ stage' = "fetching" /\ Head(todo') \notin executed /\ proc' = "receiving"
    /\ txns' \subseteq txns

\* The process dies while a loop runs, or while the accounts are opened.
CutShort ==
    /\ UNCHANGED <<disk, history, budget.mixup>>
    /\ budget.cut > 0 /\ budget'.cut = budget.cut - 1
    /\ stage' = "read"
    /\ txns' = {}

\* The process dies of the save of an ID that the trie has.
Repeated ==
    /\ UNCHANGED <<disk, history, budget>>
    /\ stage = "credited" /\ Head(todo) \in executed
    /\ stage' = "read"
    /\ txns' = {}

Effect ==
    \/ Still \/ Settled \/ CutShort \/ Repeated
    \/ \E a \in TestAccounts : OpenAccount(a)
    \/ \E t \in Txs : Debit(t) \/ Credit(t) \/ Record(t) \/ Mixup(t)
    \/ FinishProposal

LEMMA FinishedLoop == TypeOK /\ FinishBlock => stage = "read"
  BY DEF TypeOK, FinishBlock

LEMMA StepEffect == TypeOK /\ [Next]_vars => Effect
<1> SUFFICES ASSUME TypeOK, [Next]_vars PROVE Effect
  OBVIOUS
<1>1. /\ budget \in Budgets
      /\ proc \in {"down", "panicked", "idle", "booting"} => stage = "read"
  BY DEF TypeOK, Budgets
<1>2. CASE Start \/ Ready \/ FinishBlock \/ UNCHANGED vars
  <2>1. stage # "read" => proc' = proc
    BY <1>1, <1>2, FinishedLoop DEF Start, Ready, FinishBlock, vars
  <2> QED
    BY <1>2, <2>1 DEF Start, Ready, FinishBlock, vars, disk, loop, history, Effect, Still
<1>3. CASE Crash
  <2>1. CASE proc = "idle" /\ Spend("crash")
    <3>1. budget'.cut = budget.cut /\ budget'.mixup = budget.mixup
      BY <1>1, <2>1 DEF Spend, Budgets
    <3>2. Settled
      BY <1>1, <1>3, <2>1, <3>1 DEF Crash, Die, disk, history, Settled
    <3> QED
      BY <3>2 DEF Effect
  <2>2. CASE proc \in {"booting", "proposing", "receiving"} /\ Spend("cut")
    <3>1. /\ budget.cut > 0 /\ budget'.cut = budget.cut - 1
          /\ budget'.mixup = budget.mixup
      BY <1>1, <2>2 DEF Spend, Budgets
    <3>2. CutShort
      BY <1>3, <3>1 DEF Crash, Die, disk, history, CutShort
    <3> QED
      BY <3>2 DEF Effect
  <2> QED
    BY <1>3, <2>1, <2>2 DEF Crash
<1>4. CASE BeginProposal \/ BeginBlock
  <2>1. Settled
    BY <1>1, <1>4 DEF BeginProposal, BeginBlock, disk, history, Settled
  <2> QED
    BY <2>1 DEF Effect
<1>5. ASSUME NEW t \in Txs, CreateTx(t)
      PROVE  Effect
  <2>1. budget'.cut = budget.cut /\ budget'.mixup = budget.mixup
    BY <1>1, <1>5 DEF CreateTx, Spend, Budgets
  <2>2. Still
    BY <1>5, <2>1 DEF CreateTx, disk, loop, history, Still
  <2> QED
    BY <2>2 DEF Effect
<1>6. ASSUME NEW t \in Txs,
             \/ SkipExecuted(t) \/ Fetch(t) \/ FetchNil(t) \/ FetchTimeout(t)
             \/ MissingAccount(t) \/ SkipPoor(t)
      PROVE  Effect
  <2>1. Settled
    BY <1>6 DEF SkipExecuted, Fetch, FetchNil, FetchTimeout, MissingAccount,
                SkipPoor, Has, At, Exists, Die, Abandon, disk, history, Settled
  <2> QED
    BY <2>1 DEF Effect
<1>7. ASSUME NEW t \in Txs, CreditPanics(t)
      PROVE  Effect
  <2>1. /\ budget.cut > 0 /\ budget'.cut = budget.cut - 1
        /\ budget'.mixup = budget.mixup
    BY <1>1, <1>7 DEF CreditPanics, Spend, Budgets
  <2>2. CutShort
    BY <1>7, <2>1 DEF CreditPanics, Die, disk, history, CutShort
  <2> QED
    BY <2>2 DEF Effect
<1>8. ASSUME NEW t \in Txs, RecordPanics(t)
      PROVE  Effect
  BY <1>8 DEF RecordPanics, At, Exists, Die, disk, history, Repeated, Effect
<1> QED
  BY <1>2, <1>3, <1>4, <1>5, <1>6, <1>7, <1>8 DEF Next, Boot, Work, Process, Effect

-----------------------------------------------------------------------------
(* What is executed once.                                                   *)

\* A block under construction lists what is executed and not yet listed, and
\* a transaction that the loop has looked up is not executed, unless a block
\* is received and a fetch was mixed up.
ListInv ==
    /\ stage = "fetching" => proc = "receiving" /\ Head(todo) \notin executed
    /\ stage # "read" => \/ Head(todo) \notin executed
                         \/ proc = "receiving" /\ budget.mixup < MaxMixups
    /\ ListedAreExecuted
    /\ ListedOnce
    /\ \A t \in txns : t \in executed /\ listed[t] = 0

\* The transaction that a mixed-up fetch put in the place of another, until
\* it is debited.
Pending(t) == stage = "mixed" /\ t = Head(todo)

\* A debit is of an executed transaction, of the one in flight, of one that a
\* death cut, or of one that a mixed-up fetch returned.
CutInv ==
    /\ budget.cut <= MaxCuts
    /\ budget.mixup <= MaxMixups
    /\ \A t \in Txs :
          debits[t] + (IF Pending(t) THEN 1 ELSE 0)
             <= (MaxCuts - budget.cut) + (MaxMixups - budget.mixup)
                  + (IF t \in executed \/ InFlight(t) THEN 1 ELSE 0)

LEMMA InitLists == Init => ListInv /\ CutInv
<1> SUFFICES ASSUME Init PROVE ListInv /\ CutInv
  OBVIOUS
<1>1. budget.cut = MaxCuts /\ budget.mixup = MaxMixups
  BY DEF Init
<1>2. ListInv
  BY DEF Init, ListInv, InFlight, ListedAreExecuted, ListedOnce
<1>3. CutInv
  BY <1>1, LedgerAssumption DEF Init, CutInv, InFlight, Pending
<1> QED
  BY <1>2, <1>3

LEMMA MixupEffect ==
    ASSUME TypeOK, ListInv, NEW t \in Txs, Mixup(t)
    PROVE  /\ stage = "fetching" /\ stage' = "mixed"
           /\ proc = "receiving" /\ proc' = proc
           /\ todo # <<>> /\ \E u \in Txs : todo' = <<u>> \o Tail(todo) /\ Head(todo') = u
           /\ budget.mixup > 0 /\ budget'.mixup = budget.mixup - 1
           /\ budget'.cut = budget.cut
<1>1. budget \in Budgets /\ todo \in Seq(Txs)
  BY DEF TypeOK, Budgets
<1>2. todo # <<>> /\ Tail(todo) \in Seq(Txs)
  BY <1>1, TodoShrinks DEF Mixup, At
<1>3. \E u \in Txs : todo' = <<u>> \o Tail(todo) /\ Head(todo') = u
  BY <1>2, ReplacedHead DEF Mixup
<1>4. budget.mixup > 0 /\ budget'.mixup = budget.mixup - 1 /\ budget'.cut = budget.cut
  BY <1>1 DEF Mixup, Spend, Budgets
<1>5. stage = "fetching" /\ stage' = "mixed" /\ proc' = proc
  BY DEF Mixup
<1>6. proc = "receiving"
  BY <1>5 DEF ListInv
<1> QED
  BY <1>2, <1>3, <1>4, <1>5, <1>6

LEMMA StepLists == TypeOK /\ ListInv /\ CutInv /\ [Next]_vars => ListInv'
<1> SUFFICES ASSUME TypeOK, ListInv, CutInv, Effect PROVE ListInv'
  BY StepEffect
<1>0. ASSUME NEW t \in Txs, Mixup(t)
      PROVE  /\ stage' = "mixed" /\ proc' = "receiving"
             /\ budget'.mixup < MaxMixups
  <2>1. /\ stage' = "mixed" /\ proc' = "receiving"
        /\ budget'.mixup = budget.mixup - 1
    BY <1>0, MixupEffect
  <2>2. budget.mixup \in Nat /\ budget.mixup <= MaxMixups /\ MaxMixups \in Nat
    BY LedgerAssumption DEF TypeOK, CutInv
  <2> QED
    BY <2>1, <2>2
<1> USE DEF ListInv, InFlight, ListedAreExecuted, ListedOnce, disk, history
<1>1. CASE Still \/ Settled \/ CutShort \/ Repeated
  BY <1>1 DEF Still, Settled, CutShort, Repeated
<1>2. ASSUME NEW a \in TestAccounts, OpenAccount(a)
      PROVE  ListInv'
  BY <1>2 DEF OpenAccount, loop, TypeOK
<1>3. ASSUME NEW t \in Txs, Debit(t)
      PROVE  ListInv'
  <2>1. stage # "read" \/ t \notin executed
    BY <1>3 DEF Debit, Has, Exists
  <2> QED
    BY <1>3, <2>1 DEF Debit, Has, At
<1>4. ASSUME NEW t \in Txs, Credit(t)
      PROVE  ListInv'
  BY <1>4 DEF Credit
<1>5. ASSUME NEW t \in Txs, Record(t)
      PROVE  ListInv'
  <2>1. t \notin executed => listed[t] = 0
    BY <1>5 DEF TypeOK
  <2>2. proc = "proposing" => t \notin executed
    BY <1>5 DEF Record, At
  <2> QED
    BY <1>5, <2>1, <2>2 DEF Record
<1>6. CASE FinishProposal
  BY <1>6 DEF FinishProposal, TypeOK
<1>7. ASSUME NEW t \in Txs, Mixup(t)
      PROVE  ListInv'
  BY <1>0, <1>7 DEF Mixup
<1> QED
  BY <1>1, <1>2, <1>3, <1>4, <1>5, <1>6, <1>7 DEF Effect

\* How a step moves the two sides of CutInv.
LEMMA StepCuts == TypeOK /\ ListInv /\ CutInv /\ [Next]_vars => CutInv'
<1> SUFFICES ASSUME TypeOK, ListInv, CutInv, Effect PROVE CutInv'
  BY StepEffect
<1>0. /\ MaxCuts \in Nat /\ budget.cut \in Nat
      /\ MaxMixups \in Nat /\ budget.mixup \in Nat
      /\ debits \in [Txs -> Nat]
      /\ budget.cut <= MaxCuts /\ budget.mixup <= MaxMixups
  BY LedgerAssumption DEF TypeOK, CutInv
<1> DEFINE Done(t) == t \in executed \/ InFlight(t)
<1> DEFINE Spent == (MaxCuts - budget.cut) + (MaxMixups - budget.mixup)
<1> DEFINE Bound(t) ==
      debits[t] + (IF Pending(t) THEN 1 ELSE 0) <= Spent + (IF Done(t) THEN 1 ELSE 0)
<1>1. \A t \in Txs : Bound(t)
  BY DEF CutInv
<1>2. ASSUME budget'.cut \in Nat, budget'.cut <= MaxCuts,
             budget'.mixup \in Nat, budget'.mixup <= MaxMixups,
             \A t \in Txs : Bound(t)'
      PROVE  CutInv'
  BY <1>2 DEF CutInv
\* Nothing is debited, and nothing that was done is undone.
<1>3. ASSUME debits' = debits,
             budget'.cut \in Nat, budget'.cut <= budget.cut,
             budget'.mixup \in Nat, budget'.mixup = budget.mixup,
             \A t \in Txs : Pending(t)' => Pending(t),
             \A t \in Txs : Done(t) => Done(t)'
      PROVE  CutInv'
  <2> HIDE DEF Done
  <2>1. ASSUME NEW t \in Txs PROVE Bound(t)'
    <3>1. debits[t] \in Nat /\ Bound(t)
      BY <1>0, <1>1
    <3>2. (Pending(t)' => Pending(t)) /\ (Done(t) => Done(t)')
      BY <1>3
    <3> QED
      BY <1>0, <1>3, <3>1, <3>2
  <2> QED
    BY <1>0, <1>2, <1>3, <2>1
<1>4. CASE Still
  BY <1>0, <1>3, <1>4 DEF Still, disk, history, InFlight, Pending
<1>5. CASE Settled
  BY <1>0, <1>3, <1>5 DEF Settled, disk, history, InFlight, Pending
<1>6. CASE CutShort
  <2>1. \A t \in Txs : Done(t)' => Done(t)
    BY <1>6 DEF CutShort, disk, InFlight
  <2>2. \A t \in Txs : ~Pending(t)'
    BY <1>6 DEF CutShort, Pending
  <2>3. budget'.cut = budget.cut - 1 /\ budget.cut > 0 /\ budget'.mixup = budget.mixup
    BY <1>6 DEF CutShort
  <2>4. debits' = debits /\ \A t \in Txs : t \in executed => t \in executed'
    BY <1>6 DEF CutShort, disk, history
  <2> HIDE DEF Done
  <2>5. ASSUME NEW t \in Txs PROVE debits'[t] <= Spent'
    <3>1. debits[t] \in Nat /\ Bound(t)
      BY <1>0, <1>1
    <3> QED
      BY <1>0, <2>3, <2>4, <3>1
  <2>6. ASSUME NEW t \in Txs PROVE Bound(t)'
    <3>1. debits'[t] \in Nat /\ debits'[t] <= Spent'
      BY <1>0, <2>4, <2>5
    <3>2. Spent' \in Nat
      BY <1>0, <2>3
    <3> QED
      BY <2>2, <3>1, <3>2
  <2> QED
    BY <1>0, <1>2, <2>3, <2>6
<1>7. ASSUME NEW a \in TestAccounts, OpenAccount(a)
      PROVE  CutInv'
  BY <1>7 DEF OpenAccount, loop, history, CutInv, InFlight, Pending
<1>8. ASSUME NEW u \in Txs, Debit(u)
      PROVE  CutInv'
  <2>1. /\ stage \notin {"debited", "credited"} /\ u = Head(todo)
        /\ u \notin executed \/ Pending(u) \/ (stage = "fetching" /\ proc = "receiving")
    BY <1>8 DEF Debit, Has, At, Exists, ListInv, Pending
  <2>2. Done(u)' /\ ~Pending(u)'
    BY <1>8, <2>1 DEF Debit, InFlight, Pending
  <2>3. \A t \in Txs : t # u => (Done(t)' <=> Done(t)) /\ ~Pending(t)'
    BY <1>8, <2>1 DEF Debit, InFlight, Pending
  <2>4. budget' = budget /\ debits' = [debits EXCEPT ![u] = debits[u] + 1]
    BY <1>8 DEF Debit
  <2>5. Pending(u) \/ ~Done(u)
    BY <1>8, <2>1 DEF InFlight, ListInv
  <2> HIDE DEF Done
  <2>6. \A t \in Txs : debits'[t] = IF t = u THEN debits[t] + 1 ELSE debits[t]
    BY <1>0, <2>4
  <2>7. ASSUME NEW t \in Txs PROVE Bound(t)'
    <3>1. debits[t] \in Nat /\ Bound(t) /\ Spent' = Spent
      BY <1>0, <1>1, <2>4
    <3>2. CASE t = u
      BY <1>0, <2>2, <2>5, <2>6, <3>1, <3>2
    <3>3. CASE t # u
      BY <1>0, <2>3, <2>6, <3>1, <3>3
    <3> QED
      BY <3>2, <3>3
  <2> QED
    BY <1>0, <1>2, <2>4, <2>7
<1>9. ASSUME NEW u \in Txs, Credit(u) \/ Record(u)
      PROVE  CutInv'
  <2>1. \A t \in Txs : Done(t) => Done(t)'
    BY <1>9 DEF Credit, Record, At, InFlight
  <2>2. UNCHANGED <<debits, budget>> /\ \A t \in Txs : ~Pending(t)'
    BY <1>9 DEF Credit, Record, history, Pending
  <2> HIDE DEF Done
  <2> QED
    BY <1>0, <1>3, <2>1, <2>2
<1>10. CASE FinishProposal
  BY <1>10 DEF FinishProposal, disk, CutInv, InFlight, Pending
<1>11. ASSUME NEW t0 \in Txs, Mixup(t0)
       PROVE  CutInv'
  <2>1. debits' = debits /\ executed' = executed
    BY <1>11 DEF Mixup, disk, history
  <2>2. \A t \in Txs : Done(t) <=> Done(t)'
    BY <1>11, <2>1, MixupEffect DEF InFlight
  <2>3. /\ budget.mixup > 0 /\ budget'.mixup = budget.mixup - 1
        /\ budget'.cut = budget.cut
        /\ \A t \in Txs : ~Pending(t)
    BY <1>11, MixupEffect DEF Pending
  <2> HIDE DEF Done
  <2>4. ASSUME NEW t \in Txs PROVE Bound(t)'
    <3>1. debits[t] \in Nat /\ Bound(t) /\ Spent' = Spent + 1
      BY <1>0, <1>1, <2>3
    <3> QED
      BY <1>0, <2>1, <2>2, <2>3, <3>1
  <2> QED
    BY <1>0, <1>2, <2>3, <2>4
<1>12. CASE Repeated
  <2>1. \A t \in Txs : Done(t) => Done(t)'
    BY <1>12 DEF Repeated, disk, InFlight
  <2>2. UNCHANGED <<debits, budget>> /\ \A t \in Txs : ~Pending(t)'
    BY <1>12 DEF Repeated, history, Pending
  <2> HIDE DEF Done
  <2> QED
    BY <1>0, <1>3, <2>1, <2>2
<1> QED
  BY <1>4, <1>5, <1>6, <1>7, <1>8, <1>9, <1>10, <1>11, <1>12 DEF Effect

LEMMA LedgerInvariance == Spec => [](TypeOK /\ ListInv /\ CutInv)
<1>1. Init => TypeOK /\ ListInv /\ CutInv
  BY InitType, InitLists
<1>2. TypeOK /\ ListInv /\ CutInv /\ [Next]_vars => (TypeOK /\ ListInv /\ CutInv)'
  BY StepType, StepLists, StepCuts
<1> QED
  BY <1>1, <1>2, PTL DEF Spec

\* No two blocks of a node list the same transaction, whatever is submitted
\* again and wherever the process dies.
THEOREM ListsOnce == Spec => []ListedOnce
<1>1. ListInv => ListedOnce
  BY DEF ListInv
<1> QED
  BY <1>1, LedgerInvariance, PTL

\* A saved block of a node lists executed transactions only.
THEOREM ListsExecuted == Spec => []ListedAreExecuted
<1>1. ListInv => ListedAreExecuted
  BY DEF ListInv
<1> QED
  BY <1>1, LedgerInvariance, PTL

\* A transaction is debited once, and once more for each death that cut a loop
\* and each fetch that was mixed up: without them the ledger never applies a
\* transaction twice.
THEOREM DebitsOnce == Spec => []OnceMorePerFault
<1>1. TypeOK /\ CutInv => OnceMorePerFault
  <2> SUFFICES ASSUME TypeOK, CutInv, NEW t \in Txs
               PROVE  debits[t] <= 1 + (MaxCuts - budget.cut) + (MaxMixups - budget.mixup)
    BY DEF OnceMorePerFault
  <2>1. /\ debits[t] \in Nat
        /\ budget.cut \in Nat /\ MaxCuts \in Nat
        /\ budget.mixup \in Nat /\ MaxMixups \in Nat
    BY LedgerAssumption DEF TypeOK
  <2> QED
    BY <2>1 DEF CutInv
<1> QED
  BY <1>1, LedgerInvariance, PTL

-----------------------------------------------------------------------------
(* Refinement: between deaths, a transfer is one step.                      *)

\* The copy of the recipient is what the trie has, amount added.
CopyInv ==
    LET t == Head(todo)
    IN  stage = "debited" =>
              /\ t.to \in TestAccounts
              /\ acc[t.to] # NoAccount
              /\ acc[t.from].nonce > 0
              /\ t.from # t.to => toAcc = Paid(acc[t.to], t.amount)

\* No process dies in a loop, no fetch is mixed up, and nobody pays himself.
Undisturbed == MaxCuts = 0 /\ MaxMixups = 0 /\ \A t \in Txs : t.from # t.to

LEMMA StepCopy ==
    ASSUME TypeOK, CopyInv, [Next]_vars, Undisturbed, budget.cut = 0, budget.mixup = 0
    PROVE  CopyInv'
<1> USE DEF CopyInv
<1>1. Effect
  BY StepEffect
<1>2. CASE Still \/ Settled \/ CutShort \/ Repeated
  BY <1>2 DEF Still, Settled, CutShort, Repeated, disk
<1>3. ASSUME NEW a \in TestAccounts, OpenAccount(a)
      PROVE  CopyInv'
  BY <1>3 DEF OpenAccount, loop, TypeOK
<1>4. ASSUME NEW t \in Txs, Debit(t)
      PROVE  CopyInv'
  <2>1. /\ t.from \in TestAccounts /\ t.to \in TestAccounts /\ t.from # t.to
        /\ acc[t.from] \in Account /\ acc[t.to] # NoAccount
        /\ toAcc' = Paid(acc[t.to], t.amount)
        /\ acc' = [acc EXCEPT ![t.from] = Charged(acc[t.from], t.amount)]
    BY <1>4, DebitAccounts, TypeParts, LedgerAssumption DEF Undisturbed, Debit, Known
  <2>2. acc'[t.to] = acc[t.to] /\ acc'[t.from] = Charged(acc[t.from], t.amount)
    BY <2>1 DEF TypeOK
  <2>3. acc'[t.from].nonce = acc[t.from].nonce + 1 /\ acc[t.from].nonce \in Nat
    BY <2>1, <2>2 DEF Charged, Account
  <2>4. t = Head(todo')
    BY <1>4 DEF Debit, Has, At
  <2> QED
    BY <2>1, <2>2, <2>3, <2>4
<1>5. ASSUME NEW t \in Txs, Credit(t) \/ Record(t)
      PROVE  CopyInv'
  BY <1>5 DEF Credit, Record
<1>6. CASE FinishProposal
  BY <1>6 DEF FinishProposal, disk
<1>7. ASSUME NEW t \in Txs, Mixup(t)
      PROVE  CopyInv'
  BY <1>7 DEF Mixup
<1> QED
  BY <1>1, <1>2, <1>3, <1>4, <1>5, <1>6, <1>7 DEF Effect

LEMMA SeenAtRest ==
    ASSUME TypeOK, stage # "debited"
    PROVE  SeenAccount = acc
  BY DEF SeenAccount, TypeOK

LEMMA SeenAfterRest ==
    ASSUME TypeOK', stage' # "debited"
    PROVE  SeenAccount' = acc'
  BY DEF SeenAccount, TypeOK

LEMMA StepAtomic ==
    ASSUME TypeOK, TypeOK', ListInv, CopyInv, Undisturbed, [Next]_vars,
           budget.cut = 0, budget.mixup = 0
    PROVE  \/ \E a \in TestAccounts : Atomic!Open(a)
           \/ \E t \in Txs : Atomic!Transfer(t)
           \/ SeenAccount' = SeenAccount /\ SeenExecuted' = SeenExecuted
<1>0. Effect
  BY StepEffect
<1>1. CASE Still
  BY <1>1 DEF Still, disk, SeenAccount, SeenExecuted, Undone
<1>2. CASE Settled
  <2>1. SeenAccount = acc /\ SeenAccount' = acc'
    BY <1>2, SeenAtRest, SeenAfterRest DEF Settled
  <2> QED
    BY <1>2, <2>1 DEF Settled, disk, SeenExecuted
<1>3. CASE CutShort
  BY <1>3 DEF CutShort
<1>4. ASSUME NEW a \in TestAccounts, OpenAccount(a)
      PROVE  Atomic!Open(a)
  <2>1. stage = "read" /\ stage' = "read"
    BY <1>4 DEF OpenAccount, loop, TypeOK
  <2>2. SeenAccount = acc /\ SeenAccount' = acc'
    BY <2>1, SeenAtRest, SeenAfterRest
  <2> QED
    BY <1>4, <2>1, <2>2 DEF OpenAccount, Known, SeenExecuted, Atomic!Open, Atomic!NewAccount
<1>5. ASSUME NEW t \in Txs, Debit(t)
      PROVE  SeenAccount' = SeenAccount /\ SeenExecuted' = SeenExecuted
  <2>1. /\ t.from \in TestAccounts
        /\ acc[t.from] \in Account
        /\ t.amount \in Nat
        /\ acc' = [acc EXCEPT ![t.from] = Charged(acc[t.from], t.amount)]
    BY <1>5, DebitAccounts, TypeParts
  <2>2. /\ stage \in {"read", "fetching", "mixed"} /\ stage' = "debited"
        /\ t = Head(todo) /\ todo' = todo /\ executed' = executed
    BY <1>5 DEF Debit, Has, At
  <2>3. acc'[t.from] = Charged(acc[t.from], t.amount)
    BY <2>1 DEF TypeOK
  <2>4. Undone(t)' = acc[t.from]
    BY <2>1, <2>3 DEF Undone, Charged, Account
  <2>5. \A a \in TestAccounts : a # t.from => acc'[a] = acc[a]
    BY <2>1 DEF TypeOK
  <2>6. SeenAccount' = [a \in TestAccounts |-> acc[a]]
    BY <2>2, <2>4, <2>5 DEF SeenAccount
  <2>7. SeenAccount = [a \in TestAccounts |-> acc[a]]
    BY <2>2 DEF SeenAccount
  <2> QED
    BY <2>2, <2>6, <2>7 DEF SeenExecuted
<1>6. ASSUME NEW t \in Txs, Credit(t)
      PROVE  Atomic!Transfer(t)
  <2>1. /\ stage = "debited" /\ stage' = "credited"
        /\ t = Head(todo) /\ todo' = todo /\ executed' = executed
        /\ acc' = [acc EXCEPT ![t.to] = toAcc]
        /\ proc \in {"proposing", "receiving"}
    BY <1>6 DEF Credit, At
  <2>2. /\ t.from \in TestAccounts /\ t.to \in TestAccounts /\ t.from # t.to
        /\ acc[t.from] \in Account /\ acc[t.to] \in Account
        /\ toAcc = Paid(acc[t.to], t.amount)
        /\ acc[t.from].nonce > 0
        /\ t.amount \in Nat
    BY <2>1, LedgerAssumption DEF Undisturbed, CopyInv, TypeOK
  <2>3. /\ SeenAccount[t.from] = Undone(t) /\ SeenAccount[t.to] = acc[t.to]
        /\ \A a \in TestAccounts : a # t.from => SeenAccount[a] = acc[a]
    BY <2>1, <2>2 DEF SeenAccount
  <2>4. Undone(t) \in Account /\ Undone(t).balance >= t.amount
    BY <2>2 DEF Undone, Account
  <2>5. Charged(Undone(t), t.amount) = acc[t.from]
    BY <2>2 DEF Charged, Undone, Account
  <2>6. SeenAccount' = acc'
    BY <2>1, SeenAfterRest
  <2>7. SeenAccount' = [SeenAccount EXCEPT
                          ![t.from] = Charged(SeenAccount[t.from], t.amount),
                          ![t.to] = Paid(SeenAccount[t.to], t.amount)]
    <3>1. acc' = [a \in TestAccounts |->
                    IF a = t.to THEN Paid(acc[t.to], t.amount) ELSE acc[a]]
      BY <2>1, <2>2 DEF TypeOK
    <3>2. SeenAccount \in [TestAccounts -> {SeenAccount[a] : a \in TestAccounts}]
      BY DEF SeenAccount
    <3> QED
      BY <2>2, <2>3, <2>5, <2>6, <3>1, <3>2
  <2>8. t \notin SeenExecuted /\ SeenExecuted' = SeenExecuted \cup {t}
    BY <2>1 DEF ListInv, SeenExecuted, Undisturbed
  <2>9. SeenAccount[t.from] # NoAccount /\ SeenAccount[t.to] # NoAccount
    BY <2>2, <2>3, <2>4, LedgerAssumption
  <2> QED
    BY <2>2, <2>3, <2>4, <2>7, <2>8, <2>9 DEF Atomic!Transfer, Charged, Paid
<1>7. ASSUME NEW t \in Txs, Record(t)
      PROVE  SeenAccount' = SeenAccount /\ SeenExecuted' = SeenExecuted
  <2>1. /\ stage = "credited" /\ stage' = "read" /\ t = Head(todo)
        /\ acc' = acc /\ executed' = executed \cup {t}
    BY <1>7 DEF Record, At
  <2>2. SeenAccount = acc /\ SeenAccount' = acc'
    BY <2>1, SeenAtRest, SeenAfterRest
  <2> QED
    BY <2>1, <2>2 DEF SeenExecuted
<1>8. CASE FinishProposal
  <2>1. stage = "read" /\ stage' = "read"
    BY <1>8 DEF FinishProposal, TypeOK
  <2>2. SeenAccount = acc /\ SeenAccount' = acc'
    BY <2>1, SeenAtRest, SeenAfterRest
  <2> QED
    BY <1>8, <2>1, <2>2 DEF FinishProposal, disk, SeenExecuted
<1>9. ASSUME NEW t \in Txs, Mixup(t)
      PROVE  FALSE
  BY <1>9 DEF Mixup, Spend
<1>10. CASE Repeated
  <2>1. SeenAccount = acc /\ SeenAccount' = acc'
    BY <1>10, SeenAtRest, SeenAfterRest DEF Repeated
  <2> QED
    BY <1>10, <2>1 DEF Repeated, disk, SeenExecuted
<1> QED
  BY <1>0, <1>1, <1>2, <1>3, <1>4, <1>5, <1>6, <1>7, <1>8, <1>9, <1>10 DEF Effect

\* When no process dies in a loop, no fetch is mixed up and nobody pays himself,
\* the three saves of a transfer are one step of the abstract ledger.
THEOREM TransfersAreAtomic ==
    ASSUME Undisturbed
    PROVE  Spec => ImplementsAtomicLedger
<1>1. Init => Atomic!Init
  BY DEF Init, Atomic!Init, SeenAccount, SeenExecuted
<1>2. Init => CopyInv
  BY DEF Init, CopyInv
<1>3. /\ TypeOK /\ ListInv /\ CutInv /\ CopyInv
      /\ (TypeOK /\ ListInv /\ CutInv)' /\ [Next]_vars
      => CopyInv' /\ [Atomic!Next]_(Atomic!ledgerVars)
  <2> SUFFICES ASSUME TypeOK, ListInv, CutInv, CopyInv, TypeOK', [Next]_vars
               PROVE  CopyInv' /\ [Atomic!Next]_(Atomic!ledgerVars)
    OBVIOUS
  <2>1. budget.cut = 0 /\ budget.mixup = 0
    BY DEF TypeOK, CutInv, Undisturbed
  <2>2. CopyInv'
    BY <2>1, StepCopy
  <2>3. [Atomic!Next]_(Atomic!ledgerVars)
    BY <2>1, StepAtomic DEF Atomic!Next, Atomic!ledgerVars
  <2> QED
    BY <2>2, <2>3
<1> QED
  BY <1>1, <1>2, <1>3, LedgerInvariance, PTL
     DEF Spec, ImplementsAtomicLedger, Atomic!Spec


-----------------------------------------------------------------------------
(* The accounts add up.                                                     *)

From(a) == {t \in Txs : t.from = a}
To(a) == {t \in Txs : t.to = a}

\* What each transaction moves: d and c are how often it was debited and
\* credited.
Takes(a, d) == [t \in From(a) |-> t.amount * d[t]]
Gives(a, c) == [t \in To(a) |-> t.amount * c[t]]
Counts(a, d) == [t \in From(a) |-> d[t]]

TakenOf(a, d) == Total(LAMBDA t : t.amount * d[t], From(a))
GivenOf(a, c) == Total(LAMBDA t : t.amount * c[t], To(a))
CountOf(a, d) == Total(LAMBDA t : d[t], From(a))

\* The totals of AccountsAddUp are sums in the sense of Counting.
LEMMA FiniteSides == \A a : IsFiniteSet(From(a)) /\ IsFiniteSet(To(a))
  BY FS_Subset, LedgerAssumption DEF From, To

LEMMA TakenIsSum ==
    ASSUME NEW a, NEW d
    PROVE  \E g : Sums(g, Takes(a, d), From(a)) /\ TakenOf(a, d) = g[From(a)]
<1> DEFINE Eq(g) == g = [s \in SUBSET From(a) |->
                           IF s = {} THEN 0
                           ELSE Pick(s).amount * d[Pick(s)] + g[s \ {Pick(s)}]]
<1>1. TakenOf(a, d) = (CHOOSE g : Eq(g))[From(a)]
  BY DEF TakenOf, Total, MapThenSumSet, MapThenFoldSet, Pick
<1>2. \A s \in SUBSET From(a) : s # {} => Takes(a, d)[Pick(s)] = Pick(s).amount * d[Pick(s)]
  <2> SUFFICES ASSUME NEW s \in SUBSET From(a), s # {}
               PROVE  Takes(a, d)[Pick(s)] = Pick(s).amount * d[Pick(s)]
    OBVIOUS
  <2>1. Pick(s) \in From(a)
    BY FiniteSides, PickSmaller
  <2> QED
    BY <2>1 DEF Takes
<1>3. ASSUME NEW g, Sums(g, Takes(a, d), From(a))
      PROVE  Eq(g)
  BY <1>2, <1>3 DEF Sums
<1>4. ASSUME NEW g, Eq(g)
      PROVE  Sums(g, Takes(a, d), From(a))
  BY <1>2, <1>4 DEF Sums
<1> HIDE DEF Eq
<1>5. \E g : Eq(g)
  BY <1>3, FiniteSides, SumsExist
<1>6. Eq(CHOOSE g : Eq(g))
  BY <1>5
<1> QED
  BY <1>1, <1>4, <1>6

LEMMA GivenIsSum ==
    ASSUME NEW a, NEW c
    PROVE  \E g : Sums(g, Gives(a, c), To(a)) /\ GivenOf(a, c) = g[To(a)]
<1> DEFINE Eq(g) == g = [s \in SUBSET To(a) |->
                           IF s = {} THEN 0
                           ELSE Pick(s).amount * c[Pick(s)] + g[s \ {Pick(s)}]]
<1>1. GivenOf(a, c) = (CHOOSE g : Eq(g))[To(a)]
  BY DEF GivenOf, Total, MapThenSumSet, MapThenFoldSet, Pick
<1>2. \A s \in SUBSET To(a) : s # {} => Gives(a, c)[Pick(s)] = Pick(s).amount * c[Pick(s)]
  <2> SUFFICES ASSUME NEW s \in SUBSET To(a), s # {}
               PROVE  Gives(a, c)[Pick(s)] = Pick(s).amount * c[Pick(s)]
    OBVIOUS
  <2>1. Pick(s) \in To(a)
    BY FiniteSides, PickSmaller
  <2> QED
    BY <2>1 DEF Gives
<1>3. ASSUME NEW g, Sums(g, Gives(a, c), To(a))
      PROVE  Eq(g)
  BY <1>2, <1>3 DEF Sums
<1>4. ASSUME NEW g, Eq(g)
      PROVE  Sums(g, Gives(a, c), To(a))
  BY <1>2, <1>4 DEF Sums
<1> HIDE DEF Eq
<1>5. \E g : Eq(g)
  BY <1>3, FiniteSides, SumsExist
<1>6. Eq(CHOOSE g : Eq(g))
  BY <1>5
<1> QED
  BY <1>1, <1>4, <1>6

LEMMA CountIsSum ==
    ASSUME NEW a, NEW d
    PROVE  \E g : Sums(g, Counts(a, d), From(a)) /\ CountOf(a, d) = g[From(a)]
<1> DEFINE Eq(g) == g = [s \in SUBSET From(a) |->
                           IF s = {} THEN 0
                           ELSE d[Pick(s)] + g[s \ {Pick(s)}]]
<1>1. CountOf(a, d) = (CHOOSE g : Eq(g))[From(a)]
  BY DEF CountOf, Total, MapThenSumSet, MapThenFoldSet, Pick
<1>2. \A s \in SUBSET From(a) : s # {} => Counts(a, d)[Pick(s)] = d[Pick(s)]
  <2> SUFFICES ASSUME NEW s \in SUBSET From(a), s # {}
               PROVE  Counts(a, d)[Pick(s)] = d[Pick(s)]
    OBVIOUS
  <2>1. Pick(s) \in From(a)
    BY FiniteSides, PickSmaller
  <2> QED
    BY <2>1 DEF Counts
<1>3. ASSUME NEW g, Sums(g, Counts(a, d), From(a))
      PROVE  Eq(g)
  BY <1>2, <1>3 DEF Sums
<1>4. ASSUME NEW g, Eq(g)
      PROVE  Sums(g, Counts(a, d), From(a))
  BY <1>2, <1>4 DEF Sums
<1> HIDE DEF Eq
<1>5. \E g : Eq(g)
  BY <1>3, FiniteSides, SumsExist
<1>6. Eq(CHOOSE g : Eq(g))
  BY <1>5
<1> QED
  BY <1>1, <1>4, <1>6


\* What is summed are integers, for counts that are natural numbers.
LEMMA Summands ==
    ASSUME NEW a, NEW d \in [Txs -> Nat], NEW c \in [Txs -> Nat]
    PROVE  /\ Ints(Takes(a, d), From(a))
           /\ Ints(Gives(a, c), To(a))
           /\ Ints(Counts(a, d), From(a))
<1>1. \A t \in Txs : t.amount \in Nat /\ d[t] \in Nat /\ c[t] \in Nat
  BY LedgerAssumption
<1>2. \A t \in Txs : t.amount * d[t] \in Int
  BY <1>1
<1>3. \A t \in Txs : t.amount * c[t] \in Int
  BY <1>1
<1> QED
  BY <1>1, <1>2, <1>3 DEF Ints, From, To, Takes, Gives, Counts

LEMMA TotalsAreInts ==
    ASSUME NEW a, NEW d \in [Txs -> Nat], NEW c \in [Txs -> Nat]
    PROVE  TakenOf(a, d) \in Int /\ GivenOf(a, c) \in Int /\ CountOf(a, d) \in Int
<1>1. TakenOf(a, d) \in Int
  BY TakenIsSum, FiniteSides, Summands, SumsAgree
<1>2. GivenOf(a, c) \in Int
  BY GivenIsSum, FiniteSides, Summands, SumsAgree
<1>3. CountOf(a, d) \in Int
  <2>1. PICK g : Sums(g, Counts(a, d), From(a)) /\ CountOf(a, d) = g[From(a)]
    BY CountIsSum
  <2>2. Ints(Counts(a, d), From(a)) /\ IsFiniteSet(From(a))
    BY FiniteSides, Summands
  <2> QED
    BY <2>1, <2>2, SumsAgree
<1> QED
  BY <1>1, <1>2, <1>3

LEMMA NothingMoved ==
    ASSUME NEW a, NEW d, NEW c, \A t \in Txs : d[t] = 0 /\ c[t] = 0
    PROVE  TakenOf(a, d) = 0 /\ GivenOf(a, c) = 0 /\ CountOf(a, d) = 0
<1>1. /\ \A t \in From(a) : Takes(a, d)[t] = 0
      /\ \A t \in To(a) : Gives(a, c)[t] = 0
      /\ \A t \in From(a) : Counts(a, d)[t] = 0
  <2>1. \A t \in Txs : t.amount * 0 = 0
    BY LedgerAssumption
  <2> QED
    BY <2>1 DEF From, To, Takes, Gives, Counts
<1>2. TakenOf(a, d) = 0
  BY <1>1, TakenIsSum, FiniteSides, SumsOfZeros
<1>3. GivenOf(a, c) = 0
  BY <1>1, GivenIsSum, FiniteSides, SumsOfZeros
<1>4. CountOf(a, d) = 0
  BY <1>1, CountIsSum, FiniteSides, SumsOfZeros
<1> QED
  BY <1>2, <1>3, <1>4

\* The count of u goes up by one.
OneMore(e, d, u) == e = [d EXCEPT ![u] = @ + 1]

\* A debit of u counts for its sender only.
LEMMA OneDebitMore ==
    ASSUME NEW a, NEW u \in Txs, NEW d \in [Txs -> Nat], NEW e, OneMore(e, d, u)
    PROVE  /\ TakenOf(a, e) = TakenOf(a, d) + (IF u \in From(a) THEN u.amount ELSE 0)
           /\ CountOf(a, e) = CountOf(a, d) + (IF u \in From(a) THEN 1 ELSE 0)
<1>1. /\ u.amount \in Int
      /\ \A t \in Txs : t.amount \in Nat /\ d[t] \in Nat
      /\ \A t \in Txs : e[t] = IF t = u THEN d[t] + 1 ELSE d[t]
  BY LedgerAssumption DEF OneMore
<1>2. Adds(Takes(a, e), Takes(a, d), From(a), u, u.amount)
  <2> SUFFICES ASSUME NEW y \in From(a)
               PROVE  y.amount * e[y] = y.amount * d[y] + (IF y = u THEN u.amount ELSE 0)
    BY DEF Adds, Takes
  <2>1. y \in Txs
    BY DEF From
  <2>2. CASE y = u
    <3>1. y.amount * (d[y] + 1) = y.amount * d[y] + y.amount
      BY <1>1, <2>1
    <3> QED
      BY <1>1, <2>1, <2>2, <3>1
  <2>3. CASE y # u
    <3>1. y.amount * d[y] \in Int
      BY <1>1, <2>1
    <3> QED
      BY <1>1, <2>1, <2>3, <3>1
  <2> QED
    BY <2>2, <2>3
<1>3. Adds(Counts(a, e), Counts(a, d), From(a), u, 1)
  <2> SUFFICES ASSUME NEW y \in From(a)
               PROVE  e[y] = d[y] + (IF y = u THEN 1 ELSE 0)
    BY DEF Adds, Counts
  <2>1. y \in Txs /\ d[y] \in Nat /\ e[y] = IF y = u THEN d[y] + 1 ELSE d[y]
    BY <1>1 DEF From
  <2> QED
    BY <2>1
<1>4. TakenOf(a, e) = TakenOf(a, d) + (IF u \in From(a) THEN u.amount ELSE 0)
  <2>1. PICK g : Sums(g, Takes(a, d), From(a)) /\ TakenOf(a, d) = g[From(a)]
    BY TakenIsSum
  <2>2. PICK k : Sums(k, Takes(a, e), From(a)) /\ TakenOf(a, e) = k[From(a)]
    BY TakenIsSum
  <2>3. Ints(Takes(a, d), From(a)) /\ IsFiniteSet(From(a))
    BY FiniteSides, Summands
  <2> QED
    BY <1>1, <1>2, <2>1, <2>2, <2>3, SumsChange
<1>5. CountOf(a, e) = CountOf(a, d) + (IF u \in From(a) THEN 1 ELSE 0)
  <2>1. PICK g : Sums(g, Counts(a, d), From(a)) /\ CountOf(a, d) = g[From(a)]
    BY CountIsSum
  <2>2. PICK k : Sums(k, Counts(a, e), From(a)) /\ CountOf(a, e) = k[From(a)]
    BY CountIsSum
  <2>3. Ints(Counts(a, d), From(a)) /\ IsFiniteSet(From(a))
    BY FiniteSides, Summands
  <2> QED
    BY <1>3, <2>1, <2>2, <2>3, SumsChange
<1> QED
  BY <1>4, <1>5

\* A credit of u counts for its recipient only.
LEMMA OneCreditMore ==
    ASSUME NEW a, NEW u \in Txs, NEW c \in [Txs -> Nat], NEW e, OneMore(e, c, u)
    PROVE  GivenOf(a, e) = GivenOf(a, c) + (IF u \in To(a) THEN u.amount ELSE 0)
<1>1. /\ u.amount \in Int
      /\ \A t \in Txs : t.amount \in Nat /\ c[t] \in Nat
      /\ \A t \in Txs : e[t] = IF t = u THEN c[t] + 1 ELSE c[t]
  BY LedgerAssumption DEF OneMore
<1>2. Adds(Gives(a, e), Gives(a, c), To(a), u, u.amount)
  <2> SUFFICES ASSUME NEW y \in To(a)
               PROVE  y.amount * e[y] = y.amount * c[y] + (IF y = u THEN u.amount ELSE 0)
    BY DEF Adds, Gives
  <2>1. y \in Txs
    BY DEF To
  <2>2. CASE y = u
    <3>1. y.amount * (c[y] + 1) = y.amount * c[y] + y.amount
      BY <1>1, <2>1
    <3> QED
      BY <1>1, <2>1, <2>2, <3>1
  <2>3. CASE y # u
    <3>1. y.amount * c[y] \in Int
      BY <1>1, <2>1
    <3> QED
      BY <1>1, <2>1, <2>3, <3>1
  <2> QED
    BY <2>2, <2>3
<1>3. PICK g : Sums(g, Gives(a, c), To(a)) /\ GivenOf(a, c) = g[To(a)]
  BY GivenIsSum
<1>4. PICK k : Sums(k, Gives(a, e), To(a)) /\ GivenOf(a, e) = k[To(a)]
  BY GivenIsSum
<1>5. Ints(Gives(a, c), To(a)) /\ IsFiniteSet(To(a))
  <2>1. [t \in Txs |-> 0] \in [Txs -> Nat]
    OBVIOUS
  <2> QED
    BY <2>1, FiniteSides, Summands
<1> QED
  BY <1>1, <1>2, <1>3, <1>4, <1>5, SumsChange


\* The account of a, or the one that OpenAccount will make.
AccountOf(a) ==
    IF acc[a] = NoAccount THEN [balance |-> InitialBalance, nonce |-> 0] ELSE acc[a]

AddsUp(a) ==
    /\ AccountOf(a).balance + TakenOf(a, debits) = InitialBalance + GivenOf(a, credits)
    /\ AccountOf(a).nonce = CountOf(a, debits)

\* The copy of the recipient is the account as it is, amount added, unless the
\* sender pays himself.
CopyOfRecipient ==
    LET t == Head(todo)
    IN  stage = "debited" =>
              /\ t.to \in TestAccounts /\ acc[t.to] # NoAccount
              /\ t.from # t.to => toAcc = Paid(acc[t.to], t.amount)

Books == CopyOfRecipient /\ \A a \in TestAccounts : PaidItself(a) \/ AddsUp(a)

LEMMA StepRecipient ==
    ASSUME TypeOK, CopyOfRecipient, [Next]_vars
    PROVE  CopyOfRecipient'
<1> USE DEF CopyOfRecipient
<1>1. Effect
  BY StepEffect
<1>2. CASE Still \/ Settled \/ CutShort \/ Repeated
  BY <1>2 DEF Still, Settled, CutShort, Repeated, disk
<1>3. ASSUME NEW a \in TestAccounts, OpenAccount(a)
      PROVE  CopyOfRecipient'
  BY <1>3 DEF OpenAccount, loop, TypeOK
<1>4. ASSUME NEW t \in Txs, Debit(t)
      PROVE  CopyOfRecipient'
  <2>1. /\ t.from \in TestAccounts /\ t.to \in TestAccounts
        /\ acc[t.from] \in Account /\ acc[t.to] \in Account /\ t.amount \in Nat
        /\ Charged(acc[t.from], t.amount) \in Account
        /\ toAcc' = Paid(acc[t.to], t.amount)
        /\ acc' = [acc EXCEPT ![t.from] = Charged(acc[t.from], t.amount)]
    BY <1>4, DebitAccounts, TypeParts
  <2>2. t = Head(todo')
    BY <1>4 DEF Debit, Has, At
  <2>3. CASE t.from = t.to
    <3>1. acc'[t.to] = Charged(acc[t.to], t.amount) /\ acc'[t.to] # NoAccount
      BY <2>1, <2>3, LedgerAssumption DEF TypeOK
    <3> QED
      BY <2>1, <2>2, <2>3, <3>1
  <2>4. CASE t.from # t.to
    <3>1. acc'[t.to] = acc[t.to] /\ acc'[t.to] # NoAccount
      BY <2>1, <2>4, LedgerAssumption DEF TypeOK
    <3> QED
      BY <2>1, <2>2, <2>4, <3>1
  <2> QED
    BY <2>3, <2>4
<1>5. ASSUME NEW t \in Txs, Credit(t) \/ Record(t) \/ Mixup(t)
      PROVE  CopyOfRecipient'
  BY <1>5 DEF Credit, Record, Mixup
<1>6. CASE FinishProposal
  BY <1>6 DEF FinishProposal, disk
<1> QED
  BY <1>1, <1>2, <1>3, <1>4, <1>5, <1>6 DEF Effect

LEMMA StepAddsUp ==
    ASSUME TypeOK, Books, [Next]_vars, NEW a \in TestAccounts, ~PaidItself(a)'
    PROVE  AddsUp(a)'
<1>1. Effect
  BY StepEffect
<1>0. AddsUp(a) /\ CopyOfRecipient
  <2>1. ASSUME NEW t \in Txs
        PROVE  credits'[t] = credits[t] \/ credits'[t] = credits[t] + 1
    BY <1>1 DEF Effect, Still, Settled, CutShort, Repeated, OpenAccount, Debit, Credit,
                Record, Mixup, FinishProposal, disk, history, TypeOK
  <2>2. \A t \in Txs : credits[t] \in Nat
    BY DEF TypeOK
  <2>3. \A t \in Txs : credits[t] > 0 => credits'[t] > 0
    BY <2>1, <2>2
  <2> QED
    BY <2>3 DEF Books, PaidItself
<1>2. /\ debits \in [Txs -> Nat] /\ credits \in [Txs -> Nat]
      /\ TakenOf(a, debits) \in Int /\ GivenOf(a, credits) \in Int
      /\ CountOf(a, debits) \in Int
      /\ AccountOf(a) \in Account /\ InitialBalance \in Nat
  <2>1. debits \in [Txs -> Nat] /\ credits \in [Txs -> Nat]
    BY DEF TypeOK
  <2>2. AccountOf(a) \in Account /\ InitialBalance \in Nat
    BY LedgerAssumption DEF TypeOK, AccountOf, Account
  <2> QED
    BY <2>1, <2>2, TotalsAreInts
<1>3. ASSUME AccountOf(a)' = AccountOf(a), debits' = debits, credits' = credits
      PROVE  AddsUp(a)'
  BY <1>0, <1>3 DEF AddsUp
<1>4. CASE Still \/ Settled \/ CutShort \/ Repeated \/ FinishProposal
  BY <1>3, <1>4 DEF Still, Settled, CutShort, Repeated, FinishProposal, disk, history, AccountOf
<1>5. ASSUME NEW b \in TestAccounts, OpenAccount(b)
      PROVE  AddsUp(a)'
  <2>1. debits' = debits /\ credits' = credits
    BY <1>5 DEF OpenAccount, history
  <2>2. acc[b] = NoAccount /\ acc' = [acc EXCEPT ![b] = [balance |-> InitialBalance, nonce |-> 0]]
    BY <1>5 DEF OpenAccount, Known
  <2>3. AccountOf(a)' = AccountOf(a)
    BY <2>2 DEF AccountOf, TypeOK
  <2> QED
    BY <1>3, <2>1, <2>3
<1>6. ASSUME NEW t \in Txs, Debit(t)
      PROVE  AddsUp(a)'
  <2>1. /\ t.from \in TestAccounts /\ acc[t.from] \in Account /\ t.amount \in Nat
        /\ Charged(acc[t.from], t.amount) \in Account
        /\ acc' = [acc EXCEPT ![t.from] = Charged(acc[t.from], t.amount)]
    BY <1>6, DebitAccounts, TypeParts
  <2>2. OneMore(debits', debits, t) /\ credits' = credits
    BY <1>6 DEF Debit, OneMore
  <2>3. /\ TakenOf(a, debits') = TakenOf(a, debits) + (IF t \in From(a) THEN t.amount ELSE 0)
        /\ CountOf(a, debits')
              = CountOf(a, debits) + (IF t \in From(a) THEN 1 ELSE 0)
    BY <1>2, <2>2, OneDebitMore
  <2>4. CASE t.from = a
    <3>1. t \in From(a)
      BY <2>4 DEF From
    <3>2. AccountOf(a) = acc[a] /\ AccountOf(a)' = Charged(acc[a], t.amount)
      BY <2>1, <2>4, LedgerAssumption DEF AccountOf, TypeOK
    <3>3. /\ AccountOf(a)'.balance = AccountOf(a).balance - t.amount
          /\ AccountOf(a)'.nonce = AccountOf(a).nonce + 1
          /\ AccountOf(a).balance \in Nat /\ AccountOf(a).nonce \in Nat
      BY <1>2, <3>2 DEF Charged, Account
    <3> QED
      BY <1>0, <1>2, <2>1, <2>2, <2>3, <3>1, <3>3 DEF AddsUp
  <2>5. CASE t.from # a
    <3>1. t \notin From(a)
      BY <2>5 DEF From
    <3>2. AccountOf(a)' = AccountOf(a)
      BY <2>1, <2>5 DEF AccountOf, TypeOK
    <3> QED
      BY <1>0, <1>2, <2>2, <2>3, <3>1, <3>2 DEF AddsUp
  <2> QED
    BY <2>4, <2>5
<1>7. ASSUME NEW t \in Txs, Credit(t)
      PROVE  AddsUp(a)'
  <2>1. /\ stage = "debited" /\ t = Head(todo) /\ t.amount \in Nat
        /\ acc' = [acc EXCEPT ![t.to] = toAcc]
        /\ OneMore(credits', credits, t) /\ debits' = debits
    BY <1>7, LedgerAssumption DEF Credit, At, OneMore
  <2>2. toAcc \in Account
    BY <2>1 DEF TypeOK
  <2>3. GivenOf(a, credits') = GivenOf(a, credits) + (IF t \in To(a) THEN t.amount ELSE 0)
    BY <1>2, <2>1, OneCreditMore
  <2>4. CASE t.to = a
    <3>1. t.from # a
      <4>1. credits'[t] > 0
        BY <1>2, <2>1 DEF OneMore
      <4> QED
        BY <2>4, <4>1 DEF PaidItself
    <3>2. t \in To(a)
      BY <2>4 DEF To
    <3>3. AccountOf(a) = acc[a] /\ AccountOf(a)' = toAcc
      BY <1>0, <2>1, <2>2, <2>4, LedgerAssumption DEF CopyOfRecipient, AccountOf, TypeOK
    <3>4. /\ AccountOf(a)'.balance = AccountOf(a).balance + t.amount
          /\ AccountOf(a)'.nonce = AccountOf(a).nonce
          /\ AccountOf(a).balance \in Nat /\ AccountOf(a).nonce \in Nat
      BY <1>0, <1>2, <2>1, <2>4, <3>1, <3>3 DEF CopyOfRecipient, Paid, Account
    <3> QED
      BY <1>0, <1>2, <2>1, <2>3, <3>2, <3>4 DEF AddsUp
  <2>5. CASE t.to # a
    <3>1. t \notin To(a)
      BY <2>5 DEF To
    <3>2. AccountOf(a)' = AccountOf(a)
      BY <2>1, <2>5 DEF AccountOf, TypeOK
    <3> QED
      BY <1>0, <1>2, <2>1, <2>3, <3>1, <3>2 DEF AddsUp
  <2> QED
    BY <2>4, <2>5
<1>8. ASSUME NEW t \in Txs, Record(t) \/ Mixup(t)
      PROVE  AddsUp(a)'
  BY <1>3, <1>8 DEF Record, Mixup, disk, history, AccountOf
<1> QED
  BY <1>1, <1>4, <1>5, <1>6, <1>7, <1>8 DEF Effect

\* The balance and the nonce of an account are what the saves that happened make
\* of them, wherever the process died in between: SaveAccountToTrie loses no
\* transfer and makes none up, for an account that never paid itself.
THEOREM BooksBalance == Spec => []AccountsAddUp
<1>1. Init => Books
  <2> SUFFICES ASSUME Init PROVE Books
    OBVIOUS
  <2>1. CopyOfRecipient
    BY DEF Init, CopyOfRecipient
  <2>2. ASSUME NEW a \in TestAccounts
        PROVE  AddsUp(a)
    <3>1. TakenOf(a, debits) = 0 /\ GivenOf(a, credits) = 0 /\ CountOf(a, debits) = 0
      BY NothingMoved DEF Init
    <3>2. AccountOf(a) = [balance |-> InitialBalance, nonce |-> 0]
      BY DEF Init, AccountOf
    <3> QED
      BY <3>1, <3>2 DEF AddsUp
  <2> QED
    BY <2>1, <2>2 DEF Books
<1>2. TypeOK /\ Books /\ [Next]_vars => Books'
  BY StepRecipient, StepAddsUp DEF Books
<1>3. Books => AccountsAddUp
  <2> SUFFICES ASSUME Books, NEW a \in TestAccounts, acc[a] # NoAccount, ~PaidItself(a)
               PROVE  /\ acc[a].balance + TakenOf(a, debits) = InitialBalance + GivenOf(a, credits)
                      /\ acc[a].nonce = CountOf(a, debits)
    BY DEF AccountsAddUp, TakenOf, GivenOf, CountOf, From, To
  <2> QED
    BY DEF Books, AddsUp, AccountOf
<1> QED
  BY <1>1, <1>2, <1>3, LedgerTypeCorrect, PTL DEF Spec

=============================================================================
