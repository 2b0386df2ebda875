---------------------------- MODULE TxFetchProofs ----------------------------
(***************************************************************************)
(* What holds of the fetch of transactions for every number of nodes,      *)
(* blocks, messages and faults, and whatever the timeouts are.             *)
(***************************************************************************)
EXTENDS TxFetch, Counting

-----------------------------------------------------------------------------
(* The shape of the state.                                                  *)

\* TypeOK, by group of variables; and a chain is as high as proposals may go.
NodeTypes ==
    /\ up \in [Nodes -> BOOLEAN]
    /\ chain \in [Nodes -> Seq(Seq(Txs))]
    /\ stored \in [Nodes -> SUBSET Txs]
    /\ pool \in [Nodes -> SUBSET Txs]
    /\ \A n \in Nodes : Len(chain[n]) <= MaxHeight

WireTypes ==
    /\ conns \subseteq SUBSET Nodes
    /\ stream \in [Links -> Seq(Messages)]
    /\ readers \in [Links -> Seq({"loop", "job", "ghost"})]

MutexTypes ==
    /\ waiting \in [Nodes -> SUBSET Handlers]
    /\ holder \in [Nodes -> Handlers \cup {Nobody}]

RequestTypes ==
    /\ fetch \in [Nodes -> [tx : Txs \cup {NoTx}, age : Nat]]
    /\ job \in [Links -> {"none", "reading", "answer", "error", "done"}]
    /\ got \in [Links -> Txs \cup {NoTx}]
    /\ \A l \in Links : job[l] = "answer" => got[l] # NoTx

HistoryTypes ==
    /\ asked \in [Links -> Seq(Txs)]
    /\ taken \in [Links -> Nat]
    /\ owed \in [Links -> SUBSET Txs]

BudgetTypes == budget \in [{"event", "fault"} -> Nat]

Types ==
    /\ NodeTypes
    /\ WireTypes
    /\ MutexTypes
    /\ RequestTypes
    /\ HistoryTypes
    /\ BudgetTypes

LEMMA TypesOK == Types => TypeOK
  BY DEF Types, TypeOK, NodeTypes, WireTypes, MutexTypes, RequestTypes,
     HistoryTypes, BudgetTypes

\* What no variable of a group changes.
LEMMA Kept ==
    ASSUME Types
    PROVE  /\ UNCHANGED node => NodeTypes'
           /\ UNCHANGED wire => WireTypes'
           /\ UNCHANGED mutex => MutexTypes'
           /\ UNCHANGED request => RequestTypes'
           /\ UNCHANGED history => HistoryTypes'
           /\ UNCHANGED budget => BudgetTypes'
<1>1. UNCHANGED node => NodeTypes'
  BY DEF Types, node, NodeTypes
<1>2. UNCHANGED wire => WireTypes'
  BY DEF Types, wire, WireTypes
<1>3. UNCHANGED mutex => MutexTypes'
  BY DEF Types, mutex, MutexTypes
<1>4. UNCHANGED request => RequestTypes'
  BY DEF Types, request, RequestTypes
<1>5. UNCHANGED history => HistoryTypes'
  BY DEF Types, history, HistoryTypes
<1>6. UNCHANGED budget => BudgetTypes'
  BY DEF Types, BudgetTypes
<1> QED
  BY <1>1, <1>2, <1>3, <1>4, <1>5, <1>6

LEMMA SpendTypes ==
    ASSUME BudgetTypes, Event \/ Fault
    PROVE  BudgetTypes'
<1>1. ASSUME Event
      PROVE  BudgetTypes'
  <2>1. budget["event"] - 1 \in Nat
    BY <1>1 DEF BudgetTypes, Event
  <2> QED
    BY <1>1, <2>1 DEF BudgetTypes, Event
<1>2. ASSUME Fault
      PROVE  BudgetTypes'
  <2>1. budget["event"] - 1 \in Nat /\ budget["fault"] - 1 \in Nat
    BY <1>2 DEF BudgetTypes, Fault
  <2> QED
    BY <1>2, <2>1 DEF BudgetTypes, Fault
<1> QED
  BY <1>1, <1>2

LEMMA OrphanedTypes ==
    ASSUME NEW n \in Nodes, NEW h, NEW gone
    PROVE  /\ h \in Handlers => Orphaned(n, h, gone) \in Handlers
           /\ h \in Handlers => Orphaned(n, h, gone).rest = h.rest
           /\ h = Nobody => Orphaned(n, h, gone) = Nobody
  BY DEF Orphaned, Handlers

LEMMA CloseTypes ==
    ASSUME NodeTypes, WireTypes, MutexTypes, RequestTypes, HistoryTypes,
           NEW gone, NEW dead, Close(gone, dead), UNCHANGED <<chain, stored>>
    PROVE  NodeTypes' /\ WireTypes' /\ MutexTypes' /\ RequestTypes' /\ HistoryTypes'
<1>1. NodeTypes'
  BY DEF NodeTypes, Close
<1>2. WireTypes'
  BY DEF WireTypes, Close
<1>3. MutexTypes'
  BY OrphanedTypes DEF MutexTypes, Close
<1>4. RequestTypes'
  BY DEF RequestTypes, Close, NoFetch
<1>5. HistoryTypes'
  BY DEF HistoryTypes, Close
<1> QED
  BY <1>1, <1>2, <1>3, <1>4, <1>5

LEMMA MessageTypes ==
    /\ \A t \in Txs : Ask(t) \in Messages /\ Answer(t) \in Messages
    /\ Other \in Messages
    /\ \A h \in 1 .. MaxHeight, ts \in Seq(Txs) : BlockMsg(h, ts) \in Messages
    /\ \A m \in Messages :
          /\ m.type = "block" => m.index \in 1 .. MaxHeight /\ m.txs \in Seq(Txs)
          /\ m.type \in {"ask", "answer"} => m.tx \in Txs
  BY DEF Ask, Answer, Other, BlockMsg, Messages

LEMMA HandlerTypes ==
    /\ \A p \in Nodes, h \in 1 .. MaxHeight, ts \in Seq(Txs) : Handler(p, h, ts) \in Handlers
    /\ \A h \in Handlers : /\ h.from \in Nodes \cup {Nobody}
                           /\ h.index \in 1 .. MaxHeight
                           /\ h.txs \in Seq(Txs) /\ h.rest \in Seq(Txs)
    /\ Nobody \notin Nodes /\ Nobody \notin Handlers
  BY TxFetchAssumption DEF Handler, Handlers

LEMMA HeadTypes ==
    ASSUME WireTypes, NEW n \in Nodes, NEW p \in Nodes, stream[<<p, n>>] # <<>>
    PROVE  /\ Head(stream[<<p, n>>]) \in Messages
           /\ Tail(stream[<<p, n>>]) \in Seq(Messages)
<1>1. stream[<<p, n>>] \in Seq(Messages)
  BY DEF WireTypes, Links
<1> QED
  BY <1>1, HeadTailProperties

LEMMA ReaderTypes ==
    ASSUME WireTypes, NEW n \in Nodes, NEW p \in Nodes, readers[<<n, p>>] # <<>>
    PROVE  /\ Head(readers[<<n, p>>]) \in {"loop", "job", "ghost"}
           /\ Tail(readers[<<n, p>>]) \in Seq({"loop", "job", "ghost"})
           /\ Again(readers[<<n, p>>]) \in Seq({"loop", "job", "ghost"})
<1>1. readers[<<n, p>>] \in Seq({"loop", "job", "ghost"})
  BY DEF WireTypes, Links
<1> QED
  BY <1>1, HeadTailProperties, AppendProperties DEF Again

\* The readers of an ended fetch are as many as before.
LEMMA GhostTypes ==
    ASSUME NEW s \in Seq({"loop", "job", "ghost"})
    PROVE  [i \in DOMAIN s |-> IF s[i] = "job" THEN "ghost" ELSE s[i]]
              \in Seq({"loop", "job", "ghost"})
<1>1. /\ DOMAIN s = 1 .. Len(s) /\ Len(s) \in Nat
      /\ \A i \in 1 .. Len(s) : s[i] \in {"loop", "job", "ghost"}
  BY ElementOfSeq, LenProperties
<1> QED
  BY <1>1, SeqDef

LEMMA ResumedTypes ==
    ASSUME WireTypes, NEW n \in Nodes, NEW h \in Handlers
    PROVE  Resumed(n, h) \in [Links -> Seq({"loop", "job", "ghost"})]
<1>1. \A s \in Seq({"loop", "job", "ghost"}) :
        Append(s, "loop") \in Seq({"loop", "job", "ghost"})
  BY AppendProperties
<1>2. h.from \in Nodes \cup {Nobody}
  BY HandlerTypes
<1> QED
  BY <1>1, <1>2 DEF Resumed, WireTypes, Links

LEMMA ExecuteTypes ==
    ASSUME NodeTypes, NEW n \in Nodes, NEW t \in Txs, Execute(n, t),
           UNCHANGED <<up, chain, pool>>
    PROVE  NodeTypes'
<1>1. stored' \in [Nodes -> SUBSET Txs]
  BY DEF NodeTypes, Execute
<1> QED
  BY <1>1 DEF NodeTypes

LEMMA DoneTypes ==
    ASSUME MutexTypes, NEW n \in Nodes, holder[n] # Nobody, holder[n].rest # <<>>,
           Done(n), UNCHANGED waiting
    PROVE  MutexTypes'
<1>1. holder[n] \in Handlers
  BY DEF MutexTypes
<1>2. Tail(holder[n].rest) \in Seq(Txs)
  BY <1>1, HandlerTypes, HeadTailProperties
<1>3. [holder[n] EXCEPT !.rest = Tail(@)] \in Handlers
  BY <1>1, <1>2 DEF Handlers
<1> QED
  BY <1>3 DEF MutexTypes, Done

LEMMA OrderTypes ==
    ASSUME NEW S \in SUBSET Txs, NEW s \in Orders(S)
    PROVE  s \in Seq(Txs)
<1>1. IsFiniteSet(S) /\ Cardinality(S) \in Nat
  BY TxFetchAssumption, FS_Subset, FS_CardinalityType
<1>2. s \in [1 .. Cardinality(S) -> Txs]
  BY DEF Orders
<1> QED
  BY <1>1, <1>2, SeqDef

LEMMA ReadTypes ==
    ASSUME Types, NEW n \in Nodes, NEW p \in Nodes, Read(n, p)
    PROVE  Types'
<1>0. NodeTypes /\ WireTypes /\ MutexTypes /\ RequestTypes /\ HistoryTypes /\ BudgetTypes
  BY DEF Types
<1>1. CASE LoopAnswers(n, p)
  <2>1. PICK t \in Txs :
          /\ Takes(n, p, "loop", Ask(t))
          /\ stream' = [stream EXCEPT ![<<p, n>>] = Tail(@),
                            ![<<n, p>>] = @ \o Response(n, t)]
    BY <1>1 DEF LoopAnswers
  <2>2. Response(n, t) \in Seq(Messages)
    BY MessageTypes, EmptySeq DEF Response
  <2>3. WireTypes'
    <3>1. \A s \in Seq(Messages) : s \o Response(n, t) \in Seq(Messages)
      BY <2>2, ConcatProperties
    <3>2. Tail(stream[<<p, n>>]) \in Seq(Messages)
      BY <1>0, <2>1, HeadTypes DEF Takes
    <3>3. stream' \in [Links -> Seq(Messages)]
      BY <1>0, <2>1, <3>1, <3>2 DEF WireTypes, Links
    <3> QED
      BY <1>0, <1>1, <2>1, <3>3, ReaderTypes DEF LoopAnswers, Takes, WireTypes, Links
  <2> QED
    BY Kept, <1>1, <2>3 DEF LoopAnswers, Types
<1>2. CASE LoopIgnores(n, p)
  <2>1. WireTypes'
    BY <1>0, <1>2, HeadTypes, ReaderTypes DEF LoopIgnores, Takes, WireTypes
  <2> QED
    BY Kept, <1>2, <2>1 DEF LoopIgnores, Types
<1>3. CASE LoopHandles(n, p)
  <2>1. MutexTypes'
    BY <1>0, <1>3, HeadTypes, MessageTypes, HandlerTypes DEF LoopHandles, MutexTypes
  <2>2. WireTypes'
    BY <1>0, <1>3, HeadTypes, ReaderTypes DEF LoopHandles, WireTypes
  <2> QED
    BY Kept, <1>3, <2>1, <2>2 DEF LoopHandles, Types
<1>4. CASE JobReads(n, p)
  <2>1. WireTypes'
    BY <1>0, <1>4, HeadTypes, ReaderTypes DEF JobReads, WireTypes
  <2>2. RequestTypes'
    <3>1. <<n, p>> \in Links
      BY DEF Links
    <3>2. Head(stream[<<p, n>>]) \in Messages
      BY <1>0, <1>4, HeadTypes DEF JobReads
    <3>3. CASE Head(stream[<<p, n>>]).type = "answer"
      <4>1. Head(stream[<<p, n>>]).tx \in Txs /\ NoTx \notin Txs
        BY <3>2, <3>3, MessageTypes, TxFetchAssumption
      <4> QED
        BY <1>0, <1>4, <3>1, <3>3, <4>1 DEF JobReads, RequestTypes
    <3>4. CASE Head(stream[<<p, n>>]).type # "answer"
      BY <1>0, <1>4, <3>1, <3>4 DEF JobReads, RequestTypes
    <3> QED
      BY <3>3, <3>4
  <2>3. HistoryTypes'
    BY <1>0, <1>4 DEF JobReads, HistoryTypes, Links
  <2> QED
    BY Kept, <1>4, <2>1, <2>2, <2>3 DEF JobReads, Types
<1>5. CASE GhostReads(n, p)
  <2>1. WireTypes'
    BY <1>0, <1>5, HeadTypes, ReaderTypes DEF GhostReads, WireTypes
  <2>2. HistoryTypes'
    BY <1>0, <1>5 DEF GhostReads, HistoryTypes, Links
  <2> QED
    BY Kept, <1>5, <2>1, <2>2 DEF GhostReads, Types
<1> QED
  BY <1>1, <1>2, <1>3, <1>4, <1>5 DEF Read

LEMMA WireActionTypes ==
    ASSUME Types, NEW n \in Nodes, NEW p \in Nodes, Wire(n, p)
    PROVE  Types'
<1>0. NodeTypes /\ WireTypes /\ MutexTypes /\ RequestTypes /\ HistoryTypes /\ BudgetTypes
  BY DEF Types
<1>1. CASE Connect(n, p)
  <2>0. <<"loop">> \in Seq({"loop", "job", "ghost"})
    OBVIOUS
  <2>1. WireTypes'
    BY <1>0, <1>1, <2>0 DEF Connect, WireTypes, Links
  <2> QED
    BY Kept, <1>1, <2>1 DEF Connect, Types
<1>2. CASE Hangup(n, p)
  BY Kept, <1>0, <1>2, CloseTypes, SpendTypes DEF Hangup, Types
<1>3. CASE SendBlock(n, p)
  <2>1. PICK h \in DOMAIN chain[n] :
          stream' = [stream EXCEPT ![<<n, p>>] = Append(@, BlockMsg(h, chain[n][h]))]
    BY <1>3 DEF SendBlock
  <2>2. BlockMsg(h, chain[n][h]) \in Messages
    <3>1. chain[n] \in Seq(Seq(Txs)) /\ Len(chain[n]) <= MaxHeight
      BY <1>0 DEF NodeTypes
    <3>2. h \in 1 .. MaxHeight /\ chain[n][h] \in Seq(Txs)
      BY <3>1, ElementOfSeq, LenProperties, TxFetchAssumption
    <3> QED
      BY <3>2 DEF BlockMsg, Messages
  <2>3. WireTypes'
    BY <1>0, <1>3, <2>1, <2>2, AppendProperties DEF SendBlock, WireTypes, Links
  <2> QED
    BY Kept, <1>0, <1>3, <2>3, SpendTypes DEF SendBlock, Types
<1>4. CASE SendOther(n, p)
  <2>1. Other \in Messages
    BY DEF Other, Messages
  <2>2. WireTypes'
    BY <1>0, <1>4, <2>1, AppendProperties DEF SendOther, WireTypes, Links
  <2> QED
    BY Kept, <1>4, <2>2 DEF SendOther, Types
<1> QED
  BY <1>1, <1>2, <1>3, <1>4 DEF Wire

LEMMA WorkTypes ==
    ASSUME Types, NEW n \in Nodes, Work(n)
    PROVE  Types'
<1>0. NodeTypes /\ WireTypes /\ MutexTypes /\ RequestTypes /\ HistoryTypes /\ BudgetTypes
  BY DEF Types
<1>1. CASE Finish(n)
  <2>1. holder[n] \in Handlers /\ holder[n].index \in 1 .. MaxHeight
        /\ holder[n].txs \in Seq(Txs)
    BY <1>0, <1>1, HandlerTypes DEF Finish, MutexTypes
  <2>2. WireTypes'
    BY <1>0, <1>1, <2>1, ResumedTypes DEF Finish, WireTypes
  <2>3. MutexTypes'
    BY <1>0, <1>1 DEF Finish, MutexTypes
  <2>4. NodeTypes'
    <3>1. chain[n] \in Seq(Seq(Txs)) /\ Len(chain[n]) \in Nat /\ Len(chain[n]) <= MaxHeight
      BY <1>0, LenProperties DEF NodeTypes
    <3> DEFINE c == IF holder[n].index = Len(chain[n]) + 1
                    THEN Append(chain[n], holder[n].txs) ELSE chain[n]
    <3>2. c \in Seq(Seq(Txs)) /\ Len(c) <= MaxHeight
      BY <2>1, <3>1, AppendProperties, TxFetchAssumption
    <3>3. chain' = [chain EXCEPT ![n] = c]
      BY <1>1 DEF Finish
    <3> HIDE DEF c
    <3> QED
      BY <1>0, <1>1, <3>2, <3>3 DEF Finish, NodeTypes
  <2> QED
    BY Kept, <1>1, <2>2, <2>3, <2>4 DEF Finish, Types
<1>2. ASSUME NEW t \in Txs, Skip(n, t)
      PROVE  Types'
  <2>1. MutexTypes'
    BY <1>0, <1>2, DoneTypes DEF Skip, At
  <2> QED
    BY Kept, <1>2, <2>1 DEF Skip, Types
<1>3. ASSUME NEW t \in Txs, FindLocal(n, t)
      PROVE  Types'
  <2>1. MutexTypes'
    BY <1>0, <1>3, DoneTypes DEF FindLocal, At
  <2>2. NodeTypes'
    BY <1>0, <1>3, ExecuteTypes DEF FindLocal
  <2> QED
    BY Kept, <1>3, <2>1, <2>2 DEF FindLocal, Types
<1>4. ASSUME NEW t \in Txs, StartFetch(n, t)
      PROVE  Types'
  <2>1. PICK bad \in SUBSET Peers(n), how \in {"error", "done"} :
          LET Good(l) == l[1] = n /\ l[2] \in Peers(n) \ bad
          IN  /\ \/ bad = {} /\ UNCHANGED budget
                 \/ bad # {} /\ Fault
              /\ job' = [l \in Links |-> IF Good(l) THEN "reading"
                                         ELSE IF l[1] = n /\ l[2] \in bad THEN how
                                         ELSE job[l]]
              /\ stream' = [l \in Links |-> IF Good(l) THEN Append(stream[l], Ask(t))
                                            ELSE stream[l]]
              /\ readers' = [l \in Links |-> IF Good(l) THEN Append(readers[l], "job")
                                             ELSE readers[l]]
              /\ asked' = [l \in Links |-> IF Good(l) THEN Append(asked[l], t) ELSE asked[l]]
    BY <1>4 DEF StartFetch
  <2>2. WireTypes'
    BY <1>0, <1>4, <2>1, MessageTypes, AppendProperties DEF StartFetch, WireTypes
  <2>3. RequestTypes'
    <3>1. fetch' \in [Nodes -> [tx : Txs \cup {NoTx}, age : Nat]]
      BY <1>0, <1>4 DEF StartFetch, RequestTypes
    <3> QED
      BY <1>0, <1>4, <2>1, <3>1 DEF StartFetch, RequestTypes
  <2>4. HistoryTypes'
    BY <1>0, <1>4, <2>1, AppendProperties DEF StartFetch, HistoryTypes
  <2>5. BudgetTypes'
    BY <1>0, <2>1, SpendTypes DEF BudgetTypes
  <2> QED
    BY Kept, <1>4, <2>2, <2>3, <2>4, <2>5 DEF StartFetch, Types
<1>5. ASSUME NEW t \in Txs, FetchAlone(n, t)
      PROVE  Types'
  BY Kept, <1>0, <1>5, CloseTypes DEF FetchAlone, Die, Types
<1> QED
  BY <1>1, <1>2, <1>3, <1>4, <1>5 DEF Work

\* What the end of a fetch needs: that there is one.
LEMMA ConcludeTypes ==
    ASSUME Types, NEW n \in Nodes, Conclude(n),
           Fetching(n) => /\ holder[n] # Nobody /\ holder[n].rest # <<>>
                          /\ fetch[n].tx \in Txs
    PROVE  Types'
<1>0. NodeTypes /\ WireTypes /\ MutexTypes /\ RequestTypes /\ HistoryTypes /\ BudgetTypes
  BY DEF Types
<1>1. CASE GiveUp(n)
  BY Kept, <1>0, <1>1, CloseTypes DEF GiveUp, Die, Types
<1>2. ASSUME NEW p \in Nodes, TakeAnswer(n, p)
      PROVE  Types'
  <2>1. got[<<n, p>>] \in Txs
    BY <1>0, <1>2 DEF TakeAnswer, RequestTypes, Links
  <2>2. NodeTypes'
    BY <1>0, <1>2, <2>1, ExecuteTypes DEF TakeAnswer
  <2>3. WireTypes'
    BY <1>0, <1>2, GhostTypes DEF TakeAnswer, WireTypes
  <2>4. MutexTypes'
    BY <1>0, <1>2, DoneTypes DEF TakeAnswer
  <2>5. RequestTypes'
    BY <1>0, <1>2 DEF TakeAnswer, RequestTypes, NoFetch
  <2>6. HistoryTypes'
    <3>1. fetch[n].tx \in Txs
      BY <1>2 DEF TakeAnswer
    <3> QED
      BY <1>0, <1>2, <3>1 DEF TakeAnswer, HistoryTypes
  <2> QED
    BY Kept, <1>2, <2>2, <2>3, <2>4, <2>5, <2>6 DEF TakeAnswer, Types
<1>3. ASSUME NEW p \in Nodes, TakeError(n, p)
      PROVE  Types'
  BY Kept, <1>0, <1>3, CloseTypes DEF TakeError, Die, Types
<1>4. ASSUME NEW p \in Nodes, ReadTimesOut(n, p)
      PROVE  Types'
  <2>1. WireTypes'
    BY <1>0, <1>4, GhostTypes DEF ReadTimesOut, WireTypes, Links
  <2>2. RequestTypes'
    BY <1>0, <1>4 DEF ReadTimesOut, RequestTypes, Links
  <2> QED
    BY Kept, <1>4, <2>1, <2>2 DEF ReadTimesOut, Types
<1> QED
  BY <1>1, <1>2, <1>3, <1>4 DEF Conclude

LEMMA NodeActionTypes ==
    ASSUME Types, NEW n \in Nodes,
           Crash(n) \/ Restart(n) \/ Propose(n) \/ \E h \in waiting[n] : Lock(n, h)
    PROVE  Types'
<1>0. NodeTypes /\ WireTypes /\ MutexTypes /\ RequestTypes /\ HistoryTypes /\ BudgetTypes
  BY DEF Types
<1>1. CASE Crash(n)
  BY Kept, <1>0, <1>1, CloseTypes, SpendTypes DEF Crash, Die, Types
<1>2. CASE Restart(n)
  <2>1. NodeTypes'
    BY <1>0, <1>2 DEF Restart, NodeTypes
  <2> QED
    BY Kept, <1>2, <2>1 DEF Restart, Types
<1>3. CASE Propose(n)
  <2>1. pool[n] \ stored[n] \in SUBSET Txs
    BY <1>0 DEF NodeTypes
  <2>2. PICK ts \in Orders(pool[n] \ stored[n]) : chain' = [chain EXCEPT ![n] = Append(@, ts)]
    BY <1>3 DEF Propose
  <2>3. ts \in Seq(Txs)
    BY <2>1, OrderTypes
  <2>4. chain[n] \in Seq(Seq(Txs)) /\ Len(chain[n]) \in Nat /\ Len(chain[n]) < MaxHeight
    BY <1>0, <1>3, LenProperties DEF NodeTypes, Propose
  <2>5. Append(chain[n], ts) \in Seq(Seq(Txs)) /\ Len(Append(chain[n], ts)) <= MaxHeight
    BY <2>3, <2>4, AppendProperties, TxFetchAssumption
  <2>6. NodeTypes'
    BY <1>0, <1>3, <2>2, <2>5 DEF NodeTypes, Propose
  <2> QED
    BY Kept, <1>3, <2>6 DEF Propose, Types
<1>4. ASSUME NEW h \in waiting[n], Lock(n, h)
      PROVE  Types'
  <2>1. h \in Handlers
    BY <1>0 DEF MutexTypes
  <2>2. WireTypes'
    BY <1>0, <1>4, <2>1, ResumedTypes DEF Lock, WireTypes
  <2>3. MutexTypes'
    BY <1>0, <1>4, <2>1 DEF Lock, MutexTypes
  <2> QED
    BY Kept, <1>4, <2>2, <2>3 DEF Lock, Types
<1> QED
  BY <1>1, <1>2, <1>3, <1>4

LEMMA TickTypes ==
    ASSUME Types, Tick
    PROVE  Types'
<1>1. RequestTypes'
  <2>1. \A n \in Nodes : [fetch[n] EXCEPT !.age = @ + 1] \in [tx : Txs \cup {NoTx}, age : Nat]
    BY DEF Types, RequestTypes
  <2> QED
    BY <2>1 DEF Tick, Types, RequestTypes
<1> QED
  BY Kept, <1>1 DEF Tick, Types

LEMMA InitTypes ==
    ASSUME Init
    PROVE  Types
<1>1. NodeTypes
  BY TxFetchAssumption, EmptySeq DEF Init, NodeTypes
<1>2. WireTypes /\ MutexTypes /\ RequestTypes /\ HistoryTypes /\ BudgetTypes
  BY TxFetchAssumption, EmptySeq DEF Init, WireTypes, MutexTypes, RequestTypes,
     HistoryTypes, BudgetTypes, NoFetch
<1> QED
  BY <1>1, <1>2 DEF Types

-----------------------------------------------------------------------------
(* A fetch is in a handler, and reads where it asked.                       *)

\* A fetch runs in a handler that is at a transaction; without one there is
\* nothing of a fetch, and it reads once at most from each peer.
Busy ==
    \A n \in Nodes :
        /\ Fetching(n) => /\ holder[n] # Nobody /\ holder[n].rest # <<>>
                          /\ fetch[n].tx \in Txs
        /\ ~Fetching(n) => \A p \in Nodes :
                              job[<<n, p>>] = "none" /\ got[<<n, p>>] = NoTx

Jobs(l) == HowMany(readers[l], {"job"})

ReadsOnce == \A l \in Links : Jobs(l) <= IF job[l] = "reading" THEN 1 ELSE 0

\* Nobody is connected to himself; what is on its way, who waits for it and
\* the loop that a handler is in are of a connection.
Wired ==
    \A n, p \in Nodes :
        /\ ~Connected(n, n) /\ job[<<n, n>>] = "none"
        /\ stream[<<n, p>>] # <<>> \/ readers[<<n, p>>] # <<>> => Connected(n, p)
        /\ \A h \in waiting[n] : h.from = p => Connected(n, p)
        /\ holder[n] # Nobody /\ holder[n].from = p => Connected(n, p)

Shape == Types /\ Busy /\ ReadsOnce /\ Wired

-----------------------------------------------------------------------------
(* The steps, by what they do.                                              *)

\* Connections are lost, and nodes die with all of theirs.
Ends(gone, dead) ==
    /\ Close(gone, dead)
    /\ \A n \in dead, c \in conns : n \in c => c \in gone
    /\ UNCHANGED <<chain, stored>>

\* Steps that leave the connections and the fetches as they are.
Apart(n) == Restart(n) \/ Propose(n) \/ \E t \in Txs : Skip(n, t) \/ FindLocal(n, t)

Mutex(n) == Finish(n) \/ \E h \in waiting[n] : Lock(n, h)

Send(n, p) == SendBlock(n, p) \/ SendOther(n, p)

LEMMA Steps ==
    ASSUME [Next]_vars
    PROVE  \/ UNCHANGED vars
           \/ Tick
           \/ \E gone, dead : Ends(gone, dead)
           \/ \E n \in Nodes : Apart(n) \/ Mutex(n)
           \/ \E n \in Nodes, t \in Txs : StartFetch(n, t)
           \/ \E n, p \in Nodes : TakeAnswer(n, p) \/ ReadTimesOut(n, p)
           \/ \E n, p \in Nodes : Connect(n, p) \/ Send(n, p) \/ Read(n, p)
<1>1. ASSUME NEW n \in Nodes, Die(n), UNCHANGED <<chain, stored>>
      PROVE  \E gone, dead : Ends(gone, dead)
  <2>1. Ends({c \in conns : n \in c}, {n})
    BY <1>1 DEF Ends, Die
  <2> QED
    BY <2>1
<1>2. ASSUME NEW n \in Nodes, NEW p \in Nodes, Hangup(n, p)
      PROVE  \E gone, dead : Ends(gone, dead)
  <2>1. Ends({{n, p}}, {})
    BY <1>2 DEF Ends, Hangup
  <2> QED
    BY <2>1
<1>3. CASE \E n \in Nodes : Crash(n) \/ Restart(n) \/ Propose(n)
                               \/ \E h \in waiting[n] : Lock(n, h)
  BY <1>1, <1>3 DEF Crash, Apart, Mutex
<1>4. ASSUME NEW n \in Nodes, Work(n)
      PROVE  \/ \E gone, dead : Ends(gone, dead)
             \/ Apart(n) \/ Mutex(n) \/ \E t \in Txs : StartFetch(n, t)
  BY <1>1, <1>4 DEF Work, FetchAlone, Apart, Mutex
<1>5. ASSUME NEW n \in Nodes, Conclude(n)
      PROVE  \/ \E gone, dead : Ends(gone, dead)
             \/ \E p \in Nodes : TakeAnswer(n, p) \/ ReadTimesOut(n, p)
  BY <1>1, <1>5 DEF Conclude, GiveUp, TakeError
<1>6. CASE \E n, p \in Nodes : Wire(n, p) \/ Read(n, p)
  BY <1>2, <1>6 DEF Wire, Send
<1> HIDE DEF Next
<1>7. \/ Tick \/ UNCHANGED vars
      \/ \E n \in Nodes : Crash(n) \/ Restart(n) \/ Propose(n)
                             \/ \E h \in waiting[n] : Lock(n, h)
      \/ \E n \in Nodes : Work(n) \/ Conclude(n)
      \/ \E n, p \in Nodes : Wire(n, p) \/ Read(n, p)
  BY DEF Next
<1> QED
  BY <1>3, <1>4, <1>5, <1>6, <1>7

\* A fetch asks the peers in good; the sends to the others fail.
LEMMA Asking ==
    ASSUME NEW n \in Nodes, NEW t \in Txs, StartFetch(n, t)
    PROVE  \E good \in SUBSET Peers(n) : \A l \in Links :
              \/ /\ l[1] = n /\ l[2] \in good
                 /\ stream'[l] = Append(stream[l], Ask(t))
                 /\ readers'[l] = Append(readers[l], "job")
                 /\ asked'[l] = Append(asked[l], t)
                 /\ job'[l] = "reading"
              \/ /\ ~(l[1] = n /\ l[2] \in good)
                 /\ stream'[l] = stream[l] /\ readers'[l] = readers[l] /\ asked'[l] = asked[l]
                 /\ \/ job'[l] = job[l]
                    \/ l[1] = n /\ l[2] \in Peers(n) /\ job'[l] \in {"error", "done"}
<1>1. PICK bad \in SUBSET Peers(n), how \in {"error", "done"} :
        LET Good(l) == l[1] = n /\ l[2] \in Peers(n) \ bad
        IN  /\ job' = [l \in Links |-> IF Good(l) THEN "reading"
                                       ELSE IF l[1] = n /\ l[2] \in bad THEN how
                                       ELSE job[l]]
            /\ stream' = [l \in Links |-> IF Good(l) THEN Append(stream[l], Ask(t))
                                          ELSE stream[l]]
            /\ readers' = [l \in Links |-> IF Good(l) THEN Append(readers[l], "job")
                                           ELSE readers[l]]
            /\ asked' = [l \in Links |-> IF Good(l) THEN Append(asked[l], t) ELSE asked[l]]
  BY DEF StartFetch
<1> WITNESS Peers(n) \ bad \in SUBSET Peers(n)
<1> QED
  BY <1>1

\* How many readers of a fetch wait, after each thing that happens to them.
LEMMA ReaderCounts ==
    ASSUME NEW s \in Seq({"loop", "job", "ghost"}), NEW A \in {{"job"}, {"job", "ghost"}}
    PROVE  /\ HowMany(s, A) \in Nat
           /\ HowMany(<<>>, A) = 0 /\ HowMany(<<"loop">>, A) = 0
           /\ HowMany(Append(s, "loop"), A) = HowMany(s, A)
           /\ HowMany(Append(s, "job"), A) = HowMany(s, A) + 1
           /\ s # <<>> =>
                 /\ Head(s) = "loop" => /\ HowMany(Tail(s), A) = HowMany(s, A)
                                        /\ HowMany(Again(s), A) = HowMany(s, A)
                 /\ HowMany(Tail(s), A) <= HowMany(s, A)
                 /\ Head(s) \in A => HowMany(Tail(s), A) = HowMany(s, A) - 1
<1> DEFINE R == {"loop", "job", "ghost"}
<1>0. "loop" \in R /\ "job" \in R /\ "loop" \notin A /\ "job" \in A /\ s \in Seq(R)
  OBVIOUS
<1> HIDE DEF R
<1>1. HowMany(s, A) \in Nat /\ HowMany(<<>>, A) = 0
  BY <1>0, HowManyType, HowManyEmpty
<1>2. \A q \in Seq(R) : HowMany(q, A) \in Nat /\ HowMany(Append(q, "loop"), A) = HowMany(q, A)
  <2> SUFFICES ASSUME NEW q \in Seq(R)
               PROVE  HowMany(q, A) \in Nat /\ HowMany(Append(q, "loop"), A) = HowMany(q, A)
    OBVIOUS
  <2>1. HowMany(q, A) \in Nat
    BY HowManyType
  <2>2. HowMany(Append(q, "loop"), A) = HowMany(q, A) + (IF "loop" \in A THEN 1 ELSE 0)
    BY <1>0, HowManyAppend
  <2> QED
    BY <1>0, <2>1, <2>2
<1>3. HowMany(Append(s, "job"), A) = HowMany(s, A) + 1
  <2>1. HowMany(Append(s, "job"), A) = HowMany(s, A) + (IF "job" \in A THEN 1 ELSE 0)
    BY <1>0, HowManyAppend
  <2> QED
    BY <1>0, <2>1
<1>4. HowMany(<<"loop">>, A) = 0
  <2>1. <<>> \in Seq(R) /\ Append(<<>>, "loop") = <<"loop">>
    OBVIOUS
  <2>2. HowMany(Append(<<>>, "loop"), A) = HowMany(<<>>, A)
    BY <1>2, <2>1
  <2> QED
    BY <1>1, <2>1, <2>2
<1>5. ASSUME s # <<>>
      PROVE  /\ HowMany(s, A) = HowMany(Tail(s), A) + (IF Head(s) \in A THEN 1 ELSE 0)
             /\ HowMany(Tail(s), A) \in Nat
             /\ HowMany(Again(s), A) = HowMany(Tail(s), A)
  <2>1. Tail(s) \in Seq(R)
    BY <1>0, <1>5, HeadTailProperties
  <2>2. HowMany(s, A) = HowMany(Tail(s), A) + (IF Head(s) \in A THEN 1 ELSE 0)
    BY <1>0, <1>5, HowManyTail
  <2> QED
    BY <1>2, <2>1, <2>2 DEF Again
<1> QED
  BY <1>0, <1>1, <1>2, <1>3, <1>4, <1>5

LEMMA GhostCounts ==
    ASSUME NEW s \in Seq({"loop", "job", "ghost"})
    PROVE  LET g == [i \in DOMAIN s |-> IF s[i] = "job" THEN "ghost" ELSE s[i]]
           IN  /\ HowMany(g, {"job"}) = 0
               /\ HowMany(g, {"job", "ghost"}) = HowMany(s, {"job", "ghost"})
<1> DEFINE g == [i \in DOMAIN s |-> IF s[i] = "job" THEN "ghost" ELSE s[i]]
<1>1. Places(g, {"job"}) = {}
  BY DEF Places
<1>2. Places(g, {"job", "ghost"}) = Places(s, {"job", "ghost"})
  BY DEF Places
<1> QED
  BY <1>1, <1>2, FS_EmptySet DEF HowMany

LEMMA ReadsOnceStep ==
    ASSUME Shape, [Next]_vars
    PROVE  ReadsOnce'
<1>0. WireTypes /\ RequestTypes /\ MutexTypes /\ Busy /\ ReadsOnce /\ Wired
  BY DEF Shape, Types
<1> SUFFICES ASSUME NEW l \in Links
             PROVE  Jobs(l)' <= IF job'[l] = "reading" THEN 1 ELSE 0
  BY DEF ReadsOnce
<1>2. /\ readers[l] \in Seq({"loop", "job", "ghost"})
      /\ Jobs(l) \in Nat /\ Jobs(l) <= IF job[l] = "reading" THEN 1 ELSE 0
  BY <1>0, ReaderCounts DEF WireTypes, ReadsOnce, Jobs
<1>3. CASE UNCHANGED <<readers, job>>
  BY <1>2, <1>3 DEF Jobs
<1>4. ASSUME NEW gone, NEW dead, Ends(gone, dead)
      PROVE  Jobs(l)' <= IF job'[l] = "reading" THEN 1 ELSE 0
  <2>1. CASE {l[1], l[2]} \in gone
    <3>1. Jobs(l)' = 0
      BY <1>2, <1>4, <2>1, ReaderCounts DEF Ends, Close, Jobs
    <3> QED
      BY <3>1
  <2>2. CASE {l[1], l[2]} \notin gone
    <3>1. readers'[l] = readers[l] /\ job'[l] \in {job[l], "none"}
      BY <1>4, <2>2 DEF Ends, Close
    <3>2. CASE job'[l] = job[l]
      BY <1>2, <3>1, <3>2 DEF Jobs
    <3>3. CASE l[1] \in dead
      <4>1. PICK n, p \in Nodes : l = <<n, p>>
        BY DEF Links
      <4>2. ~Connected(n, p)
        <5>1. \A m \in dead, c \in conns : m \in c => c \in gone
          BY <1>4 DEF Ends
        <5> QED
          BY <2>2, <3>3, <4>1, <5>1 DEF Connected
      <4>3. readers[l] = <<>>
        BY <1>0, <4>1, <4>2 DEF Wired
      <4>4. Jobs(l)' = 0
        BY <1>2, <3>1, <4>3, ReaderCounts DEF Jobs
      <4> QED
        BY <4>4
    <3> QED
      BY <1>4, <2>2, <3>2, <3>3 DEF Ends, Close
  <2> QED
    BY <2>1, <2>2
<1>5. ASSUME NEW n \in Nodes, Mutex(n)
      PROVE  Jobs(l)' <= IF job'[l] = "reading" THEN 1 ELSE 0
  <2>1. job' = job
    BY <1>5 DEF Mutex, Finish, Lock, request
  <2>2. readers'[l] \in {readers[l], Append(readers[l], "loop")}
    BY <1>0, <1>5 DEF Mutex, Finish, Lock, Resumed, WireTypes
  <2>3. Jobs(l)' = Jobs(l)
    BY <1>2, <2>2, ReaderCounts DEF Jobs
  <2> QED
    BY <1>2, <2>1, <2>3
<1>6. ASSUME NEW n \in Nodes, NEW t \in Txs, StartFetch(n, t)
      PROVE  Jobs(l)' <= IF job'[l] = "reading" THEN 1 ELSE 0
  <2>1. CASE readers'[l] = readers[l] /\ job'[l] = job[l]
    BY <1>2, <2>1 DEF Jobs
  <2>2. CASE l[1] = n
    <3>1. job[l] = "none"
      BY <1>0, <1>6, <2>2 DEF StartFetch, At, Busy, Links
    <3>2. Jobs(l) = 0
      BY <1>2, <3>1
    <3>3. CASE readers'[l] = readers[l]
      BY <1>2, <3>2, <3>3 DEF Jobs
    <3>4. CASE readers'[l] = Append(readers[l], "job") /\ job'[l] = "reading"
      <4>1. Jobs(l)' = Jobs(l) + 1
        BY <1>2, <3>4, ReaderCounts DEF Jobs
      <4> QED
        BY <3>2, <3>4, <4>1
    <3> QED
      BY <1>6, <3>3, <3>4 DEF StartFetch
  <2> QED
    BY <1>6, <2>1, <2>2 DEF StartFetch
<1>7. ASSUME NEW n \in Nodes, NEW p \in Nodes, TakeAnswer(n, p) \/ ReadTimesOut(n, p)
      PROVE  Jobs(l)' <= IF job'[l] = "reading" THEN 1 ELSE 0
  <2>1. CASE readers'[l] = readers[l] /\ job'[l] = job[l]
    BY <1>2, <2>1 DEF Jobs
  <2>2. CASE readers'[l] = [i \in DOMAIN readers[l] |->
                              IF readers[l][i] = "job" THEN "ghost" ELSE readers[l][i]]
    <3>1. Jobs(l)' = 0
      BY <1>2, <2>2, GhostCounts DEF Jobs
    <3> QED
      BY <3>1
  <2>3. CASE TakeAnswer(n, p)
    BY <2>1, <2>2, <2>3 DEF TakeAnswer
  <2>4. CASE ReadTimesOut(n, p)
    BY <1>0, <2>1, <2>2, <2>4 DEF ReadTimesOut, WireTypes, RequestTypes
  <2> QED
    BY <1>7, <2>3, <2>4
<1>8. ASSUME NEW n \in Nodes, NEW p \in Nodes, Connect(n, p)
      PROVE  Jobs(l)' <= IF job'[l] = "reading" THEN 1 ELSE 0
  <2>1. job' = job
    BY <1>8 DEF Connect, request
  <2>2. readers'[l] \in {readers[l], <<"loop">>}
    BY <1>0, <1>8 DEF Connect, WireTypes
  <2>3. Jobs(l)' \in {Jobs(l), 0}
    BY <1>2, <2>2, ReaderCounts DEF Jobs
  <2> QED
    BY <1>2, <2>1, <2>3
<1>9. ASSUME NEW n \in Nodes, NEW p \in Nodes, Read(n, p)
      PROVE  Jobs(l)' <= IF job'[l] = "reading" THEN 1 ELSE 0
  <2>1. CASE l # <<n, p>>
    <3>1. readers'[l] = readers[l] /\ job'[l] = job[l]
      BY <1>0, <1>9, <2>1 DEF Read, LoopAnswers, LoopIgnores, LoopHandles, JobReads,
         GhostReads, request, WireTypes, RequestTypes
    <3> QED
      BY <1>2, <3>1 DEF Jobs
  <2>2. CASE l = <<n, p>> /\ JobReads(n, p)
    <3>1. /\ readers[l] # <<>> /\ Head(readers[l]) = "job"
          /\ readers'[l] = Tail(readers[l])
      BY <1>0, <2>2 DEF JobReads, WireTypes
    <3>2. Jobs(l)' = Jobs(l) - 1
      BY <1>2, <3>1, ReaderCounts DEF Jobs
    <3> QED
      BY <1>2, <3>2
  <2>3. CASE l = <<n, p>> /\ (LoopAnswers(n, p) \/ LoopIgnores(n, p)
                                \/ LoopHandles(n, p) \/ GhostReads(n, p))
    <3>1. readers[l] # <<>> /\ job' = job
      BY <2>3 DEF LoopAnswers, LoopIgnores, LoopHandles, GhostReads, Takes, request
    <3>2. \/ readers'[l] = Tail(readers[l])
          \/ Head(readers[l]) = "loop" /\ readers'[l] = Again(readers[l])
      BY <1>0, <2>3 DEF LoopAnswers, LoopIgnores, LoopHandles, GhostReads, Takes, WireTypes
    <3>3. Jobs(l)' \in Nat /\ Jobs(l)' <= Jobs(l)
      <4>1. readers'[l] \in Seq({"loop", "job", "ghost"})
        <5>1. Tail(readers[l]) \in Seq({"loop", "job", "ghost"})
          BY <1>2, <3>1, HeadTailProperties
        <5>2. Again(readers[l]) \in Seq({"loop", "job", "ghost"})
          BY <5>1, AppendProperties DEF Again
        <5> QED
          BY <3>2, <5>1, <5>2
      <4>2. HowMany(readers'[l], {"job"}) \in Nat
        BY <4>1, ReaderCounts
      <4> QED
        BY <1>2, <3>1, <3>2, <4>2, ReaderCounts DEF Jobs
    <3> QED
      BY <1>2, <3>1, <3>3
  <2> QED
    BY <1>9, <2>1, <2>2, <2>3 DEF Read
<1>10. CASE Tick \/ UNCHANGED vars \/ \E n \in Nodes : Apart(n)
  BY <1>3, <1>10 DEF Tick, Apart, Restart, Propose, Skip, FindLocal, vars, wire, request
<1>11. CASE \E n, p \in Nodes : Send(n, p)
  BY <1>3, <1>11 DEF Send, SendBlock, SendOther, request
<1> QED
  BY Steps, <1>4, <1>5, <1>6, <1>7, <1>8, <1>9, <1>10, <1>11

LEMMA BusyStep ==
    ASSUME Shape, [Next]_vars
    PROVE  Busy'
<1>0. WireTypes /\ RequestTypes /\ MutexTypes /\ Busy /\ ReadsOnce /\ Wired
  BY DEF Shape, Types
<1> DEFINE Idle(n) == \A p \in Nodes : job[<<n, p>>] = "none" /\ got[<<n, p>>] = NoTx
           At1(n) == holder[n] # Nobody /\ holder[n].rest # <<>> /\ fetch[n].tx \in Txs
           BusyAt(n) == (Fetching(n) => At1(n)) /\ (~Fetching(n) => Idle(n))
<1> SUFFICES ASSUME NEW q \in Nodes
             PROVE  BusyAt(q)'
  BY DEF Busy
<1>1. BusyAt(q)
  BY <1>0 DEF Busy
<1>2. CASE UNCHANGED <<holder, fetch, job, got>>
  BY <1>1, <1>2 DEF Fetching
<1>3. ASSUME NEW gone, NEW dead, Ends(gone, dead)
      PROVE  BusyAt(q)'
  <2>1. CASE q \in dead
    BY <1>3, <2>1 DEF Ends, Close, Fetching, Links
  <2>2. CASE q \notin dead
    <3>1. fetch'[q] = fetch[q] /\ holder'[q] = Orphaned(q, holder[q], gone)
      BY <1>3, <2>2 DEF Ends, Close
    <3>2. At1(q) => At1(q)'
      <4>1. holder[q] \in Handlers \cup {Nobody}
        BY <1>0 DEF MutexTypes
      <4> QED
        BY <3>1, <4>1, OrphanedTypes, HandlerTypes
    <3>3. Idle(q) => Idle(q)'
      BY <1>3, <2>2 DEF Ends, Close, Links
    <3> HIDE DEF At1, Idle
    <3> QED
      BY <1>1, <3>1, <3>2, <3>3 DEF Fetching
  <2> QED
    BY <2>1, <2>2
<1>4. ASSUME NEW n \in Nodes, Apart(n) \/ Mutex(n)
      PROVE  BusyAt(q)'
  <2>1. UNCHANGED <<fetch, job, got>>
    BY <1>4 DEF Apart, Restart, Propose, Skip, FindLocal, Mutex, Finish, Lock, request
  <2>2. CASE holder'[q] = holder[q]
    BY <1>1, <2>1, <2>2 DEF Fetching
  <2>3. CASE ~Fetching(q)
    BY <1>1, <2>1, <2>3 DEF Fetching
  <2>4. CASE q # n
    <3>1. holder'[q] = holder[q]
      BY <1>0, <1>4, <2>4 DEF Apart, Restart, Propose, Skip, FindLocal, Done, Mutex,
         Finish, Lock, MutexTypes, mutex
    <3> QED
      BY <2>2, <3>1
  <2>5. CASE Apart(q)
    BY <2>2, <2>3, <2>5 DEF Apart, Restart, Propose, Skip, FindLocal, At, mutex
  <2>6. CASE Mutex(q)
    <3>1. CASE Finish(q)
      BY <1>1, <2>3, <3>1 DEF Finish
    <3>2. CASE \E h \in waiting[q] : Lock(q, h)
      BY <1>1, <2>3, <3>2 DEF Lock
    <3> QED
      BY <2>6, <3>1, <3>2 DEF Mutex
  <2> QED
    BY <1>4, <2>4, <2>5, <2>6
<1>5. ASSUME NEW n \in Nodes, NEW t \in Txs, StartFetch(n, t)
      PROVE  BusyAt(q)'
  <2>1. CASE q = n
    <3>1. fetch'[q].tx = t /\ NoTx # t /\ UNCHANGED holder
      BY <1>0, <1>5, <2>1, TxFetchAssumption DEF StartFetch, RequestTypes, mutex
    <3>2. Fetching(q)' /\ At1(q)'
      BY <1>5, <2>1, <3>1 DEF StartFetch, At, Fetching, NoFetch
    <3> QED
      BY <3>2
  <2>2. CASE q # n
    <3>1. fetch'[q] = fetch[q] /\ UNCHANGED holder /\ UNCHANGED got
      BY <1>0, <1>5, <2>2 DEF StartFetch, RequestTypes, mutex
    <3>2. \A p \in Nodes : job'[<<q, p>>] = job[<<q, p>>]
      BY <1>5, <2>2 DEF StartFetch, Links
    <3> QED
      BY <1>1, <3>1, <3>2 DEF Fetching
  <2> QED
    BY <2>1, <2>2
<1>6. ASSUME NEW n \in Nodes, NEW p \in Nodes, TakeAnswer(n, p)
      PROVE  BusyAt(q)'
  <2>1. CASE q = n
    BY <1>0, <1>6, <2>1 DEF TakeAnswer, Fetching, RequestTypes, Links
  <2>2. CASE q # n
    BY <1>0, <1>1, <1>6, <2>2 DEF TakeAnswer, Done, Fetching, RequestTypes, MutexTypes, Links
  <2> QED
    BY <2>1, <2>2
<1>7. ASSUME NEW n \in Nodes, NEW p \in Nodes, ReadTimesOut(n, p) \/ JobReads(n, p)
      PROVE  BusyAt(q)'
  <2>1. UNCHANGED <<holder, fetch>>
    BY <1>7 DEF ReadTimesOut, JobReads, mutex
  <2>2. CASE q = n
    <3>1. job[<<n, p>>] = "reading"
      <4>1. CASE ReadTimesOut(n, p)
        BY <4>1 DEF ReadTimesOut
      <4>2. CASE JobReads(n, p)
        <5>1. /\ readers[<<n, p>>] # <<>> /\ Head(readers[<<n, p>>]) = "job"
              /\ readers[<<n, p>>] \in Seq({"loop", "job", "ghost"}) /\ <<n, p>> \in Links
          BY <1>0, <4>2 DEF JobReads, WireTypes, Links
        <5>2. /\ Jobs(<<n, p>>) \in Nat /\ HowMany(Tail(readers[<<n, p>>]), {"job"}) \in Nat
              /\ HowMany(Tail(readers[<<n, p>>]), {"job"}) = Jobs(<<n, p>>) - 1
          BY <5>1, ReaderCounts, HeadTailProperties DEF Jobs
        <5> QED
          BY <1>0, <5>1, <5>2 DEF ReadsOnce
      <4> QED
        BY <1>7, <4>1, <4>2
    <3>2. Fetching(q)
      BY <1>1, <2>2, <3>1
    <3> QED
      BY <1>1, <2>1, <3>2 DEF Fetching
  <2>3. CASE q # n
    BY <1>0, <1>1, <1>7, <2>1, <2>3 DEF ReadTimesOut, JobReads, Fetching, RequestTypes, Links
  <2> QED
    BY <2>2, <2>3
<1>8. ASSUME Tick
      PROVE  BusyAt(q)'
  <2>1. UNCHANGED <<holder, job, got>> /\ fetch'[q].tx = fetch[q].tx
    BY <1>0, <1>8 DEF Tick, mutex, RequestTypes
  <2>2. CASE Fetching(q)
    <3>1. fetch[q].tx \in Txs /\ NoTx \notin Txs
      BY <1>1, <2>2, TxFetchAssumption
    <3>2. Fetching(q)'
      BY <2>1, <3>1 DEF Fetching, NoFetch
    <3> QED
      BY <1>1, <2>1, <2>2, <3>2
  <2>3. CASE ~Fetching(q)
    BY <1>1, <1>8, <2>1, <2>3 DEF Tick, Fetching
  <2> QED
    BY <2>2, <2>3
<1>9. CASE UNCHANGED vars
  BY <1>2, <1>9 DEF vars, mutex, request
<1>10. CASE \E n, p \in Nodes : Connect(n, p) \/ Send(n, p)
  BY <1>2, <1>10 DEF Connect, Send, SendBlock, SendOther, mutex, request
<1>11. CASE \E n, p \in Nodes : Read(n, p) /\ ~JobReads(n, p)
  BY <1>2, <1>11 DEF Read, LoopAnswers, LoopIgnores, LoopHandles, GhostReads, mutex, request
<1> HIDE DEF BusyAt
<1> QED
  BY Steps, <1>3, <1>4, <1>5, <1>6, <1>7, <1>8, <1>9, <1>10, <1>11 DEF Read

LEMMA WiredStep ==
    ASSUME Shape, [Next]_vars
    PROVE  Wired'
<1>0. WireTypes /\ RequestTypes /\ MutexTypes /\ Busy /\ Wired
  BY DEF Shape, Types
<1> DEFINE Links1(n, p) == /\ ~Connected(n, n) /\ job[<<n, n>>] = "none"
                           /\ stream[<<n, p>>] # <<>> => Connected(n, p)
                           /\ readers[<<n, p>>] # <<>> => Connected(n, p)
           Handlers1(n, p) == /\ \A h \in waiting[n] : h.from = p => Connected(n, p)
                              /\ holder[n] # Nobody /\ holder[n].from = p => Connected(n, p)
           WiredAt(n, p) == Links1(n, p) /\ Handlers1(n, p)
<1> SUFFICES ASSUME NEW q \in Nodes, NEW r \in Nodes
             PROVE  WiredAt(q, r)'
  BY DEF Wired
<1>1. \A n, p \in Nodes : WiredAt(n, p)
  BY <1>0 DEF Wired
<1>2. \A n, p \in Nodes : <<n, p>> \in Links /\ {n, p} = {p, n}
  BY DEF Links
<1>3. \A n, p \in Nodes : Connected(n, p) <=> Connected(p, n)
  BY <1>2 DEF Connected
<1> HIDE DEF WiredAt
<1>4. CASE UNCHANGED <<conns, stream, readers, waiting, holder, job>>
  BY <1>1, <1>4 DEF Connected, WiredAt
<1>5. ASSUME NEW gone, NEW dead, Ends(gone, dead)
      PROVE  WiredAt(q, r)'
  <2>1. Links1(q, r)'
    BY <1>1, <1>2, <1>5 DEF Ends, Close, Connected, WiredAt
  <2>2. Handlers1(q, r)'
    <3>1. \A h \in Handlers : /\ Orphaned(q, h, gone).from \in {h.from, Nobody}
                              /\ Orphaned(q, h, gone).from = r => {q, r} \notin gone
      BY HandlerTypes DEF Orphaned, Handlers
    <3>2. r # Nobody /\ holder[q] \in Handlers \cup {Nobody} /\ waiting[q] \subseteq Handlers
      BY <1>0, HandlerTypes DEF MutexTypes
    <3>3. Orphaned(q, Nobody, gone) = Nobody
      BY DEF Orphaned
    <3>4. ASSUME NEW h \in waiting'[q], h.from = r
          PROVE  Connected(q, r)'
      <4>1. q \notin dead
        BY <1>5, <3>4 DEF Ends, Close
      <4>2. PICK g \in waiting[q] : h = Orphaned(q, g, gone)
        BY <1>5, <3>4, <4>1 DEF Ends, Close
      <4>3. g.from = r /\ {q, r} \notin gone
        BY <3>1, <3>2, <3>4, <4>2
      <4> QED
        BY <1>1, <1>5, <4>3 DEF Ends, Close, Connected, WiredAt
    <3>5. ASSUME holder'[q] # Nobody, holder'[q].from = r
          PROVE  Connected(q, r)'
      <4>1. q \notin dead /\ holder'[q] = Orphaned(q, holder[q], gone)
        BY <1>5, <3>5 DEF Ends, Close
      <4>2. holder[q] \in Handlers
        BY <3>2, <3>3, <3>5, <4>1
      <4>3. holder[q].from = r /\ {q, r} \notin gone
        BY <3>1, <3>2, <3>5, <4>1, <4>2
      <4>4. holder[q] # Nobody
        BY <4>2, HandlerTypes
      <4> QED
        BY <1>1, <1>5, <4>3, <4>4 DEF Ends, Close, Connected, WiredAt
    <3> QED
      BY <3>4, <3>5
  <2> QED
    BY <2>1, <2>2 DEF WiredAt
<1>6. ASSUME NEW n \in Nodes, Apart(n) \/ Mutex(n)
      PROVE  WiredAt(q, r)'
  <2>1. UNCHANGED <<conns, stream, job>>
    BY <1>6 DEF Apart, Restart, Propose, Skip, FindLocal, Mutex, Finish, Lock, wire, request
  <2>2. \A h : h \in waiting'[q] => h \in waiting[q]
    BY <1>0, <1>6 DEF Apart, Restart, Propose, Skip, FindLocal, Mutex, Finish, Lock, mutex,
       MutexTypes
  <2>3. holder'[q] # Nobody => \/ holder[q] # Nobody /\ holder'[q].from = holder[q].from
                               \/ holder'[q] \in waiting[q]
    <3>1. CASE q = n /\ \E t \in Txs : Skip(n, t) \/ FindLocal(n, t)
      <4>1. holder[q] \in Handlers
        BY <1>0, <3>1 DEF Skip, FindLocal, At, MutexTypes
      <4>2. holder'[q] = [holder[q] EXCEPT !.rest = Tail(@)] /\ holder[q] # Nobody
        BY <1>0, <3>1 DEF Skip, FindLocal, At, Done, MutexTypes
      <4> QED
        BY <4>1, <4>2 DEF Handlers
    <3>2. CASE holder'[q] = holder[q]
      BY <3>2
    <3>3. CASE q # n
      BY <1>0, <1>6, <3>2, <3>3 DEF Apart, Restart, Propose, Skip, FindLocal, Done, Mutex,
         Finish, Lock, MutexTypes, mutex
    <3>4. CASE Mutex(q)
      BY <1>0, <3>2, <3>4 DEF Mutex, Finish, Lock, MutexTypes
    <3>5. CASE Restart(q) \/ Propose(q)
      BY <3>2, <3>5 DEF Restart, Propose, mutex
    <3> QED
      BY <1>6, <3>1, <3>3, <3>4, <3>5 DEF Apart
  <2>4. readers'[<<q, r>>] # <<>> => Connected(q, r)
    <3>1. CASE readers'[<<q, r>>] = readers[<<q, r>>]
      BY <1>1, <3>1 DEF WiredAt
    <3>2. CASE \E h \in Handlers : /\ readers' = Resumed(q, h)
                                   /\ h \in waiting[q] \/ holder[q] = h
      <4>1. PICK h \in Handlers : /\ readers' = Resumed(q, h)
                                  /\ h \in waiting[q] \/ holder[q] = h
        BY <3>2
      <4>2. CASE h.from = r
        <5>1. h # Nobody
          BY HandlerTypes
        <5> QED
          BY <1>1, <4>1, <4>2, <5>1 DEF WiredAt
      <4>3. CASE h.from # r
        BY <1>0, <3>1, <4>1, <4>3 DEF Resumed, WireTypes
      <4> QED
        BY <4>2, <4>3
    <3>3. CASE q # n
      <4>1. \A h : Resumed(n, h)[<<q, r>>] = readers[<<q, r>>]
        BY <1>0, <1>2, <3>3 DEF Resumed, WireTypes
      <4>2. readers'[<<q, r>>] = readers[<<q, r>>]
        BY <1>6, <4>1 DEF Apart, Restart, Propose, Skip, FindLocal, Mutex, Finish, Lock, wire
      <4> QED
        BY <3>1, <4>2
    <3>4. CASE Apart(q)
      BY <3>1, <3>4 DEF Apart, Restart, Propose, Skip, FindLocal, wire
    <3>5. CASE Mutex(q)
      <4>1. CASE Finish(q)
        BY <1>0, <3>2, <4>1 DEF Finish, MutexTypes
      <4>2. ASSUME NEW h \in waiting[q], Lock(q, h)
            PROVE  readers'[<<q, r>>] # <<>> => Connected(q, r)
        BY <1>0, <3>1, <3>2, <4>2 DEF Lock, MutexTypes
      <4> QED
        BY <3>5, <4>1, <4>2 DEF Mutex
    <3> QED
      BY <1>6, <3>3, <3>4, <3>5
  <2> QED
    BY <1>1, <2>1, <2>2, <2>3, <2>4 DEF WiredAt, Connected
<1>7. ASSUME NEW n \in Nodes, NEW t \in Txs, StartFetch(n, t)
      PROVE  WiredAt(q, r)'
  <2>1. UNCHANGED <<conns, waiting, holder>>
    BY <1>7 DEF StartFetch, mutex
  <2>2. \A l \in Links :
           \/ l[1] = n /\ l[2] \in Peers(n)
           \/ stream'[l] = stream[l] /\ readers'[l] = readers[l] /\ job'[l] = job[l]
    BY <1>7, Asking
  <2>3. n \notin Peers(n)
    BY <1>1 DEF WiredAt, Peers
  <2>4. job'[<<q, q>>] = "none"
    BY <1>1, <1>2, <2>2, <2>3 DEF WiredAt
  <2>5. stream'[<<q, r>>] # <<>> \/ readers'[<<q, r>>] # <<>> => Connected(q, r)
    BY <1>1, <1>2, <2>2 DEF WiredAt, Peers
  <2> QED
    BY <1>1, <2>1, <2>4, <2>5 DEF WiredAt, Connected
<1>8. ASSUME NEW n \in Nodes, NEW p \in Nodes, TakeAnswer(n, p) \/ ReadTimesOut(n, p)
      PROVE  WiredAt(q, r)'
  <2>1. UNCHANGED <<conns, stream, waiting>>
    BY <1>8 DEF TakeAnswer, ReadTimesOut, mutex
  <2>2. job'[<<q, q>>] = "none"
    BY <1>0, <1>1, <1>2, <1>8 DEF TakeAnswer, ReadTimesOut, RequestTypes, WiredAt
  <2>3. holder'[q] # Nobody => holder[q] # Nobody /\ holder'[q].from = holder[q].from
    <3>1. CASE TakeAnswer(n, p) /\ q = n
      <4>1. holder[q] \in Handlers /\ holder[q] # Nobody
        BY <1>0, <3>1 DEF TakeAnswer, Busy, MutexTypes
      <4>2. holder'[q] = [holder[q] EXCEPT !.rest = Tail(@)]
        BY <1>0, <3>1 DEF TakeAnswer, Done, MutexTypes
      <4> QED
        BY <4>1, <4>2 DEF Handlers
    <3>2. CASE TakeAnswer(n, p) /\ q # n
      BY <1>0, <3>2 DEF TakeAnswer, Done, MutexTypes
    <3>3. CASE ReadTimesOut(n, p)
      BY <3>3 DEF ReadTimesOut, mutex
    <3> QED
      BY <1>8, <3>1, <3>2, <3>3
  <2>4. readers[<<q, r>>] = <<>> => readers'[<<q, r>>] = <<>>
    <3>1. CASE readers'[<<q, r>>] = readers[<<q, r>>]
      BY <3>1
    <3>2. CASE readers'[<<q, r>>] =
                 [i \in DOMAIN readers[<<q, r>>] |->
                    IF readers[<<q, r>>][i] = "job" THEN "ghost" ELSE readers[<<q, r>>][i]]
      <4>1. readers[<<q, r>>] \in Seq({"loop", "job", "ghost"})
        BY <1>0, <1>2 DEF WireTypes
      <4>2. readers'[<<q, r>>] \in Seq({"loop", "job", "ghost"})
        BY <3>2, <4>1, GhostTypes
      <4> QED
        BY <3>2, <4>1, <4>2, EmptySeq, LenProperties
    <3>3. CASE TakeAnswer(n, p)
      BY <1>2, <3>1, <3>2, <3>3 DEF TakeAnswer
    <3>4. CASE ReadTimesOut(n, p)
      BY <1>0, <1>2, <3>1, <3>2, <3>4 DEF ReadTimesOut, WireTypes
    <3> QED
      BY <1>8, <3>3, <3>4
  <2> QED
    BY <1>1, <2>1, <2>2, <2>3, <2>4 DEF WiredAt, Connected
<1>9. ASSUME NEW n \in Nodes, NEW p \in Nodes, Connect(n, p)
      PROVE  WiredAt(q, r)'
  <2>1. UNCHANGED <<stream, waiting, holder, job>> /\ conns' = conns \cup {{n, p}} /\ n # p
    BY <1>9 DEF Connect, mutex, request
  <2>2. readers'[<<q, r>>] # <<>> => readers[<<q, r>>] # <<>> \/ {q, r} = {n, p}
    BY <1>0, <1>2, <1>9 DEF Connect, WireTypes
  <2> QED
    BY <1>1, <2>1, <2>2 DEF WiredAt, Connected
<1>10. ASSUME NEW n \in Nodes, NEW p \in Nodes, Send(n, p)
       PROVE  WiredAt(q, r)'
  <2>1. UNCHANGED <<conns, readers, waiting, holder, job>> /\ Connected(n, p)
    BY <1>10 DEF Send, SendBlock, SendOther, mutex, request
  <2>2. stream'[<<q, r>>] # <<>> => stream[<<q, r>>] # <<>> \/ (q = n /\ r = p)
    BY <1>0, <1>2, <1>10 DEF Send, SendBlock, SendOther, WireTypes
  <2> QED
    BY <1>1, <2>1, <2>2 DEF WiredAt, Connected
<1>11. ASSUME NEW n \in Nodes, NEW p \in Nodes, Read(n, p)
       PROVE  WiredAt(q, r)'
  <2>1. /\ UNCHANGED <<conns, holder>> /\ stream[<<p, n>>] # <<>> /\ readers[<<n, p>>] # <<>>
        /\ \A l \in Links : l # <<n, p>> => UNCHANGED <<readers[l], job[l]>>
    BY <1>0, <1>11 DEF Read, LoopAnswers, LoopIgnores, LoopHandles, JobReads, GhostReads,
       Takes, mutex, request, WireTypes, RequestTypes
  <2>2. Connected(n, p) /\ n # p
    BY <1>1, <1>3, <2>1 DEF WiredAt
  <2>3. stream'[<<q, r>>] # <<>> => stream[<<q, r>>] # <<>> \/ {q, r} = {n, p}
    BY <1>0, <1>2, <1>11 DEF Read, LoopAnswers, LoopIgnores, LoopHandles, JobReads, GhostReads,
       Takes, WireTypes
  <2>4. readers'[<<q, r>>] # <<>> => readers[<<q, r>>] # <<>> \/ {q, r} = {n, p}
    BY <1>2, <2>1
  <2>5. job'[<<q, q>>] = "none"
    BY <1>1, <1>2, <2>1, <2>2 DEF WiredAt
  <2>6. \A h \in waiting'[q] : h.from = r => Connected(q, r)
    <3>1. CASE LoopHandles(n, p)
      <4> DEFINE m == Head(stream[<<p, n>>])
                 h == Handler(p, m.index, m.txs)
      <4>1. waiting' = [waiting EXCEPT ![n] = @ \cup {h}]
        BY <3>1 DEF LoopHandles
      <4>2. h.from = p
        BY DEF Handler
      <4> HIDE DEF h
      <4>3. \A g \in waiting'[q] : g \in waiting[q] \/ (q = n /\ g = h)
        <5>1. waiting'[q] = IF q = n THEN waiting[q] \cup {h} ELSE waiting[q]
          BY <1>0, <4>1 DEF MutexTypes
        <5> QED
          BY <5>1
      <4> SUFFICES ASSUME NEW g \in waiting'[q], g.from = r
                   PROVE  Connected(q, r)
        OBVIOUS
      <4>4. CASE g \in waiting[q]
        BY <1>1, <4>4 DEF WiredAt
      <4>5. CASE q = n /\ g = h
        <5>1. q = n /\ r = p
          BY <4>2, <4>5
        <5> QED
          BY <2>2, <5>1
      <4> QED
        BY <4>3, <4>4, <4>5
    <3>2. CASE UNCHANGED waiting
      BY <1>1, <3>2 DEF WiredAt
    <3> QED
      BY <1>11, <3>1, <3>2 DEF Read, LoopAnswers, LoopIgnores, JobReads, GhostReads, mutex
  <2> QED
    BY <1>1, <2>1, <2>2, <2>3, <2>4, <2>5, <2>6 DEF WiredAt, Connected
<1>12. CASE Tick \/ UNCHANGED vars
  BY <1>4, <1>12 DEF Tick, vars, wire, mutex, request
<1> QED
  BY Steps, <1>5, <1>6, <1>7, <1>8, <1>9, <1>10, <1>11, <1>12

LEMMA ShapeInit == Init => Shape
<1> SUFFICES ASSUME Init PROVE Shape
  OBVIOUS
<1>1. Types
  BY InitTypes
<1>2. Busy
  BY DEF Init, Busy, Fetching, Links
<1>3. ReadsOnce
  BY HowManyEmpty DEF Init, ReadsOnce, Jobs
<1>4. Wired
  BY DEF Init, Wired, Connected, Links
<1> QED
  BY <1>1, <1>2, <1>3, <1>4 DEF Shape

LEMMA ShapeStep == Shape /\ [Next]_vars => Shape'
<1> SUFFICES ASSUME Shape, [Next]_vars PROVE Shape'
  OBVIOUS
<1>1. Types'
  <2>1. Types /\ Busy
    BY DEF Shape
  <2>2. CASE UNCHANGED vars
    <3>1. UNCHANGED <<node, wire, mutex, request, history, budget>>
      BY <2>2 DEF vars
    <3> QED
      BY <2>1, <3>1, Kept DEF Types
  <2>3. CASE Next
    BY <2>1, <2>3, TickTypes, NodeActionTypes, WorkTypes, ConcludeTypes, WireActionTypes,
       ReadTypes DEF Next, Busy
  <2> QED
    BY <2>2, <2>3
<1> QED
  BY <1>1, BusyStep, ReadsOnceStep, WiredStep DEF Shape

\* The state of the fetches has its shape.
THEOREM FetchTypeCorrect == Spec => []TypeOK
<1>1. Init => Shape
  BY ShapeInit
<1>2. Shape /\ [Next]_vars => Shape'
  BY ShapeStep
<1>3. Shape => TypeOK
  BY TypesOK DEF Shape
<1> QED
  BY <1>1, <1>2, <1>3, PTL DEF Spec

-----------------------------------------------------------------------------
(* What a fetch costs the receive loop.                                     *)

Costs(l) == HowMany(readers[l], {"job", "ghost"})

LEMMA CostsStep ==
    ASSUME Shape, [Next]_vars, OneMessagePerFetch
    PROVE  OneMessagePerFetch'
<1>0. WireTypes /\ HistoryTypes /\ MutexTypes
  BY DEF Shape, Types
<1>1. \A l \in Links : /\ readers[l] \in Seq({"loop", "job", "ghost"})
                       /\ Costs(l) \in Nat /\ taken[l] \in Nat
                       /\ asked[l] \in Seq(Txs) /\ Len(asked[l]) \in Nat
  BY <1>0, ReaderCounts, LenProperties DEF WireTypes, HistoryTypes, Costs
<1>2. ASSUME NEW l \in Links
      PROVE  Readers(l) = Places(readers[l], {"job", "ghost"})
  BY <1>1, <1>2, ElementOfSeq, LenProperties DEF Readers, Places
<1>3. WireTypes'
  BY ShapeStep DEF Shape, Types
<1>4. ASSUME NEW l \in Links
      PROVE  Readers(l)' = Places(readers'[l], {"job", "ghost"})
  <2>1. readers'[l] \in Seq({"loop", "job", "ghost"})
    BY <1>3, <1>4 DEF WireTypes
  <2> QED
    BY <2>1, ElementOfSeq, LenProperties DEF Readers, Places
<1> SUFFICES ASSUME NEW l \in Links
             PROVE  taken'[l] + Costs(l)' <= Len(asked'[l])
  BY <1>4 DEF OneMessagePerFetch, Costs, HowMany
<1>5. taken[l] + Costs(l) <= Len(asked[l])
  BY <1>2 DEF OneMessagePerFetch, Costs, HowMany
<1>6. CASE UNCHANGED <<readers, taken, asked>>
  BY <1>5, <1>6 DEF Costs
<1>7. ASSUME NEW gone, NEW dead, Ends(gone, dead)
      PROVE  taken'[l] + Costs(l)' <= Len(asked'[l])
  <2>1. CASE {l[1], l[2]} \in gone
    <3>1. taken'[l] = 0 /\ asked'[l] = <<>> /\ readers'[l] = <<>>
      BY <1>7, <2>1 DEF Ends, Close
    <3>2. Costs(l)' = 0
      BY <3>1, HowManyEmpty DEF Costs
    <3> QED
      BY <3>1, <3>2
  <2>2. CASE {l[1], l[2]} \notin gone
    BY <1>5, <1>7, <2>2 DEF Ends, Close, Costs
  <2> QED
    BY <2>1, <2>2
<1>8. ASSUME NEW n \in Nodes, Mutex(n)
      PROVE  taken'[l] + Costs(l)' <= Len(asked'[l])
  <2>1. UNCHANGED <<taken, asked>>
    BY <1>8 DEF Mutex, Finish, Lock, history
  <2>2. readers'[l] \in {readers[l], Append(readers[l], "loop")}
    BY <1>0, <1>8 DEF Mutex, Finish, Lock, Resumed, WireTypes
  <2>3. Costs(l)' = Costs(l)
    BY <1>1, <2>2, ReaderCounts DEF Costs
  <2> QED
    BY <1>5, <2>1, <2>3
<1>9. ASSUME NEW n \in Nodes, NEW t \in Txs, StartFetch(n, t)
      PROVE  taken'[l] + Costs(l)' <= Len(asked'[l])
  <2>1. taken' = taken
    BY <1>9 DEF StartFetch
  <2>2. CASE readers'[l] = readers[l] /\ asked'[l] = asked[l]
    BY <1>5, <2>1, <2>2 DEF Costs
  <2>3. CASE readers'[l] = Append(readers[l], "job") /\ asked'[l] = Append(asked[l], t)
    <3>1. Costs(l)' = Costs(l) + 1
      BY <1>1, <2>3, ReaderCounts DEF Costs
    <3>2. Len(asked'[l]) = Len(asked[l]) + 1
      BY <1>1, <2>3, AppendProperties
    <3> QED
      BY <1>1, <1>5, <2>1, <3>1, <3>2
  <2> QED
    BY <1>9, <2>2, <2>3, Asking
<1>10. ASSUME NEW n \in Nodes, NEW p \in Nodes, TakeAnswer(n, p) \/ ReadTimesOut(n, p)
       PROVE  taken'[l] + Costs(l)' <= Len(asked'[l])
  <2>1. UNCHANGED <<taken, asked>>
    BY <1>10 DEF TakeAnswer, ReadTimesOut, history
  <2>2. CASE readers'[l] = readers[l]
    BY <1>5, <2>1, <2>2 DEF Costs
  <2>3. CASE readers'[l] = [i \in DOMAIN readers[l] |->
                              IF readers[l][i] = "job" THEN "ghost" ELSE readers[l][i]]
    <3>1. Costs(l)' = Costs(l)
      BY <1>1, <2>3, GhostCounts DEF Costs
    <3> QED
      BY <1>5, <2>1, <3>1
  <2>4. CASE TakeAnswer(n, p)
    BY <2>2, <2>3, <2>4 DEF TakeAnswer
  <2>5. CASE ReadTimesOut(n, p)
    BY <1>0, <2>2, <2>3, <2>5 DEF ReadTimesOut, WireTypes
  <2> QED
    BY <1>10, <2>4, <2>5
<1>11. ASSUME NEW n \in Nodes, NEW p \in Nodes, Connect(n, p)
       PROVE  taken'[l] + Costs(l)' <= Len(asked'[l])
  <2>1. UNCHANGED <<taken, asked>> /\ readers'[l] \in {readers[l], <<"loop">>}
    BY <1>0, <1>11 DEF Connect, WireTypes, history
  <2>2. Costs(l)' \in {Costs(l), 0}
    BY <1>1, <2>1, ReaderCounts DEF Costs
  <2> QED
    BY <1>1, <1>5, <2>1, <2>2
<1>12. ASSUME NEW n \in Nodes, NEW p \in Nodes, Read(n, p)
       PROVE  taken'[l] + Costs(l)' <= Len(asked'[l])
  <2>1. CASE l # <<n, p>>
    <3>1. readers'[l] = readers[l] /\ taken'[l] = taken[l] /\ asked' = asked
      BY <1>0, <1>12, <2>1 DEF Read, LoopAnswers, LoopIgnores, LoopHandles, JobReads,
         GhostReads, history, WireTypes, HistoryTypes
    <3> QED
      BY <1>5, <3>1 DEF Costs
  <2>2. CASE l = <<n, p>> /\ (JobReads(n, p) \/ GhostReads(n, p))
    <3>1. /\ readers[l] # <<>> /\ Head(readers[l]) \in {"job", "ghost"}
          /\ readers'[l] = Tail(readers[l])
          /\ taken'[l] = taken[l] + 1 /\ asked' = asked
      BY <1>0, <2>2 DEF JobReads, GhostReads, WireTypes, HistoryTypes
    <3>2. Costs(l)' = Costs(l) - 1
      BY <1>1, <3>1, ReaderCounts DEF Costs
    <3> QED
      BY <1>1, <1>5, <3>1, <3>2
  <2>3. CASE l = <<n, p>> /\ (LoopAnswers(n, p) \/ LoopIgnores(n, p) \/ LoopHandles(n, p))
    <3>1. /\ readers[l] # <<>> /\ Head(readers[l]) = "loop"
          /\ UNCHANGED <<taken, asked>>
          /\ readers'[l] \in {Tail(readers[l]), Again(readers[l])}
      BY <1>0, <2>3 DEF LoopAnswers, LoopIgnores, LoopHandles, Takes, history, WireTypes
    <3>2. Costs(l)' = Costs(l)
      BY <1>1, <3>1, ReaderCounts DEF Costs
    <3> QED
      BY <1>5, <3>1, <3>2
  <2> QED
    BY <1>12, <2>1, <2>2, <2>3 DEF Read
<1>13. CASE Tick \/ UNCHANGED vars \/ \E n \in Nodes : Apart(n)
  BY <1>6, <1>13 DEF Tick, Apart, Restart, Propose, Skip, FindLocal, vars, wire, history
<1>14. CASE \E n, p \in Nodes : Send(n, p)
  BY <1>6, <1>14 DEF Send, SendBlock, SendOther, history
<1> QED
  BY Steps, <1>7, <1>8, <1>9, <1>10, <1>11, <1>12, <1>13, <1>14

\* A request takes one message at most from the receive loop.
THEOREM FetchesCostOneMessage == Spec => []OneMessagePerFetch
<1>1. Init => Shape /\ OneMessagePerFetch
  <2> SUFFICES ASSUME Init, NEW l \in Links
               PROVE  taken[l] + Cardinality(Readers(l)) <= Len(asked[l])
    BY ShapeInit DEF OneMessagePerFetch
  <2>1. Readers(l) = {} /\ taken[l] = 0 /\ asked[l] = <<>>
    BY DEF Init, Readers
  <2> QED
    BY <2>1, FS_EmptySet
<1>2. Shape /\ OneMessagePerFetch /\ [Next]_vars => (Shape /\ OneMessagePerFetch)'
  BY ShapeStep, CostsStep
<1> QED
  BY <1>1, <1>2, PTL DEF Spec

-----------------------------------------------------------------------------
(* Nodes wait uphill.                                                       *)

\* Who reads takes one message, and may send the answer to it.
LEMMA Reading ==
    ASSUME Shape, NEW n \in Nodes, NEW p \in Nodes, Read(n, p)
    PROVE  /\ n # p /\ <<p, n>> \in Links /\ <<n, p>> \in Links
           /\ stream[<<p, n>>] # <<>> /\ stream'[<<p, n>>] = Tail(stream[<<p, n>>])
           /\ \A l \in Links \ {<<p, n>>, <<n, p>>} : stream'[l] = stream[l]
           /\ \/ stream'[<<n, p>>] = stream[<<n, p>>]
              \/ \E t \in Txs : /\ Head(stream[<<p, n>>]) = Ask(t) /\ Holds(n, t)
                                /\ stream'[<<n, p>>] = Append(stream[<<n, p>>], Answer(t))
<1>1. /\ stream \in [Links -> Seq(Messages)]
      /\ <<p, n>> \in Links /\ <<n, p>> \in Links
      /\ stream[<<p, n>>] # <<>>
  BY DEF Shape, Types, WireTypes, Links, Read, LoopAnswers, LoopIgnores, LoopHandles,
     JobReads, GhostReads, Takes
<1>2. n # p
  BY <1>1 DEF Shape, Wired
<1>3. CASE LoopAnswers(n, p)
  <2>1. PICK t \in Txs :
          /\ Takes(n, p, "loop", Ask(t))
          /\ stream' = [stream EXCEPT ![<<p, n>>] = Tail(@),
                            ![<<n, p>>] = @ \o Response(n, t)]
    BY <1>3 DEF LoopAnswers
  <2>2. /\ stream'[<<p, n>>] = Tail(stream[<<p, n>>])
        /\ stream'[<<n, p>>] = stream[<<n, p>>] \o Response(n, t)
        /\ \A l \in Links \ {<<p, n>>, <<n, p>>} : stream'[l] = stream[l]
    BY <1>1, <1>2, <2>1
  <2>3. stream[<<n, p>>] \in Seq(Messages) /\ Answer(t) \in Messages
    BY <1>1, MessageTypes
  <2>4. CASE Holds(n, t)
    <3>1. stream'[<<n, p>>] = Append(stream[<<n, p>>], Answer(t))
      <4>1. Response(n, t) = <<Answer(t)>>
        BY <2>4 DEF Response
      <4>2. stream[<<n, p>>] \o <<Answer(t)>> = Append(stream[<<n, p>>], Answer(t))
        BY <2>3, AppendIsConcat
      <4> QED
        BY <2>2, <4>1, <4>2
    <3> QED
      BY <1>1, <1>2, <2>1, <2>2, <2>4, <3>1 DEF Takes
  <2>5. CASE ~Holds(n, t)
    <3>1. Response(n, t) = <<>>
      BY <2>5 DEF Response
    <3>2. stream[<<n, p>>] \o <<>> = stream[<<n, p>>]
      BY <2>3, ConcatEmptySeq
    <3> QED
      BY <1>1, <1>2, <2>2, <3>1, <3>2
  <2> QED
    BY <2>4, <2>5
<1>4. CASE LoopIgnores(n, p) \/ LoopHandles(n, p) \/ JobReads(n, p) \/ GhostReads(n, p)
  <2>1. stream' = [stream EXCEPT ![<<p, n>>] = Tail(@)]
    BY <1>4 DEF LoopIgnores, LoopHandles, JobReads, GhostReads
  <2> QED
    BY <1>1, <1>2, <2>1
<1> QED
  BY <1>3, <1>4 DEF Read

\* A chain never gets shorter.
LEMMA ChainsGrow ==
    ASSUME Shape, [Next]_vars, NEW n \in Nodes
    PROVE  /\ Len(chain[n]) \in Nat /\ Len(chain'[n]) \in Nat
           /\ Len(chain[n]) <= Len(chain'[n])
           /\ holder[n] # Nobody /\ holder'[n] # Nobody => chain'[n] = chain[n]
<1>0. NodeTypes /\ MutexTypes
  BY DEF Shape, Types
<1>1. chain[n] \in Seq(Seq(Txs)) /\ Len(chain[n]) \in Nat
  BY <1>0, LenProperties DEF NodeTypes
<1>2. CASE chain'[n] = chain[n]
  BY <1>1, <1>2
<1>3. ASSUME NEW m \in Nodes, Propose(m)
      PROVE  \/ chain'[n] = chain[n]
             \/ /\ \E ts \in Seq(Txs) : chain'[n] = Append(chain[n], ts)
                /\ holder[n] = Nobody
  <2>1. PICK ts \in Orders(pool[m] \ stored[m]) : chain' = [chain EXCEPT ![m] = Append(@, ts)]
    BY <1>3 DEF Propose
  <2>2. ts \in Seq(Txs)
    BY <1>0, OrderTypes DEF NodeTypes
  <2> QED
    BY <1>0, <1>3, <2>1, <2>2 DEF NodeTypes, Propose
<1>4. ASSUME NEW m \in Nodes, Finish(m)
      PROVE  \/ chain'[n] = chain[n]
             \/ /\ \E ts \in Seq(Txs) : chain'[n] = Append(chain[n], ts)
                /\ holder'[n] = Nobody
  <2>1. holder[m].txs \in Seq(Txs)
    BY <1>0, <1>4, HandlerTypes DEF Finish, MutexTypes
  <2> QED
    BY <1>0, <1>4, <2>1 DEF Finish, NodeTypes, MutexTypes
<1>5. ASSUME NEW ts \in Seq(Txs), chain'[n] = Append(chain[n], ts)
      PROVE  Len(chain'[n]) \in Nat /\ Len(chain[n]) <= Len(chain'[n])
  <2>1. Len(chain'[n]) = Len(chain[n]) + 1
    BY <1>1, <1>5, AppendProperties
  <2> QED
    BY <1>1, <2>1
<1>6. \/ UNCHANGED chain
      \/ \E m \in Nodes : Propose(m) \/ Finish(m)
  <2>1. CASE UNCHANGED vars \/ Tick \/ \E gone, dead : Ends(gone, dead)
    BY <2>1 DEF Tick, vars, node, Ends
  <2>2. CASE \E m \in Nodes : Apart(m) \/ Mutex(m)
    BY <2>2 DEF Apart, Restart, Skip, FindLocal, Mutex, Lock, node
  <2>3. CASE \/ \E m \in Nodes, t \in Txs : StartFetch(m, t)
             \/ \E m, p \in Nodes : TakeAnswer(m, p) \/ ReadTimesOut(m, p)
    BY <2>3 DEF StartFetch, TakeAnswer, ReadTimesOut, node
  <2>4. CASE \E m, p \in Nodes : Connect(m, p) \/ Send(m, p)
    BY <2>4 DEF Connect, Send, SendBlock, SendOther, node
  <2>5. CASE \E m, p \in Nodes : Read(m, p)
    BY <2>5 DEF Read, LoopAnswers, LoopIgnores, LoopHandles, JobReads, GhostReads, node
  <2> QED
    BY Steps, <2>1, <2>2, <2>3, <2>4, <2>5
<1> QED
  BY <1>1, <1>2, <1>3, <1>4, <1>5, <1>6

\* The blocks in s are of a chain of height k.
Below(s, k) == \A i \in DOMAIN s : s[i].type = "block" => s[i].index <= k

LEMMA BelowSteps ==
    ASSUME NEW s \in Seq(Messages), NEW k \in Nat, NEW m \in Messages, Below(s, k)
    PROVE  /\ (m.type = "block" => m.index <= k) => Below(Append(s, m), k)
           /\ s # <<>> => Below(Tail(s), k) /\ Below(<<Head(s)>>, k)
           /\ \A j \in Nat : k <= j => Below(s, j)
<1>1. /\ \A i \in DOMAIN s : s[i] \in Messages
      /\ DOMAIN s = 1 .. Len(s) /\ Len(s) \in Nat
  BY ElementOfSeq, LenProperties
<1>2. (m.type = "block" => m.index <= k) => Below(Append(s, m), k)
  <2>1. \A i \in DOMAIN Append(s, m) : \/ i \in DOMAIN s /\ Append(s, m)[i] = s[i]
                                       \/ Append(s, m)[i] = m
    BY <1>1, AppendProperties
  <2> QED
    BY <2>1 DEF Below
<1>3. s # <<>> => Below(Tail(s), k) /\ Below(<<Head(s)>>, k)
  <2> SUFFICES ASSUME s # <<>> PROVE Below(Tail(s), k) /\ Below(<<Head(s)>>, k)
    OBVIOUS
  <2>1. /\ \A i \in DOMAIN Tail(s) : i + 1 \in DOMAIN s /\ Tail(s)[i] = s[i + 1]
        /\ Head(s) = s[1] /\ 1 \in DOMAIN s
    BY <1>1, HeadTailProperties, EmptySeq
  <2> QED
    BY <2>1 DEF Below
<1>4. \A j \in Nat : k <= j => Below(s, j)
  <2> SUFFICES ASSUME NEW j \in Nat, k <= j, NEW i \in DOMAIN s, s[i].type = "block"
               PROVE  s[i].index <= j
    BY DEF Below
  <2>1. s[i].index \in 1 .. MaxHeight /\ s[i].index <= k
    BY <1>1, MessageTypes DEF Below
  <2> QED
    BY <2>1, TxFetchAssumption
<1> QED
  BY <1>2, <1>3, <1>4

LEMMA Sending ==
    ASSUME Shape, NEW n \in Nodes, NEW p \in Nodes, Send(n, p)
    PROVE  \E m \in Messages :
              /\ m.type = "other" \/ (m.type = "block" /\ m.index <= Len(chain[n]))
              /\ stream'[<<n, p>>] = Append(stream[<<n, p>>], m)
              /\ \A l \in Links \ {<<n, p>>} : stream'[l] = stream[l]
<1> DEFINE Sent(m) ==
              /\ m.type = "other" \/ (m.type = "block" /\ m.index <= Len(chain[n]))
              /\ stream'[<<n, p>>] = Append(stream[<<n, p>>], m)
              /\ \A l \in Links \ {<<n, p>>} : stream'[l] = stream[l]
<1> SUFFICES \E m \in Messages : Sent(m)
  OBVIOUS
<1>1. stream \in [Links -> Seq(Messages)] /\ <<n, p>> \in Links
  BY DEF Shape, Types, WireTypes, Links
<1>2. CASE SendBlock(n, p)
  <2>1. PICK h \in DOMAIN chain[n] :
          stream' = [stream EXCEPT ![<<n, p>>] = Append(@, BlockMsg(h, chain[n][h]))]
    BY <1>2 DEF SendBlock
  <2>2. chain[n] \in Seq(Seq(Txs)) /\ Len(chain[n]) <= MaxHeight
    BY DEF Shape, Types, NodeTypes
  <2>3. h \in 1 .. MaxHeight /\ h <= Len(chain[n]) /\ chain[n][h] \in Seq(Txs)
    BY <2>2, ElementOfSeq, LenProperties, TxFetchAssumption
  <2>4. BlockMsg(h, chain[n][h]) \in Messages
    BY <2>3, MessageTypes
  <2>5. Sent(BlockMsg(h, chain[n][h]))
    BY <1>1, <2>1, <2>3 DEF BlockMsg
  <2> HIDE DEF Sent
  <2> QED
    BY <2>4, <2>5
<1>3. CASE SendOther(n, p)
  <2>1. stream' = [stream EXCEPT ![<<n, p>>] = Append(@, Other)] /\ Other \in Messages
    BY <1>3, MessageTypes DEF SendOther
  <2>2. Sent(Other)
    BY <1>1, <2>1 DEF Other
  <2> HIDE DEF Sent
  <2> QED
    BY <2>1, <2>2
<1> QED
  BY <1>2, <1>3 DEF Send

\* A block that is on its way, waits or is handled is in its sender's chain,
\* and one that is handled is not in the handler's.
Uphill ==
    \A n, p \in Nodes :
        /\ Below(stream[<<p, n>>], Len(chain[p]))
        /\ \A h \in waiting[n] : h.from = p => h.index <= Len(chain[p])
        /\ holder[n] # Nobody =>
              /\ holder[n].index > Len(chain[n])
              /\ holder[n].from = p => holder[n].index <= Len(chain[p])

LEMMA UphillStep ==
    ASSUME Shape, Uphill, [Next]_vars
    PROVE  Uphill'
<1>0. WireTypes /\ MutexTypes /\ NodeTypes
  BY DEF Shape, Types
<1> SUFFICES ASSUME NEW n \in Nodes, NEW p \in Nodes
             PROVE  /\ Below(stream'[<<p, n>>], Len(chain'[p]))
                    /\ \A h \in waiting'[n] : h.from = p => h.index <= Len(chain'[p])
                    /\ holder'[n] # Nobody =>
                          /\ holder'[n].index > Len(chain'[n])
                          /\ holder'[n].from = p => holder'[n].index <= Len(chain'[p])
  BY DEF Uphill
<1>1. /\ Len(chain[p]) \in Nat /\ Len(chain'[p]) \in Nat /\ Len(chain[p]) <= Len(chain'[p])
      /\ Len(chain[n]) \in Nat /\ Len(chain'[n]) \in Nat
      /\ holder[n] # Nobody /\ holder'[n] # Nobody => chain'[n] = chain[n]
  BY ChainsGrow
<1>2. /\ \A m \in Nodes : <<p, m>> \in Links /\ stream[<<p, m>>] \in Seq(Messages)
      /\ \A m \in Nodes : <<m, p>> \in Links /\ stream[<<m, p>>] \in Seq(Messages)
      /\ waiting[n] \subseteq Handlers /\ holder[n] \in Handlers \cup {Nobody}
      /\ \A h \in Handlers : h.index \in 1 .. MaxHeight /\ h # Nobody /\ h.from # Nobody
                                => h.from \in Nodes
      /\ \A h \in Handlers : h.index \in Nat /\ h # Nobody
      /\ n # Nobody /\ p # Nobody
  BY <1>0, HandlerTypes, TxFetchAssumption DEF WireTypes, MutexTypes, Links
<1>3. Below(stream'[<<p, n>>], Len(chain'[p]))
  <2> SUFFICES Below(stream'[<<p, n>>], Len(chain[p]))
    <3>1. stream'[<<p, n>>] \in Seq(Messages) /\ Other \in Messages
      BY <1>2, ShapeStep, MessageTypes DEF Shape, Types, WireTypes
    <3> QED
      BY <1>1, <3>1, BelowSteps
  <2>1. Below(stream[<<p, n>>], Len(chain[p]))
    BY DEF Uphill
  <2>2. ASSUME NEW m \in Messages, stream'[<<p, n>>] = Append(stream[<<p, n>>], m),
               m.type = "block" => m.index <= Len(chain[p])
        PROVE  Below(stream'[<<p, n>>], Len(chain[p]))
    BY <1>1, <1>2, <2>1, <2>2, BelowSteps
  <2>3. CASE stream'[<<p, n>>] = stream[<<p, n>>]
    BY <2>1, <2>3
  <2>4. CASE stream'[<<p, n>>] = <<>>
    BY <2>4 DEF Below
  <2>5. ASSUME NEW a \in Nodes, NEW b \in Nodes, Read(a, b)
        PROVE  Below(stream'[<<p, n>>], Len(chain[p]))
    <3>1. CASE stream[<<p, n>>] # <<>> /\ stream'[<<p, n>>] = Tail(stream[<<p, n>>])
      BY <1>1, <1>2, <2>1, <3>1, BelowSteps, MessageTypes
    <3>2. ASSUME NEW t \in Txs, stream'[<<p, n>>] = Append(stream[<<p, n>>], Answer(t))
          PROVE  Below(stream'[<<p, n>>], Len(chain[p]))
      <4>1. Answer(t) \in Messages /\ Answer(t).type # "block"
        BY MessageTypes DEF Answer
      <4> QED
        BY <2>2, <3>2, <4>1
    <3> QED
      BY <1>2, <2>3, <2>5, <3>1, <3>2, Reading
  <2>6. ASSUME NEW a \in Nodes, NEW b \in Nodes, Send(a, b)
        PROVE  Below(stream'[<<p, n>>], Len(chain[p]))
    <3>1. CASE a = p /\ b = n
      <4>1. PICK m \in Messages :
              /\ m.type = "other" \/ (m.type = "block" /\ m.index <= Len(chain[p]))
              /\ stream'[<<p, n>>] = Append(stream[<<p, n>>], m)
        BY <2>6, <3>1, Sending
      <4> QED
        BY <2>2, <4>1
    <3>2. CASE <<a, b>> # <<p, n>>
      BY <1>2, <2>3, <2>6, <3>2, Sending
    <3> QED
      BY <3>1, <3>2
  <2>7. ASSUME NEW a \in Nodes, NEW t \in Txs, StartFetch(a, t)
        PROVE  Below(stream'[<<p, n>>], Len(chain[p]))
    <3>1. Ask(t) \in Messages /\ Ask(t).type # "block"
      BY MessageTypes DEF Ask
    <3>2. \/ stream'[<<p, n>>] = Append(stream[<<p, n>>], Ask(t))
          \/ stream'[<<p, n>>] = stream[<<p, n>>]
      BY <1>2, <2>7, Asking
    <3> QED
      BY <2>2, <2>3, <3>1, <3>2
  <2>8. CASE \E gone, dead : Ends(gone, dead)
    BY <1>2, <2>3, <2>4, <2>8 DEF Ends, Close
  <2>9. CASE UNCHANGED stream
    BY <2>1, <2>9
  <2>10. CASE UNCHANGED vars \/ Tick \/ \E a \in Nodes : Apart(a) \/ Mutex(a)
    BY <2>9, <2>10 DEF vars, Tick, Apart, Restart, Propose, Skip, FindLocal, Mutex, Finish,
       Lock, wire
  <2>11. CASE \E a, b \in Nodes : TakeAnswer(a, b) \/ ReadTimesOut(a, b) \/ Connect(a, b)
    BY <2>9, <2>11 DEF TakeAnswer, ReadTimesOut, Connect
  <2> QED
    BY Steps, <2>5, <2>6, <2>7, <2>8, <2>10, <2>11
<1>4. \A h \in waiting'[n] : h.from = p => h.index <= Len(chain'[p])
  <2> SUFFICES ASSUME NEW h \in waiting'[n], h.from = p
               PROVE  h.index <= Len(chain[p])
    <3>1. waiting'[n] \subseteq Handlers
      BY ShapeStep DEF Shape, Types, MutexTypes
    <3> QED
      BY <1>1, <1>2, <3>1
  <2>1. CASE h \in waiting[n]
    BY <2>1 DEF Uphill
  <2>2. ASSUME NEW gone, NEW dead, Ends(gone, dead)
        PROVE  h.index <= Len(chain[p])
    <3>1. PICK g \in waiting[n] : h = Orphaned(n, g, gone)
      BY <2>2 DEF Ends, Close
    <3>2. h = g
      BY <1>2, <3>1 DEF Orphaned, Handlers
    <3> QED
      BY <2>1, <3>2
  <2>3. ASSUME NEW a \in Nodes, NEW b \in Nodes, LoopHandles(a, b)
        PROVE  h.index <= Len(chain[p])
    <3> DEFINE m == Head(stream[<<b, a>>])
    <3>1. /\ waiting' = [waiting EXCEPT ![a] = @ \cup {Handler(b, m.index, m.txs)}]
          /\ m.type = "block" /\ stream[<<b, a>>] # <<>>
      BY <2>3 DEF LoopHandles
    <3>2. waiting'[n] = IF a = n THEN waiting[n] \cup {Handler(b, m.index, m.txs)}
                        ELSE waiting[n]
      BY <1>0, <3>1 DEF MutexTypes
    <3>3. CASE a = n /\ h = Handler(b, m.index, m.txs)
      <4>1. b = p /\ h.index = m.index
        BY <3>3 DEF Handler
      <4>2. Below(<<Head(stream[<<p, n>>])>>, Len(chain[p]))
        <5>1. Below(stream[<<p, n>>], Len(chain[p]))
          BY DEF Uphill
        <5> QED
          BY <1>1, <1>2, <3>1, <3>3, <4>1, <5>1, BelowSteps, MessageTypes
      <4> QED
        BY <3>1, <3>3, <4>1, <4>2 DEF Below
    <3> HIDE DEF m
    <3> QED
      BY <2>1, <3>2, <3>3
  <2>4. ASSUME NEW a \in Nodes, Mutex(a)
        PROVE  h.index <= Len(chain[p])
    <3>1. waiting'[n] \subseteq waiting[n]
      BY <1>0, <2>4 DEF Mutex, Finish, Lock, MutexTypes
    <3> QED
      BY <2>1, <3>1
  <2>5. CASE UNCHANGED waiting
    BY <2>1, <2>5
  <2>6. CASE UNCHANGED vars \/ Tick \/ \E a \in Nodes : Apart(a)
    BY <2>5, <2>6 DEF vars, Tick, Apart, Restart, Propose, Skip, FindLocal, mutex
  <2>7. CASE \/ \E a \in Nodes, t \in Txs : StartFetch(a, t)
             \/ \E a, b \in Nodes : TakeAnswer(a, b) \/ ReadTimesOut(a, b) \/ Connect(a, b)
                                       \/ Send(a, b)
    BY <2>5, <2>7 DEF StartFetch, TakeAnswer, ReadTimesOut, Connect, Send, SendBlock,
       SendOther, mutex
  <2>8. CASE \E a, b \in Nodes : Read(a, b) /\ ~LoopHandles(a, b)
    BY <2>5, <2>8 DEF Read, LoopAnswers, LoopIgnores, JobReads, GhostReads, mutex
  <2> QED
    BY Steps, <2>2, <2>3, <2>4, <2>6, <2>7, <2>8
<1>5. ASSUME holder'[n] # Nobody
      PROVE  /\ holder'[n].index > Len(chain'[n])
             /\ holder'[n].from = p => holder'[n].index <= Len(chain'[p])
  <2>1. ASSUME holder[n] # Nobody, holder'[n].index = holder[n].index,
               holder'[n].from \in {holder[n].from, Nobody}
        PROVE  /\ holder'[n].index > Len(chain'[n])
               /\ holder'[n].from = p => holder'[n].index <= Len(chain'[p])
    <3>1. holder[n].index > Len(chain[n]) /\ (holder[n].from = p => holder[n].index <= Len(chain[p]))
      BY <2>1 DEF Uphill
    <3>2. chain'[n] = chain[n] /\ holder[n].index \in Nat
      BY <1>1, <1>2, <1>5, <2>1
    <3> QED
      BY <1>1, <1>2, <2>1, <3>1, <3>2
  <2>2. CASE holder'[n] = holder[n]
    BY <1>5, <2>1, <2>2
  <2>3. ASSUME NEW gone, NEW dead, Ends(gone, dead)
        PROVE  holder[n] # Nobody /\ holder'[n].index = holder[n].index
                  /\ holder'[n].from \in {holder[n].from, Nobody}
    <3>1. holder'[n] = Orphaned(n, holder[n], gone)
      BY <1>5, <2>3 DEF Ends, Close
    <3>2. holder[n] \in Handlers
      BY <1>2, <1>5, <3>1, OrphanedTypes
    <3> QED
      BY <1>2, <3>1, <3>2 DEF Orphaned, Handlers
  <2>4. ASSUME NEW h \in waiting[n], Lock(n, h), holder'[n] # holder[n]
        PROVE  /\ holder'[n].index > Len(chain'[n])
               /\ holder'[n].from = p => holder'[n].index <= Len(chain'[p])
    <3>1. holder'[n] = h /\ ~HasBlock(n, h) /\ chain' = chain
      BY <1>0, <2>4 DEF Lock, MutexTypes, node
    <3>2. h.index \in 1 .. MaxHeight
      BY <1>2, HandlerTypes
    <3>3. h.index > Len(chain[n])
      BY <1>1, <3>1, <3>2, TxFetchAssumption DEF HasBlock
    <3> QED
      BY <3>1, <3>3 DEF Uphill
  <2>5. ASSUME Done(n), holder[n] # Nobody
        PROVE  holder'[n].index = holder[n].index /\ holder'[n].from = holder[n].from
    <3>1. holder[n] \in Handlers
      BY <1>2, <2>5
    <3>2. holder'[n] = [holder[n] EXCEPT !.rest = Tail(@)]
      BY <1>0, <2>5 DEF Done, MutexTypes
    <3> QED
      BY <3>1, <3>2 DEF Handlers
  <2>6. ASSUME NEW a \in Nodes, Apart(a) \/ Mutex(a) \/ \E b \in Nodes : TakeAnswer(a, b)
        PROVE  \/ holder'[n] = holder[n]
               \/ Done(n) /\ holder[n] # Nobody
               \/ \E h \in waiting[n] : Lock(n, h)
    <3>1. CASE Apart(a)
      BY <1>0, <3>1 DEF Apart, Restart, Propose, Skip, FindLocal, Done, At, MutexTypes, mutex
    <3>2. CASE Finish(a)
      BY <1>0, <1>5, <3>2 DEF Finish, MutexTypes
    <3>3. CASE \E h \in waiting[a] : Lock(a, h)
      BY <1>0, <3>3 DEF Lock, MutexTypes
    <3>4. CASE \E b \in Nodes : TakeAnswer(a, b)
      BY <1>0, <3>4 DEF TakeAnswer, Done, MutexTypes, Shape, Busy
    <3> QED
      BY <2>6, <3>1, <3>2, <3>3, <3>4 DEF Mutex
  <2>7. CASE UNCHANGED holder
    BY <2>2, <2>7
  <2>8. CASE \/ UNCHANGED vars \/ Tick \/ \E a \in Nodes, t \in Txs : StartFetch(a, t)
             \/ \E a, b \in Nodes : ReadTimesOut(a, b) \/ Connect(a, b) \/ Send(a, b)
    BY <2>7, <2>8 DEF vars, Tick, StartFetch, ReadTimesOut, Connect, Send, SendBlock,
       SendOther, mutex
  <2>9. CASE \E a, b \in Nodes : Read(a, b)
    BY <2>7, <2>9 DEF Read, LoopAnswers, LoopIgnores, LoopHandles, JobReads, GhostReads, mutex
  <2>10. CASE \E gone, dead : Ends(gone, dead)
    BY <2>1, <2>3, <2>10
  <2>11. CASE \E a \in Nodes : Apart(a) \/ Mutex(a) \/ \E b \in Nodes : TakeAnswer(a, b)
    BY <2>1, <2>2, <2>4, <2>5, <2>6, <2>11
  <2> QED
    BY Steps, <2>8, <2>9, <2>10, <2>11
<1> QED
  BY <1>3, <1>4, <1>5

\* No two nodes, and no circle of nodes, wait for each other: who handles a
\* block has it from a peer with a longer chain.
THEOREM NodesWaitUphill == Spec => []WaitsUphill
<1>1. Init => Shape /\ Uphill
  BY ShapeInit DEF Init, Uphill, Below, Links
<1>2. Shape /\ Uphill /\ [Next]_vars => (Shape /\ Uphill)'
  BY ShapeStep, UphillStep
<1>3. Shape /\ Uphill => WaitsUphill
  <2> SUFFICES ASSUME Shape, Uphill, NEW n \in Nodes, NEW p \in Nodes,
                      holder[n] # Nobody, holder[n].from = p
               PROVE  Len(chain[n]) < Len(chain[p])
    BY DEF WaitsUphill
  <2>1. holder[n] \in Handlers /\ holder[n].index \in 1 .. MaxHeight
    BY HandlerTypes DEF Shape, Types, MutexTypes
  <2>2. Len(chain[n]) \in Nat /\ Len(chain[p]) \in Nat
    BY LenProperties DEF Shape, Types, NodeTypes
  <2> QED
    <3>1. holder[n].index > Len(chain[n]) /\ holder[n].index <= Len(chain[p])
      BY DEF Uphill
    <3> QED
      BY <2>1, <2>2, <3>1
<1> QED
  BY <1>1, <1>2, <1>3, PTL DEF Spec

-----------------------------------------------------------------------------
(* Questions and answers on their way.                                      *)

\* What n asked of p about t and has not read: questions and answers.
Out(n, p, t) ==
    HowMany(stream[<<p, n>>], {Answer(t)}) + HowMany(stream[<<n, p>>], {Ask(t)})

LEMMA MessageCounts ==
    ASSUME NEW s \in Seq(Messages), NEW x \in Messages
    PROVE  /\ HowMany(s, {x}) \in Nat /\ HowMany(<<>>, {x}) = 0
           /\ \A m \in Messages :
                 HowMany(Append(s, m), {x}) = HowMany(s, {x}) + (IF m = x THEN 1 ELSE 0)
           /\ s # <<>> => /\ HowMany(Tail(s), {x}) \in Nat
                          /\ HowMany(s, {x})
                                = HowMany(Tail(s), {x}) + (IF Head(s) = x THEN 1 ELSE 0)
<1>1. HowMany(s, {x}) \in Nat /\ HowMany(<<>>, {x}) = 0
  BY HowManyType, HowManyEmpty
<1>2. ASSUME NEW m \in Messages
      PROVE  HowMany(Append(s, m), {x}) = HowMany(s, {x}) + (IF m = x THEN 1 ELSE 0)
  <2>1. HowMany(Append(s, m), {x}) = HowMany(s, {x}) + (IF m \in {x} THEN 1 ELSE 0)
    BY HowManyAppend
  <2> QED
    BY <2>1
<1>3. ASSUME s # <<>>
      PROVE  /\ HowMany(Tail(s), {x}) \in Nat
             /\ HowMany(s, {x}) = HowMany(Tail(s), {x}) + (IF Head(s) = x THEN 1 ELSE 0)
  <2>1. Tail(s) \in Seq(Messages)
    BY <1>3, HeadTailProperties
  <2>2. HowMany(s, {x}) = HowMany(Tail(s), {x}) + (IF Head(s) \in {x} THEN 1 ELSE 0)
    BY <1>3, HowManyTail
  <2>3. HowMany(Tail(s), {x}) \in Nat
    BY <2>1, HowManyType
  <2> QED
    BY <2>2, <2>3
<1> QED
  BY <1>1, <1>2, <1>3

LEMMA Distinct ==
    \A t, u \in Txs : /\ Answer(t) # Ask(u)
                      /\ Answer(t) = Answer(u) <=> t = u
                      /\ Ask(t) = Ask(u) <=> t = u
  BY DEF Answer, Ask

LEMMA StreamTypes ==
    ASSUME Shape
    PROVE  \A n, p \in Nodes : /\ <<n, p>> \in Links /\ stream[<<n, p>>] \in Seq(Messages)
                               /\ \A t \in Txs : Out(n, p, t) \in Nat
<1>1. \A n, p \in Nodes : <<n, p>> \in Links /\ stream[<<n, p>>] \in Seq(Messages)
  BY DEF Shape, Types, WireTypes, Links
<1>2. ASSUME NEW n \in Nodes, NEW p \in Nodes, NEW t \in Txs
      PROVE  Out(n, p, t) \in Nat
  <2>1. HowMany(stream[<<p, n>>], {Answer(t)}) \in Nat
    BY <1>1, MessageCounts, MessageTypes
  <2>2. HowMany(stream[<<n, p>>], {Ask(t)}) \in Nat
    BY <1>1, MessageCounts, MessageTypes
  <2> QED
    BY <2>1, <2>2 DEF Out
<1> QED
  BY <1>1, <1>2

\* Reading moves one question to one answer, or takes one away.
LEMMA ReadOut ==
    ASSUME Shape, NEW a \in Nodes, NEW b \in Nodes, Read(a, b),
           NEW n \in Nodes, NEW p \in Nodes, NEW t \in Txs
    PROVE  /\ Out(n, p, t)' <= Out(n, p, t)
           /\ a = n /\ b = p /\ Head(stream[<<p, n>>]) = Answer(t)
                 => Out(n, p, t)' < Out(n, p, t) /\ Out(n, p, t) > 0
           /\ \/ HowMany(stream'[<<p, n>>], {Answer(t)}) <= HowMany(stream[<<p, n>>], {Answer(t)})
              \/ Holds(p, t)
<1> DEFINE in == stream[<<p, n>>]
           out == stream[<<n, p>>]
<1>1. in \in Seq(Messages) /\ out \in Seq(Messages)
  BY StreamTypes
<1>2. Answer(t) \in Messages /\ Ask(t) \in Messages
  BY MessageTypes
<1>3. HowMany(in, {Answer(t)}) \in Nat /\ HowMany(out, {Ask(t)}) \in Nat
  BY <1>1, <1>2, MessageCounts
<1>4. a # b /\ <<b, a>> \in Links /\ <<a, b>> \in Links
  BY Reading
<1>5. CASE a = n /\ b = p
  <2>1. in # <<>> /\ in' = Tail(in)
    BY <1>5, Reading
  <2>2. /\ HowMany(Tail(in), {Answer(t)}) \in Nat
        /\ HowMany(in, {Answer(t)})
              = HowMany(in', {Answer(t)}) + (IF Head(in) = Answer(t) THEN 1 ELSE 0)
    BY <1>1, <1>2, <2>1, MessageCounts
  <2>3. HowMany(out', {Ask(t)}) = HowMany(out, {Ask(t)})
    <3>1. CASE out' = out
      BY <3>1
    <3>2. ASSUME NEW u \in Txs, out' = Append(out, Answer(u))
          PROVE  HowMany(out', {Ask(t)}) = HowMany(out, {Ask(t)})
      <4>1. Answer(u) \in Messages /\ Answer(u) # Ask(t)
        BY MessageTypes, Distinct
      <4>2. HowMany(Append(out, Answer(u)), {Ask(t)}) = HowMany(out, {Ask(t)}) + 0
        BY <1>1, <1>2, <4>1, MessageCounts
      <4> HIDE DEF out
      <4> QED
        BY <1>3, <3>2, <4>2
    <3> QED
      BY <1>5, <3>1, <3>2, Reading
  <2> HIDE DEF in, out
  <2>4. /\ Out(n, p, t) = HowMany(in, {Answer(t)}) + HowMany(out, {Ask(t)})
        /\ Out(n, p, t)' = HowMany(in', {Answer(t)}) + HowMany(out', {Ask(t)})
    BY DEF Out, in, out
  <2>5. /\ Out(n, p, t)' <= Out(n, p, t)
        /\ Head(in) = Answer(t) => Out(n, p, t)' < Out(n, p, t) /\ Out(n, p, t) > 0
        /\ HowMany(in', {Answer(t)}) <= HowMany(in, {Answer(t)})
    BY <1>3, <2>1, <2>2, <2>3, <2>4
  <2> QED
    BY <2>5 DEF in
<1>6. CASE a = p /\ b = n
  <2>1. out # <<>> /\ out' = Tail(out) /\ n # p
    BY <1>4, <1>6, Reading
  <2>2. /\ HowMany(Tail(out), {Ask(t)}) \in Nat
        /\ HowMany(out, {Ask(t)})
              = HowMany(out', {Ask(t)}) + (IF Head(out) = Ask(t) THEN 1 ELSE 0)
    BY <1>1, <1>2, <2>1, MessageCounts
  <2>3. \/ HowMany(in', {Answer(t)}) = HowMany(in, {Answer(t)})
        \/ /\ HowMany(in', {Answer(t)}) = HowMany(in, {Answer(t)}) + 1
           /\ Head(out) = Ask(t) /\ Holds(p, t)
    <3>1. CASE in' = in
      BY <3>1
    <3>2. ASSUME NEW u \in Txs, in' = Append(in, Answer(u)), Head(out) = Ask(u), Holds(p, u)
          PROVE  \/ HowMany(in', {Answer(t)}) = HowMany(in, {Answer(t)})
                 \/ /\ HowMany(in', {Answer(t)}) = HowMany(in, {Answer(t)}) + 1
                    /\ Head(out) = Ask(t) /\ Holds(p, t)
      <4>1. HowMany(in', {Answer(t)})
               = HowMany(in, {Answer(t)}) + (IF Answer(u) = Answer(t) THEN 1 ELSE 0)
        <5>1. Answer(u) \in Messages
          BY MessageTypes
        <5>2. HowMany(Append(in, Answer(u)), {Answer(t)})
                 = HowMany(in, {Answer(t)}) + (IF Answer(u) = Answer(t) THEN 1 ELSE 0)
          BY <1>1, <1>2, <5>1, MessageCounts
        <5> QED
          BY <3>2, <5>2
      <4> HIDE DEF in, out
      <4> QED
        BY <1>3, <3>2, <4>1, Distinct
    <3> QED
      BY <1>6, <3>1, <3>2, Reading
  <2> HIDE DEF in, out
  <2>4. /\ Out(n, p, t) = HowMany(in, {Answer(t)}) + HowMany(out, {Ask(t)})
        /\ Out(n, p, t)' = HowMany(in', {Answer(t)}) + HowMany(out', {Ask(t)})
    BY DEF Out, in, out
  <2>5. /\ Out(n, p, t)' <= Out(n, p, t)
        /\ HowMany(in', {Answer(t)}) <= HowMany(in, {Answer(t)}) \/ Holds(p, t)
    BY <1>3, <2>1, <2>2, <2>3, <2>4
  <2> QED
    BY <1>6, <2>1, <2>5 DEF in
<1>7. CASE ~(a = n /\ b = p) /\ ~(a = p /\ b = n)
  <2>1. /\ <<p, n>> \in Links \ {<<b, a>>, <<a, b>>}
        /\ <<n, p>> \in Links \ {<<b, a>>, <<a, b>>}
    BY <1>7, StreamTypes
  <2>2. in' = in /\ out' = out
    BY <2>1, Reading
  <2> QED
    BY <1>3, <1>7, <2>2 DEF Out
<1> QED
  BY <1>5, <1>6, <1>7

\* Only a fetch makes more of what is on its way.
LEMMA OutStep ==
    ASSUME Shape, [Next]_vars, NEW n \in Nodes, NEW p \in Nodes, NEW t \in Txs
    PROVE  /\ Out(n, p, t)' \in Nat
           /\ \/ Out(n, p, t)' <= Out(n, p, t)
              \/ /\ StartFetch(n, t) /\ Out(n, p, t)' = Out(n, p, t) + 1
                 /\ asked'[<<n, p>>] = Append(asked[<<n, p>>], t)
                 /\ job'[<<n, p>>] = "reading"
           /\ \/ HowMany(stream'[<<p, n>>], {Answer(t)}) <= HowMany(stream[<<p, n>>], {Answer(t)})
              \/ Holds(p, t) /\ UNCHANGED node
<1> DEFINE in == stream[<<p, n>>]
           out == stream[<<n, p>>]
           Less == /\ Out(n, p, t)' <= Out(n, p, t)
                   /\ HowMany(in', {Answer(t)}) <= HowMany(in, {Answer(t)})
<1>1. in \in Seq(Messages) /\ out \in Seq(Messages) /\ <<n, p>> \in Links /\ <<p, n>> \in Links
  BY StreamTypes
<1>2. Answer(t) \in Messages /\ Ask(t) \in Messages
  BY MessageTypes
<1>3. HowMany(in, {Answer(t)}) \in Nat /\ HowMany(out, {Ask(t)}) \in Nat
      /\ HowMany(<<>>, {Answer(t)}) = 0 /\ HowMany(<<>>, {Ask(t)}) = 0
  BY <1>1, <1>2, MessageCounts
<1>4. Out(n, p, t)' \in Nat
  <2>1. in' \in Seq(Messages) /\ out' \in Seq(Messages)
    BY <1>1, ShapeStep DEF Shape, Types, WireTypes
  <2>2. HowMany(in', {Answer(t)}) \in Nat /\ HowMany(out', {Ask(t)}) \in Nat
    BY <1>2, <2>1, MessageCounts
  <2> QED
    BY <2>2 DEF Out
<1>5. ASSUME in' = in \/ in' = <<>>, out' = out \/ out' = <<>>
      PROVE  Less
  <2>1. HowMany(in', {Answer(t)}) \in {HowMany(in, {Answer(t)}), 0}
    BY <1>3, <1>5
  <2>2. HowMany(out', {Ask(t)}) \in {HowMany(out, {Ask(t)}), 0}
    BY <1>3, <1>5
  <2>3. /\ Out(n, p, t) = HowMany(in, {Answer(t)}) + HowMany(out, {Ask(t)})
        /\ Out(n, p, t)' = HowMany(in', {Answer(t)}) + HowMany(out', {Ask(t)})
    BY DEF Out
  <2> HIDE DEF in, out
  <2> QED
    BY <1>3, <2>1, <2>2, <2>3
<1>6. ASSUME UNCHANGED stream
      PROVE  Less
  BY <1>5, <1>6
<1>7. ASSUME NEW gone, NEW dead, Ends(gone, dead)
      PROVE  Less
  BY <1>1, <1>5, <1>7 DEF Ends, Close
<1>8. ASSUME NEW a \in Nodes, NEW u \in Txs, StartFetch(a, u)
      PROVE  \/ Less
             \/ /\ StartFetch(n, t) /\ Out(n, p, t)' = Out(n, p, t) + 1
                /\ asked'[<<n, p>>] = Append(asked[<<n, p>>], t)
                /\ job'[<<n, p>>] = "reading"
                /\ HowMany(in', {Answer(t)}) = HowMany(in, {Answer(t)})
  <2>1. Ask(u) \in Messages
    BY MessageTypes
  <2>2. \/ in' = in
        \/ in' = Append(in, Ask(u))
    BY <1>1, <1>8, Asking
  <2>3. \/ out' = out
        \/ /\ out' = Append(out, Ask(u)) /\ a = n /\ job'[<<n, p>>] = "reading"
           /\ asked'[<<n, p>>] = Append(asked[<<n, p>>], u)
    BY <1>1, <1>8, Asking
  <2>4. HowMany(in', {Answer(t)}) = HowMany(in, {Answer(t)})
    <3>1. HowMany(Append(in, Ask(u)), {Answer(t)})
             = HowMany(in, {Answer(t)}) + (IF Ask(u) = Answer(t) THEN 1 ELSE 0)
      BY <1>1, <1>2, <2>1, MessageCounts
    <3>2. HowMany(Append(in, Ask(u)), {Answer(t)}) = HowMany(in, {Answer(t)})
      BY <1>3, <3>1, Distinct
    <3> QED
      BY <2>2, <3>2
  <2>5. \/ HowMany(out', {Ask(t)}) = HowMany(out, {Ask(t)})
        \/ /\ HowMany(out', {Ask(t)}) = HowMany(out, {Ask(t)}) + 1
           /\ u = t /\ a = n /\ job'[<<n, p>>] = "reading"
           /\ asked'[<<n, p>>] = Append(asked[<<n, p>>], u)
    <3>1. HowMany(Append(out, Ask(u)), {Ask(t)})
             = HowMany(out, {Ask(t)}) + (IF Ask(u) = Ask(t) THEN 1 ELSE 0)
      BY <1>1, <1>2, <2>1, MessageCounts
    <3>2. CASE u = t
      BY <2>3, <3>1, <3>2
    <3>3. CASE u # t
      <4>1. HowMany(Append(out, Ask(u)), {Ask(t)}) = HowMany(out, {Ask(t)})
        BY <1>3, <3>1, <3>3, Distinct
      <4> QED
        BY <2>3, <4>1
    <3> QED
      BY <3>2, <3>3
  <2>6. /\ Out(n, p, t) = HowMany(in, {Answer(t)}) + HowMany(out, {Ask(t)})
        /\ Out(n, p, t)' = HowMany(in', {Answer(t)}) + HowMany(out', {Ask(t)})
    BY DEF Out
  <2>7. CASE HowMany(out', {Ask(t)}) = HowMany(out, {Ask(t)})
    BY <1>3, <2>4, <2>6, <2>7
  <2>8. CASE HowMany(out', {Ask(t)}) = HowMany(out, {Ask(t)}) + 1
    <3>1. Out(n, p, t)' = Out(n, p, t) + 1
      BY <1>3, <2>4, <2>6, <2>8
    <3>2. /\ u = t /\ a = n /\ job'[<<n, p>>] = "reading"
          /\ asked'[<<n, p>>] = Append(asked[<<n, p>>], u)
      BY <1>3, <2>5, <2>8
    <3> QED
      BY <1>8, <2>4, <3>1, <3>2
  <2> QED
    BY <2>5, <2>7, <2>8
<1>9. ASSUME NEW a \in Nodes, NEW b \in Nodes, Send(a, b)
      PROVE  Less
  <2>1. PICK m \in Messages :
          /\ m.type \in {"other", "block"}
          /\ stream'[<<a, b>>] = Append(stream[<<a, b>>], m)
          /\ \A l \in Links \ {<<a, b>>} : stream'[l] = stream[l]
    BY <1>9, Sending
  <2>2. m # Ask(t) /\ m # Answer(t)
    BY <2>1 DEF Ask, Answer
  <2>3. in' \in {in, Append(in, m)} /\ out' \in {out, Append(out, m)}
    BY <1>1, <2>1
  <2>4. /\ HowMany(Append(in, m), {Answer(t)}) = HowMany(in, {Answer(t)})
        /\ HowMany(Append(out, m), {Ask(t)}) = HowMany(out, {Ask(t)})
    BY <1>1, <1>2, <1>3, <2>2, MessageCounts
  <2>6. /\ HowMany(in', {Answer(t)}) = HowMany(in, {Answer(t)})
        /\ HowMany(out', {Ask(t)}) = HowMany(out, {Ask(t)})
    BY <2>3, <2>4
  <2>5. /\ Out(n, p, t) = HowMany(in, {Answer(t)}) + HowMany(out, {Ask(t)})
        /\ Out(n, p, t)' = HowMany(in', {Answer(t)}) + HowMany(out', {Ask(t)})
    BY DEF Out
  <2> HIDE DEF in, out
  <2> QED
    BY <1>3, <2>5, <2>6
<1>10. ASSUME NEW a \in Nodes, NEW b \in Nodes, Read(a, b)
       PROVE  Less \/ (Out(n, p, t)' <= Out(n, p, t) /\ Holds(p, t) /\ UNCHANGED node)
  <2>1. UNCHANGED node
    BY <1>10 DEF Read, LoopAnswers, LoopIgnores, LoopHandles, JobReads, GhostReads
  <2> QED
    BY <1>10, <2>1, ReadOut
<1>11. ASSUME UNCHANGED vars \/ Tick \/ \E a \in Nodes : Apart(a) \/ Mutex(a)
       PROVE  Less
  BY <1>6, <1>11 DEF vars, Tick, Apart, Restart, Propose, Skip, FindLocal, Mutex, Finish, Lock, wire
<1>12. ASSUME \E a, b \in Nodes : TakeAnswer(a, b) \/ ReadTimesOut(a, b) \/ Connect(a, b)
       PROVE  Less
  BY <1>6, <1>12 DEF TakeAnswer, ReadTimesOut, Connect
<1>13. \/ Less
       \/ Out(n, p, t)' <= Out(n, p, t) /\ Holds(p, t) /\ UNCHANGED node
       \/ /\ StartFetch(n, t) /\ Out(n, p, t)' = Out(n, p, t) + 1
          /\ asked'[<<n, p>>] = Append(asked[<<n, p>>], t)
          /\ job'[<<n, p>>] = "reading"
          /\ HowMany(in', {Answer(t)}) = HowMany(in, {Answer(t)})
  <2> HIDE DEF Less, in, out
  <2> QED
    BY Steps, <1>7, <1>8, <1>9, <1>10, <1>11, <1>12
<1> HIDE DEF in, out
<1>14. HowMany(in, {Answer(t)}) <= HowMany(in, {Answer(t)})
  BY <1>3
<1> QED
  BY <1>4, <1>13, <1>14 DEF in

\* What a node has it keeps, until it dies and nothing of it is on its way.
LEMMA HoldsKept ==
    ASSUME Shape, [Next]_vars, NEW n \in Nodes, NEW p \in Nodes, NEW t \in Txs, Holds(p, t)
    PROVE  Holds(p, t)' \/ stream'[<<p, n>>] = <<>>
<1>0. NodeTypes
  BY DEF Shape, Types
<1>1. CASE UNCHANGED <<stored, pool>>
  BY <1>1 DEF Holds
<1>2. ASSUME NEW a \in Nodes, NEW u, Execute(a, u), UNCHANGED pool
      PROVE  Holds(p, t)'
  BY <1>0, <1>2 DEF Execute, Holds, NodeTypes
<1>3. ASSUME NEW a \in Nodes, Apart(a)
      PROVE  Holds(p, t)'
  <2>1. CASE Propose(a)
    BY <1>0, <2>1 DEF Propose, Holds, NodeTypes
  <2>2. CASE Restart(a) \/ \E u \in Txs : Skip(a, u)
    BY <1>1, <2>2 DEF Restart, Skip, node, Holds
  <2>3. ASSUME NEW u \in Txs, FindLocal(a, u)
        PROVE  Holds(p, t)'
    BY <1>2, <2>3 DEF FindLocal
  <2> QED
    BY <1>3, <2>1, <2>2, <2>3 DEF Apart
<1>4. CASE \E a, b \in Nodes : TakeAnswer(a, b)
  BY <1>2, <1>4 DEF TakeAnswer
<1>5. ASSUME NEW gone, NEW dead, Ends(gone, dead)
      PROVE  Holds(p, t)' \/ stream'[<<p, n>>] = <<>>
  <2>1. CASE p \notin dead
    BY <1>5, <2>1 DEF Ends, Close, Holds
  <2>2. CASE p \in dead /\ Connected(p, n)
    <3>1. {p, n} \in gone
      BY <1>5, <2>2 DEF Ends, Connected
    <3> QED
      BY <1>5, <3>1, StreamTypes DEF Ends, Close
  <2>3. CASE ~Connected(p, n)
    <3>1. stream[<<p, n>>] = <<>>
      BY <2>3 DEF Shape, Wired
    <3> QED
      BY <1>5, <3>1, StreamTypes DEF Ends, Close
  <2> QED
    BY <2>1, <2>2, <2>3
<1>6. CASE UNCHANGED vars \/ Tick \/ \E a \in Nodes : Mutex(a)
  BY <1>1, <1>6 DEF vars, Tick, Mutex, Finish, Lock, node
<1>7. CASE \/ \E a \in Nodes, u \in Txs : StartFetch(a, u)
           \/ \E a, b \in Nodes : ReadTimesOut(a, b) \/ Connect(a, b) \/ Send(a, b)
  BY <1>1, <1>7 DEF StartFetch, ReadTimesOut, Connect, Send, SendBlock, SendOther, node
<1>8. CASE \E a, b \in Nodes : Read(a, b)
  BY <1>1, <1>8 DEF Read, LoopAnswers, LoopIgnores, LoopHandles, JobReads, GhostReads, node
<1> QED
  BY Steps, <1>3, <1>4, <1>5, <1>6, <1>7, <1>8

\* OnTheWay counts what HowMany counts.
LEMMA OnTheWayCounts ==
    ASSUME Shape, NEW n \in Nodes, NEW p \in Nodes, NEW t \in Txs
    PROVE  /\ OnTheWay("answer", t, n, p) = HowMany(stream[<<n, p>>], {Answer(t)})
           /\ OnTheWay("ask", t, n, p) = HowMany(stream[<<n, p>>], {Ask(t)})
<1>1. \A i \in DOMAIN stream[<<n, p>>] : stream[<<n, p>>][i] \in Messages
  BY StreamTypes, ElementOfSeq, LenProperties
<1>2. \A m \in Messages : /\ (m.type = "answer" /\ m.tx = t) <=> m = Answer(t)
                          /\ (m.type = "ask" /\ m.tx = t) <=> m = Ask(t)
  BY DEF Messages, Answer, Ask
<1> QED
  BY <1>1, <1>2 DEF OnTheWay, HowMany, Places

\* AnswersWereAsked, counted.
Answered ==
    \A n, p \in Nodes, t \in Txs :
        /\ HowMany(stream[<<p, n>>], {Answer(t)}) > 0 => Holds(p, t)
        /\ Out(n, p, t) <= HowMany(asked[<<n, p>>], {t})

LEMMA AnsweredStep ==
    ASSUME Shape, Answered, [Next]_vars
    PROVE  Answered'
<1>0. HistoryTypes
  BY DEF Shape, Types
<1> SUFFICES ASSUME NEW n \in Nodes, NEW p \in Nodes, NEW t \in Txs
             PROVE  /\ HowMany(stream'[<<p, n>>], {Answer(t)}) > 0 => Holds(p, t)'
                    /\ Out(n, p, t)' <= HowMany(asked'[<<n, p>>], {t})
  BY DEF Answered
<1>1. /\ HowMany(stream[<<p, n>>], {Answer(t)}) > 0 => Holds(p, t)
      /\ Out(n, p, t) <= HowMany(asked[<<n, p>>], {t})
      /\ Out(n, p, t) \in Nat /\ Out(n, p, t)' \in Nat
      /\ <<n, p>> \in Links /\ <<p, n>> \in Links
  BY StreamTypes, OutStep DEF Answered
<1>2. /\ HowMany(stream[<<p, n>>], {Answer(t)}) \in Nat
      /\ HowMany(stream'[<<p, n>>], {Answer(t)}) \in Nat
  <2>1. stream[<<p, n>>] \in Seq(Messages) /\ stream'[<<p, n>>] \in Seq(Messages)
    BY <1>1, StreamTypes, ShapeStep DEF Shape, Types, WireTypes
  <2> QED
    BY <2>1, MessageCounts, MessageTypes
<1>3. HowMany(stream'[<<p, n>>], {Answer(t)}) > 0 => Holds(p, t)'
  <2> SUFFICES ASSUME HowMany(stream'[<<p, n>>], {Answer(t)}) > 0
               PROVE  Holds(p, t)'
    OBVIOUS
  <2>1. CASE Holds(p, t) /\ UNCHANGED node
    BY <2>1 DEF Holds, node
  <2>2. CASE HowMany(stream'[<<p, n>>], {Answer(t)}) <= HowMany(stream[<<p, n>>], {Answer(t)})
    <3>1. Holds(p, t)
      BY <1>1, <1>2, <2>2
    <3>2. stream'[<<p, n>>] # <<>>
      BY HowManyEmpty
    <3> QED
      BY <3>1, <3>2, HoldsKept
  <2> QED
    BY <2>1, <2>2, OutStep
<1>4. Out(n, p, t)' <= HowMany(asked'[<<n, p>>], {t})
  <2>1. asked[<<n, p>>] \in Seq(Txs) /\ HowMany(asked[<<n, p>>], {t}) \in Nat
    BY <1>0, <1>1, HowManyType DEF HistoryTypes
  <2>2. ASSUME NEW u \in Txs
        PROVE  /\ HowMany(Append(asked[<<n, p>>], u), {t}) \in Nat
               /\ HowMany(Append(asked[<<n, p>>], u), {t})
                     = HowMany(asked[<<n, p>>], {t}) + (IF u \in {t} THEN 1 ELSE 0)
    BY <2>1, HowManyAppend, HowManyType, AppendProperties
  <2>3. CASE asked'[<<n, p>>] = asked[<<n, p>>]
    <3>1. Append(asked[<<n, p>>], t) # asked[<<n, p>>]
      <4>1. Len(Append(asked[<<n, p>>], t)) = Len(asked[<<n, p>>]) + 1
            /\ Len(asked[<<n, p>>]) \in Nat
        BY <2>1, AppendProperties, LenProperties
      <4> QED
        BY <4>1
    <3>2. Out(n, p, t)' <= Out(n, p, t)
      BY <2>3, <3>1, OutStep
    <3> QED
      BY <1>1, <2>1, <2>3, <3>2
  <2>4. ASSUME NEW a \in Nodes, NEW u \in Txs, StartFetch(a, u)
        PROVE  Out(n, p, t)' <= HowMany(asked'[<<n, p>>], {t})
    <3>1. ASSUME asked'[<<n, p>>] = Append(asked[<<n, p>>], u)
          PROVE  HowMany(asked'[<<n, p>>], {t}) >= HowMany(asked[<<n, p>>], {t})
      <4>1. HowMany(Append(asked[<<n, p>>], u), {t}) >= HowMany(asked[<<n, p>>], {t})
        <5>1. HowMany(Append(asked[<<n, p>>], u), {t})
                 = HowMany(asked[<<n, p>>], {t}) + (IF u \in {t} THEN 1 ELSE 0)
          BY <2>2
        <5> QED
          BY <2>1, <5>1
      <4> QED
        BY <3>1, <4>1
    <3>2. \/ asked'[<<n, p>>] = asked[<<n, p>>]
          \/ asked'[<<n, p>>] = Append(asked[<<n, p>>], u)
      BY <1>1, <2>4, Asking
    <3>3. CASE asked'[<<n, p>>] = Append(asked[<<n, p>>], u) /\ Out(n, p, t)' <= Out(n, p, t)
      <4>1. HowMany(asked'[<<n, p>>], {t}) \in Nat
        BY <2>2, <3>3
      <4> QED
        BY <1>1, <2>1, <3>1, <3>3, <4>1
    <3>4. CASE /\ Out(n, p, t)' = Out(n, p, t) + 1
               /\ asked'[<<n, p>>] = Append(asked[<<n, p>>], t)
      <4>1. HowMany(Append(asked[<<n, p>>], t), {t}) = HowMany(asked[<<n, p>>], {t}) + 1
        <5>1. HowMany(Append(asked[<<n, p>>], t), {t})
                 = HowMany(asked[<<n, p>>], {t}) + (IF t \in {t} THEN 1 ELSE 0)
          BY <2>2
        <5> QED
          BY <2>1, <5>1
      <4>2. HowMany(asked'[<<n, p>>], {t}) = HowMany(asked[<<n, p>>], {t}) + 1
        BY <3>4, <4>1
      <4> QED
        BY <1>1, <2>1, <3>4, <4>2
    <3> QED
      BY <2>3, <3>2, <3>3, <3>4, OutStep
  <2>5. ASSUME NEW gone, NEW dead, Ends(gone, dead)
        PROVE  Out(n, p, t)' <= HowMany(asked'[<<n, p>>], {t})
    <3>1. CASE {n, p} \in gone
      <4>1. asked'[<<n, p>>] = <<>> /\ stream'[<<n, p>>] = <<>> /\ stream'[<<p, n>>] = <<>>
        <5>1. {n, p} = {p, n}
          OBVIOUS
        <5> QED
          BY <1>1, <2>5, <3>1, <5>1 DEF Ends, Close
      <4> QED
        BY <4>1, HowManyEmpty DEF Out
    <3>2. CASE {n, p} \notin gone
      BY <1>1, <2>3, <2>5, <3>2 DEF Ends, Close
    <3> QED
      BY <3>1, <3>2
  <2>6. CASE UNCHANGED asked
    BY <2>3, <2>6
  <2>7. CASE UNCHANGED vars \/ Tick \/ \E a \in Nodes : Apart(a) \/ Mutex(a)
    BY <2>6, <2>7 DEF vars, Tick, Apart, Restart, Propose, Skip, FindLocal, Mutex, Finish,
       Lock, history
  <2>8. CASE \E a, b \in Nodes : TakeAnswer(a, b) \/ ReadTimesOut(a, b) \/ Connect(a, b)
                                    \/ Send(a, b)
    BY <2>6, <2>8 DEF TakeAnswer, ReadTimesOut, Connect, Send, SendBlock, SendOther, history
  <2>9. CASE \E a, b \in Nodes : Read(a, b)
    BY <2>6, <2>9 DEF Read, LoopAnswers, LoopIgnores, LoopHandles, JobReads, GhostReads, history
  <2> QED
    BY Steps, <2>4, <2>5, <2>7, <2>8, <2>9
<1> QED
  BY <1>3, <1>4

\* An answer on its way was asked for by a request of its own, and its sender
\* has the transaction.
THEOREM NoAnswerUnasked == Spec => []AnswersWereAsked
<1>1. Init => Shape /\ Answered
  <2> SUFFICES ASSUME Init, NEW n \in Nodes, NEW p \in Nodes, NEW t \in Txs
               PROVE  /\ HowMany(stream[<<p, n>>], {Answer(t)}) = 0
                      /\ Out(n, p, t) = 0 /\ HowMany(asked[<<n, p>>], {t}) = 0
    BY ShapeInit DEF Answered
  <2>1. stream[<<p, n>>] = <<>> /\ stream[<<n, p>>] = <<>> /\ asked[<<n, p>>] = <<>>
    BY DEF Init, Links
  <2> QED
    BY <2>1, HowManyEmpty DEF Out
<1>2. Shape /\ Answered /\ [Next]_vars => (Shape /\ Answered)'
  BY ShapeStep, AnsweredStep
<1>3. Shape /\ Answered => AnswersWereAsked
  <2> SUFFICES ASSUME Shape, Answered, NEW n \in Nodes, NEW p \in Nodes, NEW t \in Txs
               PROVE  /\ OnTheWay("answer", t, p, n) > 0 => Holds(p, t)
                      /\ OnTheWay("answer", t, p, n) + OnTheWay("ask", t, n, p)
                            <= Cardinality({i \in DOMAIN asked[<<n, p>>] :
                                               asked[<<n, p>>][i] = t})
    BY DEF AnswersWereAsked
  <2>1. /\ OnTheWay("answer", t, p, n) = HowMany(stream[<<p, n>>], {Answer(t)})
        /\ OnTheWay("ask", t, n, p) = HowMany(stream[<<n, p>>], {Ask(t)})
    BY OnTheWayCounts
  <2>2. {i \in DOMAIN asked[<<n, p>>] : asked[<<n, p>>][i] = t} = Places(asked[<<n, p>>], {t})
    BY DEF Places
  <2> QED
    BY <2>1, <2>2 DEF Answered, Out, HowMany
<1> QED
  BY <1>1, <1>2, <1>3, PTL DEF Spec

-----------------------------------------------------------------------------
(* Answers that come late.                                                  *)

\* What n asked of p in a fetch that ended without it is owed.  Of the rest
\* at most one question or answer is on its way: the transaction that n
\* fetches, which p has not answered.
Late ==
    \A n, p \in Nodes, t \in Txs :
        t \notin owed[<<n, p>>] =>
            /\ Out(n, p, t) <= 1
            /\ Out(n, p, t) > 0 =>
                  fetch[n].tx = t /\ job[<<n, p>>] # "none" /\ got[<<n, p>>] # t

LEMMA LateStep ==
    ASSUME Shape, Late, [Next]_vars
    PROVE  Late'
<1>0. RequestTypes /\ HistoryTypes /\ Busy /\ Wired
  BY DEF Shape, Types
<1> SUFFICES ASSUME NEW n \in Nodes, NEW p \in Nodes, NEW t \in Txs,
                    t \notin owed'[<<n, p>>]
             PROVE  /\ Out(n, p, t)' <= 1
                    /\ Out(n, p, t)' > 0 =>
                          fetch'[n].tx = t /\ job'[<<n, p>>] # "none" /\ got'[<<n, p>>] # t
  BY DEF Late
<1> DEFINE o == Out(n, p, t)
           Fine == o' <= 1 /\ (o' > 0 => fetch'[n].tx = t /\ job'[<<n, p>>] # "none"
                                                         /\ got'[<<n, p>>] # t)
<1> SUFFICES Fine
  OBVIOUS
<1>1. /\ o \in Nat /\ o' \in Nat
      /\ \/ o' <= o
         \/ StartFetch(n, t) /\ o' = o + 1 /\ job'[<<n, p>>] = "reading"
      /\ <<n, p>> \in Links /\ <<p, n>> \in Links
      /\ t # NoTx
  BY StreamTypes, OutStep, TxFetchAssumption
<1>2. t \notin owed[<<n, p>>] =>
         o <= 1 /\ (o > 0 => fetch[n].tx = t /\ job[<<n, p>>] # "none" /\ got[<<n, p>>] # t)
  BY DEF Late
<1> HIDE DEF o
<1>3. ASSUME o' <= o, t \notin owed[<<n, p>>], fetch'[n].tx = fetch[n].tx,
             job[<<n, p>>] # "none" => job'[<<n, p>>] # "none",
             got'[<<n, p>>] = got[<<n, p>>]
      PROVE  Fine
  BY <1>1, <1>2, <1>3
<1>4. ASSUME o' = 0
      PROVE  Fine
  BY <1>4
<1>5. ASSUME Fetching(n)' => Fetching(n)
      PROVE  o' <= o
  <2>1. ASSUME StartFetch(n, t)
        PROVE  ~Fetching(n) /\ Fetching(n)'
    BY <1>0, <1>1, <2>1 DEF StartFetch, At, Fetching, NoFetch, RequestTypes
  <2> QED
    BY <1>1, <1>5, <2>1
<1>6. ASSUME NEW gone, NEW dead, Ends(gone, dead)
      PROVE  Fine
  <2>1. fetch'[n] \in {fetch[n], NoFetch}
    BY <1>6 DEF Ends, Close
  <2>2. o' <= o
    BY <1>5, <2>1 DEF Fetching
  <2>3. CASE n \notin dead
    BY <1>1, <1>3, <1>6, <2>2, <2>3 DEF Ends, Close
  <2>4. CASE n \in dead
    <3>1. {n, p} = {p, n}
      OBVIOUS
    <3>2. Connected(n, p) => {n, p} \in gone
      BY <1>6, <2>4 DEF Ends, Connected
    <3>3. ~Connected(n, p) => stream[<<n, p>>] = <<>> /\ stream[<<p, n>>] = <<>>
      BY <1>0, <3>1 DEF Wired, Connected
    <3>4. stream'[<<n, p>>] = <<>> /\ stream'[<<p, n>>] = <<>>
      BY <1>1, <1>6, <3>1, <3>2, <3>3 DEF Ends, Close
    <3>5. o' = 0
      BY <3>4, HowManyEmpty DEF o, Out
    <3> QED
      BY <1>4, <3>5
  <2> QED
    BY <2>3, <2>4
<1>7. ASSUME NEW a \in Nodes, NEW u \in Txs, StartFetch(a, u)
      PROVE  Fine
  <2>1. t \notin owed[<<n, p>>] /\ UNCHANGED got
    BY <1>7 DEF StartFetch
  <2>2. CASE a = n
    <3>1. ~Fetching(n) /\ fetch'[n].tx = u
      BY <1>0, <1>7, <2>2 DEF StartFetch, At, RequestTypes
    <3>2. job[<<n, p>>] = "none" /\ got[<<n, p>>] = NoTx
      BY <1>0, <3>1 DEF Busy
    <3>3. o = 0
      BY <1>1, <1>2, <2>1, <3>2
    <3>4. CASE u = t
      <4>1. o' = 0 \/ (o' = 1 /\ job'[<<n, p>>] = "reading")
        BY <1>1, <3>3
      <4> QED
        BY <1>1, <2>1, <3>1, <3>2, <3>4, <4>1
    <3>5. CASE u # t
      <4>1. ~StartFetch(n, t)
        BY <1>0, <3>1, <3>5 DEF StartFetch, RequestTypes
      <4> QED
        BY <1>1, <1>4, <3>3, <4>1
    <3> QED
      BY <3>4, <3>5
  <2>3. CASE a # n
    <3>1. fetch'[n] = fetch[n] /\ job'[<<n, p>>] = job[<<n, p>>]
      BY <1>0, <1>1, <1>7, <2>3, Asking DEF StartFetch, RequestTypes
    <3>2. o' <= o
      BY <1>5, <3>1 DEF Fetching
    <3> QED
      BY <1>3, <2>1, <3>1, <3>2
  <2> QED
    BY <2>2, <2>3
<1>8. ASSUME NEW a \in Nodes, NEW b \in Nodes, TakeAnswer(a, b)
      PROVE  Fine
  <2>1. fetch'[n] \in {fetch[n], NoFetch}
    BY <1>0, <1>8 DEF TakeAnswer, RequestTypes
  <2>2. o' <= o
    BY <1>5, <2>1 DEF Fetching
  <2>3. CASE a = n
    <3>1. owed'[<<n, p>>] = IF Unanswered(<<n, p>>) THEN owed[<<n, p>>] \cup {fetch[n].tx}
                                                    ELSE owed[<<n, p>>]
      BY <1>1, <1>8, <2>3 DEF TakeAnswer
    <3>2. t \notin owed[<<n, p>>] /\ ~(Unanswered(<<n, p>>) /\ fetch[n].tx = t)
      BY <3>1
    <3>3. o = 0
      BY <1>1, <1>2, <3>2 DEF Unanswered
    <3> QED
      BY <1>1, <1>4, <2>2, <3>3
  <2>4. CASE a # n
    BY <1>0, <1>1, <1>3, <1>8, <2>2, <2>4 DEF TakeAnswer, RequestTypes
  <2> QED
    BY <2>3, <2>4
<1>9. ASSUME NEW a \in Nodes, NEW b \in Nodes, ReadTimesOut(a, b)
      PROVE  Fine
  <2>1. fetch' = fetch /\ got' = got /\ owed' = owed
    BY <1>9 DEF ReadTimesOut, history
  <2>2. job'[<<n, p>>] \in {job[<<n, p>>], "error"}
    BY <1>0, <1>1, <1>9 DEF ReadTimesOut, RequestTypes
  <2>3. o' <= o
    BY <1>5, <2>1 DEF Fetching
  <2> QED
    BY <1>3, <2>1, <2>2, <2>3
<1>10. ASSUME NEW a \in Nodes, NEW b \in Nodes, JobReads(a, b)
       PROVE  Fine
  <2>1. fetch' = fetch /\ owed' = owed
    BY <1>10 DEF JobReads
  <2>2. o' <= o
    BY <1>5, <2>1 DEF Fetching
  <2>3. CASE ~(a = n /\ b = p)
    <3>1. got'[<<n, p>>] = got[<<n, p>>] /\ job'[<<n, p>>] = job[<<n, p>>]
      BY <1>0, <1>1, <1>10, <2>3 DEF JobReads, RequestTypes
    <3> QED
      BY <1>3, <2>1, <2>2, <3>1
  <2>4. CASE a = n /\ b = p
    <3> DEFINE m == Head(stream[<<p, n>>])
    <3>1. /\ job'[<<n, p>>] \in {"answer", "done"}
          /\ got'[<<n, p>>] = got[<<n, p>>] \/ (m.type = "answer" /\ got'[<<n, p>>] = m.tx)
      BY <1>0, <1>1, <1>10, <2>4 DEF JobReads, RequestTypes
    <3>2. m \in Messages
      BY <1>10, <2>4, HeadTypes DEF JobReads, Shape, Types
    <3>3. CASE m = Answer(t)
      <4>1. Read(n, p)
        BY <1>10, <2>4 DEF Read
      <4>2. Head(stream[<<p, n>>]) = Answer(t)
        BY <3>3
      <4>3. o' < o
        BY <4>1, <4>2, ReadOut DEF o
      <4> QED
        BY <1>1, <1>2, <1>4, <2>1, <4>3
    <3>4. CASE m # Answer(t)
      <4>1. ~(m.type = "answer" /\ m.tx = t)
        BY <3>2, <3>4 DEF Messages, Answer
      <4>2. got'[<<n, p>>] = t => got[<<n, p>>] = t
        BY <3>1, <4>1
      <4> QED
        BY <1>1, <1>2, <2>1, <2>2, <3>1, <4>2
    <3> QED
      BY <3>3, <3>4
  <2> QED
    BY <2>3, <2>4
<1>11. ASSUME Tick
       PROVE  Fine
  <2>1. /\ UNCHANGED <<job, got, owed>> /\ fetch'[n].tx = fetch[n].tx
        /\ Fetching(n)' => Fetching(n)
    BY <1>0, <1>11 DEF Tick, RequestTypes, history, Fetching
  <2> QED
    BY <1>3, <1>5, <2>1
<1>12. ASSUME UNCHANGED <<fetch, job, got, owed>>
       PROVE  Fine
  <2>1. o' <= o
    BY <1>5, <1>12 DEF Fetching
  <2> QED
    BY <1>3, <1>12, <2>1
<1>13. CASE UNCHANGED vars \/ \E a \in Nodes : Apart(a) \/ Mutex(a)
  BY <1>12, <1>13 DEF vars, Apart, Restart, Propose, Skip, FindLocal, Mutex, Finish, Lock,
     request, history
<1>14. CASE \E a, b \in Nodes : Connect(a, b) \/ Send(a, b)
  BY <1>12, <1>14 DEF Connect, Send, SendBlock, SendOther, request, history
<1>15. CASE \E a, b \in Nodes : Read(a, b) /\ ~JobReads(a, b)
  BY <1>12, <1>15 DEF Read, LoopAnswers, LoopIgnores, LoopHandles, GhostReads, request, history
<1> HIDE DEF Fine
<1> QED
  BY Steps, <1>6, <1>7, <1>8, <1>9, <1>10, <1>11, <1>13, <1>14, <1>15 DEF Read


LEMMA MixupStep ==
    ASSUME Shape, Late, MixupsAreLate, [Next]_vars
    PROVE  MixupsAreLate'
<1>0. RequestTypes /\ HistoryTypes /\ Busy /\ Wired
  BY DEF Shape, Types
<1> SUFFICES ASSUME NEW n \in Nodes, NEW p \in Nodes, job'[<<n, p>>] = "answer"
             PROVE  got'[<<n, p>>] = fetch'[n].tx \/ got'[<<n, p>>] \in owed'[<<n, p>>]
  BY DEF MixupsAreLate
<1> DEFINE Fine == got'[<<n, p>>] = fetch'[n].tx \/ got'[<<n, p>>] \in owed'[<<n, p>>]
<1> SUFFICES Fine
  OBVIOUS
<1>1. <<n, p>> \in Links /\ <<p, n>> \in Links
  BY DEF Links
<1>2. job[<<n, p>>] = "answer" =>
         got[<<n, p>>] = fetch[n].tx \/ got[<<n, p>>] \in owed[<<n, p>>]
  BY DEF MixupsAreLate
<1>3. ASSUME job[<<n, p>>] = "answer", fetch'[n].tx = fetch[n].tx,
             got'[<<n, p>>] = got[<<n, p>>], owed[<<n, p>>] \subseteq owed'[<<n, p>>]
      PROVE  Fine
  BY <1>2, <1>3
<1>6. ASSUME NEW gone, NEW dead, Ends(gone, dead)
      PROVE  Fine
  BY <1>1, <1>3, <1>6 DEF Ends, Close
<1>7. ASSUME NEW a \in Nodes, NEW u \in Txs, StartFetch(a, u)
      PROVE  Fine
  <2>1. got' = got /\ owed' = owed
    BY <1>7 DEF StartFetch
  <2>2. job[<<n, p>>] = "answer"
    BY <1>1, <1>7 DEF StartFetch
  <2>3. a # n
    BY <1>0, <1>7, <2>2 DEF StartFetch, At, Busy
  <2>4. fetch'[n] = fetch[n]
    BY <1>0, <1>7, <2>3 DEF StartFetch, RequestTypes
  <2> QED
    BY <1>3, <2>1, <2>2, <2>4
<1>8. ASSUME NEW a \in Nodes, NEW b \in Nodes, TakeAnswer(a, b)
      PROVE  Fine
  <2>1. a # n
    BY <1>1, <1>8 DEF TakeAnswer
  <2>2. /\ fetch'[n] = fetch[n] /\ job'[<<n, p>>] = job[<<n, p>>]
        /\ got'[<<n, p>>] = got[<<n, p>>] /\ owed'[<<n, p>>] = owed[<<n, p>>]
    BY <1>0, <1>1, <1>8, <2>1 DEF TakeAnswer, RequestTypes
  <2> QED
    BY <1>3, <2>2
<1>9. ASSUME NEW a \in Nodes, NEW b \in Nodes, ReadTimesOut(a, b)
      PROVE  Fine
  <2>1. fetch' = fetch /\ got' = got /\ owed' = owed
    BY <1>9 DEF ReadTimesOut, history
  <2>2. job[<<n, p>>] = "answer"
    BY <1>0, <1>1, <1>9 DEF ReadTimesOut, RequestTypes
  <2> QED
    BY <1>3, <2>1, <2>2
<1>10. ASSUME NEW a \in Nodes, NEW b \in Nodes, JobReads(a, b)
       PROVE  Fine
  <2>1. fetch' = fetch /\ owed' = owed
    BY <1>10 DEF JobReads
  <2>2. CASE ~(a = n /\ b = p)
    <3>1. got'[<<n, p>>] = got[<<n, p>>] /\ job'[<<n, p>>] = job[<<n, p>>]
      BY <1>0, <1>1, <1>10, <2>2 DEF JobReads, RequestTypes
    <3> QED
      BY <1>3, <2>1, <3>1
  <2>3. CASE a = n /\ b = p
    <3> DEFINE m == Head(stream[<<p, n>>])
    <3>1. m.type = "answer" /\ got'[<<n, p>>] = m.tx
      BY <1>0, <1>1, <1>10, <2>3 DEF JobReads, RequestTypes
    <3>2. m \in Messages
      BY <1>10, <2>3, HeadTypes DEF JobReads, Shape, Types
    <3>3. m.tx \in Txs /\ m = Answer(m.tx)
      BY <3>1, <3>2 DEF Messages, Answer
    <3>4. Read(n, p)
      BY <1>10, <2>3 DEF Read
    <3>5. Out(n, p, m.tx) > 0
      BY <3>3, <3>4, ReadOut
    <3>6. m.tx \in owed[<<n, p>>] \/ fetch[n].tx = m.tx
      BY <3>3, <3>5 DEF Late
    <3> QED
      BY <2>1, <3>1, <3>6
  <2> QED
    BY <2>2, <2>3
<1>11. ASSUME Tick
       PROVE  Fine
  <2>1. UNCHANGED <<job, got, owed>> /\ fetch'[n].tx = fetch[n].tx
    BY <1>0, <1>11 DEF Tick, RequestTypes, history
  <2> QED
    BY <1>3, <2>1
<1>12. ASSUME UNCHANGED <<fetch, job, got, owed>>
       PROVE  Fine
  BY <1>3, <1>12
<1>13. CASE UNCHANGED vars \/ \E a \in Nodes : Apart(a) \/ Mutex(a)
  BY <1>12, <1>13 DEF vars, Apart, Restart, Propose, Skip, FindLocal, Mutex, Finish, Lock,
     request, history
<1>14. CASE \E a, b \in Nodes : Connect(a, b) \/ Send(a, b)
  BY <1>12, <1>14 DEF Connect, Send, SendBlock, SendOther, request, history
<1>15. CASE \E a, b \in Nodes : Read(a, b) /\ ~JobReads(a, b)
  BY <1>12, <1>15 DEF Read, LoopAnswers, LoopIgnores, LoopHandles, GhostReads, request, history
<1> HIDE DEF Fine
<1> QED
  BY Steps, <1>6, <1>7, <1>8, <1>9, <1>10, <1>11, <1>13, <1>14, <1>15 DEF Read

\* RequestTransaction hands on another transaction than it asked for only when
\* that is this peer's late answer to an earlier fetch, which ended without it.
THEOREM MixupsOnlyLate == Spec => []MixupsAreLate
<1>1. Init => Shape /\ Late /\ MixupsAreLate
  <2> SUFFICES ASSUME Init
               PROVE  Late /\ MixupsAreLate
    BY ShapeInit
  <2>1. \A n, p \in Nodes, t \in Txs : Out(n, p, t) = 0
    BY HowManyEmpty DEF Init, Out, Links
  <2>2. Late
    BY <2>1 DEF Late
  <2>3. MixupsAreLate
    BY DEF Init, MixupsAreLate, Links
  <2> QED
    BY <2>2, <2>3
<1>2. Shape /\ Late /\ MixupsAreLate /\ [Next]_vars => (Shape /\ Late /\ MixupsAreLate)'
  BY ShapeStep, LateStep, MixupStep
<1> QED
  BY <1>1, <1>2, PTL DEF Spec

-----------------------------------------------------------------------------
(* With one peer.                                                           *)

OnePeer == \A n \in Nodes : \A p, q \in Nodes \ {n} : p = q

\* With one peer a fetch that ends without its transaction ends the process:
\* nothing is ever owed.
NothingOwed == \A l \in Links : owed[l] = {}

LEMMA NothingOwedStep ==
    ASSUME OnePeer, Shape, NothingOwed, MixupsAreLate, [Next]_vars
    PROVE  NothingOwed'
<1>0. RequestTypes /\ HistoryTypes /\ Busy /\ Wired
  BY DEF Shape, Types
<1> SUFFICES ASSUME NEW l \in Links
             PROVE  owed'[l] = {}
  BY DEF NothingOwed
<1>1. owed[l] = {}
  BY DEF NothingOwed
<1>2. ASSUME NEW gone, NEW dead, Ends(gone, dead)
      PROVE  owed'[l] = {}
  BY <1>1, <1>2 DEF Ends, Close
<1>3. ASSUME NEW a \in Nodes, NEW b \in Nodes, TakeAnswer(a, b)
      PROVE  owed'[l] = {}
  <2>1. owed'[l] = IF l[1] = a /\ Unanswered(l) THEN owed[l] \cup {fetch[a].tx} ELSE owed[l]
    BY <1>3 DEF TakeAnswer
  <2>2. ASSUME l[1] = a, Unanswered(l)
        PROVE  FALSE
    <3>1. PICK c \in Nodes : l = <<a, c>>
      BY <2>2 DEF Links
    <3>2. job[<<a, c>>] # "none" /\ job[<<a, b>>] = "answer" /\ got[<<a, c>>] # fetch[a].tx
      BY <1>3, <2>2, <3>1 DEF TakeAnswer, Unanswered
    <3>3. a # b /\ a # c
      BY <1>0, <3>2 DEF Wired
    <3>4. b = c
      BY <3>3 DEF OnePeer
    <3>5. got[<<a, b>>] = fetch[a].tx \/ got[<<a, b>>] \in owed[<<a, b>>]
      BY <3>2 DEF MixupsAreLate
    <3> QED
      BY <3>1, <3>2, <3>4, <3>5 DEF NothingOwed
  <2> QED
    BY <1>1, <2>1, <2>2
<1>4. ASSUME owed' = owed
      PROVE  owed'[l] = {}
  BY <1>1, <1>4
<1>5. CASE Tick
  BY <1>4, <1>5 DEF Tick, history
<1>6. CASE UNCHANGED vars \/ \E a \in Nodes : Apart(a) \/ Mutex(a)
  BY <1>4, <1>6 DEF vars, Apart, Restart, Propose, Skip, FindLocal, Mutex, Finish, Lock, history
<1>7. CASE \E a, b \in Nodes : Connect(a, b) \/ Send(a, b)
  BY <1>4, <1>7 DEF Connect, Send, SendBlock, SendOther, history
<1>8. CASE \E a, b \in Nodes : Read(a, b)
  BY <1>4, <1>8 DEF Read, LoopAnswers, LoopIgnores, LoopHandles, JobReads, GhostReads, history
<1>9. CASE \E a \in Nodes, u \in Txs : StartFetch(a, u)
  BY <1>4, <1>9 DEF StartFetch
<1>10. CASE \E a, b \in Nodes : ReadTimesOut(a, b)
  BY <1>4, <1>10 DEF ReadTimesOut, history
<1> QED
  BY Steps, <1>2, <1>3, <1>5, <1>6, <1>7, <1>8, <1>9, <1>10

\* With at most one peer GetTransactionByID returns the transaction with this
\* ID (tx.go:320): a mixed-up answer takes a second peer.
THEOREM OnePeerNeverMixes ==
    ASSUME OnePeer
    PROVE  Spec => []FetchReturnsAsked
<1>1. Init => Shape /\ Late /\ MixupsAreLate /\ NothingOwed
  <2> SUFFICES ASSUME Init
               PROVE  Late /\ MixupsAreLate /\ NothingOwed
    BY ShapeInit
  <2>1. \A n, p \in Nodes, t \in Txs : Out(n, p, t) = 0
    BY HowManyEmpty DEF Init, Out, Links
  <2>2. Late
    BY <2>1 DEF Late
  <2>3. MixupsAreLate /\ NothingOwed
    BY DEF Init, MixupsAreLate, NothingOwed, Links
  <2> QED
    BY <2>2, <2>3
<1>2. Shape /\ Late /\ MixupsAreLate /\ NothingOwed /\ [Next]_vars
         => (Shape /\ Late /\ MixupsAreLate /\ NothingOwed)'
  BY ShapeStep, LateStep, MixupStep, NothingOwedStep
<1>3. MixupsAreLate /\ NothingOwed => FetchReturnsAsked
  BY DEF MixupsAreLate, NothingOwed, FetchReturnsAsked, Links
<1> QED
  BY <1>1, <1>2, <1>3, PTL DEF Spec

=============================================================================
