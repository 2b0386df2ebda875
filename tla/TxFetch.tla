------------------------------ MODULE TxFetch -------------------------------
(***************************************************************************)
(* How a node gets a transaction that a block lists and it does not have:  *)
(* HandleNewBlock holds bc.mut and its receive loop while                  *)
(* RequestTransaction asks every peer and reads from the connections that  *)
(* the receive loops read from.  A message goes to whoever has waited      *)
(* longest: a loop, a fetch, or the reader that an earlier fetch left.     *)
(*                                                                         *)
(* Blocks are saved in one step here (BlockSync has the deaths inside a    *)
(* save) and every payment is covered (Ledger has those that are not).     *)
(***************************************************************************)
EXTENDS Rotation, Sequences, FiniteSets

CONSTANTS
    Nodes,          \* the config indices of the nodes that take part
    Dialled,        \* the pairs of nodes one of which has the other in its config
    Txs,            \* the transactions
    Pooled,         \* Pooled[n]: those submitted to node n
    Nobody,         \* no node, no handler
    NoTx,           \* no transaction
    ReadTimeout,    \* RequestTransaction, of one answer: 3 s
    TotalTimeout,   \* RequestTransaction, of all of it: 5 s; its caller waits 10
    MaxHeight,      \* bound: no proposal above this height
    MaxEvents,      \* bound: blocks sent and faults, together
    ChanCap,        \* bound: messages in a stream when another one is added
    MaxFaults       \* bound: failed sends, lost connections and crashes

\* What HandleNewBlock runs with; see Handler below.
Handlers ==
    [from : Nodes \cup {Nobody}, index : 1..MaxHeight, txs : Seq(Txs), rest : Seq(Txs)]

ASSUME TxFetchAssumption ==
    /\ Nodes \subseteq ConfigNodes
    /\ Dialled \subseteq SUBSET Nodes
    /\ Nobody \notin Nodes /\ Nobody \notin Handlers
    /\ IsFiniteSet(Txs)
    /\ NoTx \notin Txs
    /\ Pooled \in [Nodes -> SUBSET Txs]
    /\ ReadTimeout \in Nat \ {0}
    /\ TotalTimeout \in Nat
    /\ ReadTimeout <= TotalTimeout
    /\ MaxHeight \in Nat
    /\ MaxEvents \in Nat
    /\ ChanCap \in Nat
    /\ MaxFaults \in Nat

VARIABLES
    up,         \* up[n]: the process of node n runs
    chain,      \* chain[n][h]: the transactions that block h of n lists
    stored,     \* stored[n]: the transactions under TX_ROOT_HASH
    pool,       \* pool[n]: the mempool
    conns,      \* the connections, each the set of its two ends
    stream,     \* stream[<<n, p>>]: the messages of n that p has not read
    readers,    \* readers[<<n, p>>]: who waits in n for a message of p
    waiting,    \* waiting[n]: the handlers that wait for bc.mut
    holder,     \* holder[n]: the handler that has bc.mut
    fetch,      \* fetch[n]: the transaction it fetches, and for how long
    job,        \* job[<<n, p>>]: the goroutine of the fetch that asks p
    got,        \* got[<<n, p>>]: the transaction that p answered with
    asked,      \* history: what n asked of p on this connection, in order
    taken,      \* history: how many messages of p fetches of n have read
    owed,       \* history: what n asked of p in a fetch that ended without it
    budget      \* messages and faults that may still happen

node == <<up, chain, stored, pool>>
wire == <<conns, stream, readers>>
mutex == <<waiting, holder>>
request == <<fetch, job, got>>
history == <<asked, taken, owed>>
vars == <<node, wire, mutex, request, history, budget>>

Links == Nodes \X Nodes

\* The other messages are those of BlockSync that carry no block to handle.
Ask(t) == [type |-> "ask", tx |-> t]
Answer(t) == [type |-> "answer", tx |-> t]
BlockMsg(h, ts) == [type |-> "block", index |-> h, txs |-> ts]
Other == [type |-> "other"]

\* A run of HandleNewBlock: the peer whose receive loop it is in (Nobody when
\* the connection is gone), its block, the transactions not yet done.
Handler(p, h, ts) == [from |-> p, index |-> h, txs |-> ts, rest |-> ts]

NoFetch == [tx |-> NoTx, age |-> 0]

Connected(n, p) == {n, p} \in conns

Peers(n) == {p \in Nodes : Connected(n, p)}

\* A bounded event happens; a fault is one.
Event ==
    /\ budget.event > 0
    /\ budget' = [budget EXCEPT !.event = @ - 1]

Fault ==
    /\ budget.event > 0 /\ budget.fault > 0
    /\ budget' = [budget EXCEPT !.event = @ - 1, !.fault = @ - 1]

\* The orders in which a Go map may be read.
Orders(S) == {s \in [1..Cardinality(S) -> S] : \A t \in S : \E i \in DOMAIN s : s[i] = t}

Fetching(n) == fetch[n] # NoFetch

-----------------------------------------------------------------------------
(* Processes and connections.                                               *)

Orphaned(n, h, gone) ==
    IF h # Nobody /\ {n, h.from} \in gone THEN [h EXCEPT !.from = Nobody] ELSE h

\* The connections in gone are closed, the processes in dead are gone.  A
\* read or a fetch on a closed connection fails; a handler goes on.
Close(gone, dead) ==
    LET Gone(l) == {l[1], l[2]} \in gone
    IN  /\ up' = [n \in Nodes |-> up[n] /\ n \notin dead]
        /\ pool' = [n \in Nodes |-> IF n \in dead THEN {} ELSE pool[n]]
        /\ conns' = conns \ gone
        /\ stream' = [l \in Links |-> IF Gone(l) THEN <<>> ELSE stream[l]]
        /\ readers' = [l \in Links |-> IF Gone(l) THEN <<>> ELSE readers[l]]
        /\ waiting' = [n \in Nodes |-> IF n \in dead THEN {}
                                       ELSE {Orphaned(n, h, gone) : h \in waiting[n]}]
        /\ holder' = [n \in Nodes |-> IF n \in dead THEN Nobody
                                      ELSE Orphaned(n, holder[n], gone)]
        /\ fetch' = [n \in Nodes |-> IF n \in dead THEN NoFetch ELSE fetch[n]]
        /\ job' = [l \in Links |-> IF l[1] \in dead THEN "none"
                                   ELSE IF Gone(l) /\ job[l] = "reading" THEN "error"
                                   ELSE job[l]]
        /\ got' = [l \in Links |-> IF l[1] \in dead THEN NoTx ELSE got[l]]
        /\ asked' = [l \in Links |-> IF Gone(l) THEN <<>> ELSE asked[l]]
        /\ taken' = [l \in Links |-> IF Gone(l) THEN 0 ELSE taken[l]]
        /\ owed' = [l \in Links |-> IF l[1] \in dead THEN {} ELSE owed[l]]

Die(n) == Close({c \in conns : n \in c}, {n})

Crash(n) ==
    /\ up[n]
    /\ Fault
    /\ Die(n)
    /\ UNCHANGED <<chain, stored>>

Restart(n) ==
    /\ ~up[n]
    /\ up' = [up EXCEPT ![n] = TRUE]
    /\ UNCHANGED <<chain, stored, pool, wire, mutex, request, history, budget>>

\* runProtocol at both ends: its receive loop reads, and peerRWs has the peer.
Connect(n, p) ==
    /\ n # p /\ {n, p} \in Dialled
    /\ up[n] /\ up[p] /\ ~Connected(n, p)
    /\ conns' = conns \cup {{n, p}}
    /\ readers' = [readers EXCEPT ![<<n, p>>] = <<"loop">>, ![<<p, n>>] = <<"loop">>]
    /\ UNCHANGED <<node, stream, mutex, request, history, budget>>

Hangup(n, p) ==
    /\ Connected(n, p)
    /\ Fault
    /\ Close({{n, p}}, {})
    /\ UNCHANGED <<chain, stored>>

-----------------------------------------------------------------------------
(* What is sent beside requests for transactions.                           *)

\* The node executes its mempool and lists it in a block.
Propose(n) ==
    LET new == pool[n] \ stored[n]
    IN  /\ Peers(n) # {}
        /\ holder[n] = Nobody
        /\ Len(chain[n]) < MaxHeight
        /\ Eligible(Len(chain[n]), n)
        /\ \E ts \in Orders(new) : chain' = [chain EXCEPT ![n] = Append(@, ts)]
        /\ stored' = [stored EXCEPT ![n] = @ \cup new]
        /\ pool' = [pool EXCEPT ![n] = @ \ new]
        /\ UNCHANGED <<up, wire, mutex, request, history, budget>>

\* A proposal, or the answer to a request for a block.
SendBlock(p, n) ==
    /\ Connected(p, n)
    /\ Event
    /\ \E h \in DOMAIN chain[p] :
          stream' = [stream EXCEPT ![<<p, n>>] = Append(@, BlockMsg(h, chain[p][h]))]
    /\ UNCHANGED <<node, conns, readers, mutex, request, history>>

\* Who waits for a message there beside the receive loop.
Readers(l) == {i \in DOMAIN readers[l] : readers[l][i] # "loop"}

\* One of the others at a time, on a stream with no more than ChanCap messages:
\* while a fetch reads there, or when nothing else is on its way.
SendOther(p, n) ==
    /\ Connected(p, n)
    /\ Len(stream[<<p, n>>]) < ChanCap
    /\ \A l \in Links : \A i \in DOMAIN stream[l] : stream[l][i] # Other
    /\ Readers(<<n, p>>) # {} \/ \A l \in Links : stream[l] = <<>>
    /\ stream' = [stream EXCEPT ![<<p, n>>] = Append(@, Other)]
    /\ UNCHANGED <<node, conns, readers, mutex, request, history, budget>>

-----------------------------------------------------------------------------
(* Reading from a connection.  The message goes to the reader that has      *)
(* waited longest, as in any channel of Go.                                 *)

\* The reader r in n takes m of p off the stream.
Takes(n, p, r, m) ==
    /\ readers[<<n, p>>] # <<>> /\ r = Head(readers[<<n, p>>])
    /\ stream[<<p, n>>] # <<>> /\ m = Head(stream[<<p, n>>])

\* The mempool, then the transaction trie.
Holds(n, t) == t \in pool[n] \cup stored[n]

\* GetTransactionByIDFromNode, for the peer that asks: no answer if not found.
Response(n, t) == IF Holds(n, t) THEN <<Answer(t)>> ELSE <<>>

Again(r) == Append(Tail(r), "loop")

\* Mutant: one answer from the mempool and one from the trie.
LoopAnswersTwice(n, p) ==
    /\ \E t \in Txs :
          /\ Takes(n, p, "loop", Ask(t))
          /\ stream' = [stream EXCEPT ![<<p, n>>] = Tail(@),
                            ![<<n, p>>] = @ \o Response(n, t) \o Response(n, t)]
    /\ readers' = [readers EXCEPT ![<<n, p>>] = Again(@)]
    /\ UNCHANGED <<node, conns, mutex, request, history, budget>>

\* The receive loop answers a request if it can, and reads on.
LoopAnswers(n, p) ==
    /\ \E t \in Txs :
          /\ Takes(n, p, "loop", Ask(t))
          /\ stream' = [stream EXCEPT ![<<p, n>>] = Tail(@),
                            ![<<n, p>>] = @ \o Response(n, t)]
    /\ readers' = [readers EXCEPT ![<<n, p>>] = Again(@)]
    /\ UNCHANGED <<node, conns, mutex, request, history, budget>>

\* It has no case for an answer, which is lost; the other messages matter
\* here only because they are read.
LoopIgnores(n, p) ==
    /\ \E m \in {Other} \cup {Answer(t) : t \in Txs} : Takes(n, p, "loop", m)
    /\ stream' = [stream EXCEPT ![<<p, n>>] = Tail(@)]
    /\ readers' = [readers EXCEPT ![<<n, p>>] = Again(@)]
    /\ UNCHANGED <<node, conns, mutex, request, history, budget>>

\* It calls HandleNewBlock and reads no more until that returns.
LoopHandles(n, p) ==
    /\ readers[<<n, p>>] # <<>> /\ Head(readers[<<n, p>>]) = "loop"
    /\ stream[<<p, n>>] # <<>>
    /\ LET m == Head(stream[<<p, n>>])
       IN  /\ m.type = "block"
           /\ waiting' = [waiting EXCEPT ![n] = @ \cup {Handler(p, m.index, m.txs)}]
    /\ stream' = [stream EXCEPT ![<<p, n>>] = Tail(@)]
    /\ readers' = [readers EXCEPT ![<<n, p>>] = Tail(@)]
    /\ UNCHANGED <<node, conns, holder, request, history, budget>>

\* Mutant: the goroutine reads on after a message that is no answer.
JobReadsOn(n, p) ==
    /\ readers[<<n, p>>] # <<>> /\ Head(readers[<<n, p>>]) = "job"
    /\ stream[<<p, n>>] # <<>>
    /\ LET m == Head(stream[<<p, n>>])
       IN  \/ /\ m.type = "answer"
              /\ job' = [job EXCEPT ![<<n, p>>] = "answer"]
              /\ got' = [got EXCEPT ![<<n, p>>] = m.tx]
              /\ readers' = [readers EXCEPT ![<<n, p>>] = Tail(@)]
           \/ /\ m.type # "answer"
              /\ readers' = [readers EXCEPT ![<<n, p>>] = Append(Tail(@), "job")]
              /\ UNCHANGED <<job, got>>
    /\ stream' = [stream EXCEPT ![<<p, n>>] = Tail(@)]
    /\ taken' = [taken EXCEPT ![<<n, p>>] = @ + 1]
    /\ UNCHANGED <<node, conns, mutex, fetch, asked, owed, budget>>

\* RequestTransaction reads one message.  Any answer will do; after anything
\* else its goroutine ends, and says nothing.
JobReads(n, p) ==
    /\ readers[<<n, p>>] # <<>> /\ Head(readers[<<n, p>>]) = "job"
    /\ stream[<<p, n>>] # <<>>
    /\ LET m == Head(stream[<<p, n>>])
       IN  \/ /\ m.type = "answer"
              /\ job' = [job EXCEPT ![<<n, p>>] = "answer"]
              /\ got' = [got EXCEPT ![<<n, p>>] = m.tx]
           \/ /\ m.type # "answer"
              /\ job' = [job EXCEPT ![<<n, p>>] = "done"]
              /\ UNCHANGED got
    /\ stream' = [stream EXCEPT ![<<p, n>>] = Tail(@)]
    /\ readers' = [readers EXCEPT ![<<n, p>>] = Tail(@)]
    /\ taken' = [taken EXCEPT ![<<n, p>>] = @ + 1]
    /\ UNCHANGED <<node, conns, mutex, fetch, asked, owed, budget>>

\* The reader of a fetch that is over takes the next message, and drops it.
GhostReads(n, p) ==
    /\ readers[<<n, p>>] # <<>> /\ Head(readers[<<n, p>>]) = "ghost"
    /\ stream[<<p, n>>] # <<>>
    /\ stream' = [stream EXCEPT ![<<p, n>>] = Tail(@)]
    /\ readers' = [readers EXCEPT ![<<n, p>>] = Tail(@)]
    /\ taken' = [taken EXCEPT ![<<n, p>>] = @ + 1]
    /\ UNCHANGED <<node, conns, mutex, request, asked, owed, budget>>

-----------------------------------------------------------------------------
(* HandleNewBlock, with bc.mut.                                             *)

\* The receive loop that called HandleNewBlock reads again.
Resumed(n, h) ==
    IF h.from = Nobody THEN readers
    ELSE [readers EXCEPT ![<<n, h.from>>] = Append(@, "loop")]

\* Mutant: a block that the node has is handled again.
HasBlockNever(n, h) == FALSE

HasBlock(n, h) == h.index \in DOMAIN chain[n]

\* The handler gets bc.mut, and returns if the block is there.
Lock(n, h) ==
    /\ holder[n] = Nobody
    /\ h \in waiting[n]
    /\ waiting' = [waiting EXCEPT ![n] = @ \ {h}]
    /\ \/ HasBlock(n, h) /\ readers' = Resumed(n, h) /\ UNCHANGED holder
       \/ ~HasBlock(n, h) /\ holder' = [holder EXCEPT ![n] = h] /\ UNCHANGED readers
    /\ UNCHANGED <<node, conns, stream, request, history, budget>>

\* The transaction that the handler of n is at.
At(n, t) ==
    /\ holder[n] # Nobody
    /\ holder[n].rest # <<>>
    /\ t = Head(holder[n].rest)
    /\ ~Fetching(n)

Done(n) == holder' = [holder EXCEPT ![n].rest = Tail(@)]

\* What ProcessTransactionsByIDs does with the transaction that it has.
Execute(n, t) == stored' = [stored EXCEPT ![n] = @ \cup {t}]

Skip(n, t) ==
    /\ At(n, t)
    /\ t \in stored[n]
    /\ Done(n)
    /\ UNCHANGED <<node, wire, waiting, request, history, budget>>

FindLocal(n, t) ==
    /\ At(n, t)
    /\ t \in pool[n] \ stored[n]
    /\ Execute(n, t)
    /\ Done(n)
    /\ UNCHANGED <<up, chain, pool, wire, waiting, request, history, budget>>

\* The index is looked at last.
Finish(n) ==
    LET h == holder[n]
    IN  /\ h # Nobody
        /\ h.rest = <<>>
        /\ holder' = [holder EXCEPT ![n] = Nobody]
        /\ chain' = [chain EXCEPT ![n] =
                       IF h.index = Len(@) + 1 THEN Append(@, h.txs) ELSE @]
        /\ readers' = Resumed(n, h)
        /\ UNCHANGED <<up, stored, pool, conns, stream, waiting, request,
                       history, budget>>

-----------------------------------------------------------------------------
(* RequestTransaction.                                                      *)

\* All connected peers are asked.  The sends to those in bad fail: with an
\* error, or silently when the connection is shutting down.
StartFetch(n, t) ==
    /\ At(n, t)
    /\ ~Holds(n, t)
    /\ Peers(n) # {}
    /\ fetch' = [fetch EXCEPT ![n] = [tx |-> t, age |-> 0]]
    /\ \E bad \in SUBSET Peers(n), how \in {"error", "done"} :
          LET Good(l) == l[1] = n /\ l[2] \in Peers(n) \ bad
          IN  /\ \/ bad = {} /\ UNCHANGED budget
                 \/ bad # {} /\ Fault
              /\ job' = [l \in Links |-> IF Good(l) THEN "reading"
                                         ELSE IF l[1] = n /\ l[2] \in bad THEN how
                                         ELSE job[l]]
              /\ stream' = [l \in Links |-> IF Good(l) THEN Append(stream[l], Ask(t))
                                            ELSE stream[l]]
              /\ readers' = [l \in Links |-> IF Good(l) THEN Append(readers[l], "job")
                                             ELSE readers[l]]
              /\ asked' = [l \in Links |-> IF Good(l) THEN Append(asked[l], t) ELSE asked[l]]
    /\ UNCHANGED <<node, conns, mutex, got, taken, owed>>

\* Without a peer the request is an error at once.
FetchAlone(n, t) ==
    /\ At(n, t)
    /\ ~Holds(n, t)
    /\ Peers(n) = {}
    /\ Die(n)
    /\ UNCHANGED <<chain, stored, budget>>

\* The fetch asked l[2], which has not answered it, or not with the transaction.
Unanswered(l) == job[l] # "none" /\ got[l] # fetch[l[1]].tx

\* The first answer is returned, and executed.  The goroutines that wait for
\* an answer have nobody to give it to; their readers stay.
TakeAnswer(n, p) ==
    /\ Fetching(n)
    /\ job[<<n, p>>] = "answer"
    /\ Execute(n, got[<<n, p>>])
    /\ Done(n)
    /\ fetch' = [fetch EXCEPT ![n] = NoFetch]
    /\ job' = [l \in Links |-> IF l[1] = n THEN "none" ELSE job[l]]
    /\ got' = [l \in Links |-> IF l[1] = n THEN NoTx ELSE got[l]]
    /\ owed' = [l \in Links |-> IF l[1] = n /\ Unanswered(l)
                                THEN owed[l] \cup {fetch[n].tx} ELSE owed[l]]
    /\ readers' = [l \in Links |->
          IF l[1] # n THEN readers[l]
          ELSE [i \in DOMAIN readers[l] |->
                  IF readers[l][i] = "job" THEN "ghost" ELSE readers[l][i]]]
    /\ UNCHANGED <<up, chain, pool, conns, stream, waiting, asked, taken, budget>>

\* An error becomes a nil transaction, of which the handler reads the sender:
\* the process ends.
TakeError(n, p) ==
    /\ Fetching(n)
    /\ job[<<n, p>>] = "error"
    /\ Die(n)
    /\ UNCHANGED <<chain, stored, budget>>

\* Mutant: the read that timed out counts as an answer.
ReadTimesOutEmpty(n, p) ==
    /\ job[<<n, p>>] = "reading"
    /\ fetch[n].age >= ReadTimeout
    /\ job' = [job EXCEPT ![<<n, p>>] = "answer"]
    /\ readers' = [readers EXCEPT ![<<n, p>>] =
          [i \in DOMAIN @ |-> IF @[i] = "job" THEN "ghost" ELSE @[i]]]
    /\ UNCHANGED <<node, conns, stream, mutex, fetch, got, history, budget>>

ReadTimesOut(n, p) ==
    /\ job[<<n, p>>] = "reading"
    /\ fetch[n].age >= ReadTimeout
    /\ job' = [job EXCEPT ![<<n, p>>] = "error"]
    /\ readers' = [readers EXCEPT ![<<n, p>>] =
          [i \in DOMAIN @ |-> IF @[i] = "job" THEN "ghost" ELSE @[i]]]
    /\ UNCHANGED <<node, conns, stream, mutex, fetch, got, history, budget>>

Due(n) == Fetching(n) /\ fetch[n].age >= TotalTimeout

\* Mutant: there is no timeout of the whole request.
GiveUpNever(n) == FALSE /\ UNCHANGED vars

\* The timeout of the whole request is an error like the others.
GiveUp(n) ==
    /\ Due(n)
    /\ Die(n)
    /\ UNCHANGED <<chain, stored, budget>>

\* A timer that is due goes off, and a value that a select waits for is
\* received, before the next tick.
Urgent(n) ==
    \/ Due(n)
    \/ /\ Fetching(n)
       /\ \E p \in Nodes :
             \/ job[<<n, p>>] \in {"answer", "error"}
             \/ job[<<n, p>>] = "reading" /\ fetch[n].age >= ReadTimeout

Tick ==
    /\ \E n \in Nodes : Fetching(n)
    /\ \A n \in Nodes : ~Urgent(n)
    /\ fetch' = [n \in Nodes |-> IF Fetching(n) THEN [fetch[n] EXCEPT !.age = @ + 1]
                                 ELSE fetch[n]]
    /\ UNCHANGED <<node, wire, mutex, job, got, history, budget>>

-----------------------------------------------------------------------------
Init ==
    /\ up = [n \in Nodes |-> TRUE]
    /\ chain = [n \in Nodes |-> <<>>]
    /\ stored = [n \in Nodes |-> {}]
    /\ pool = Pooled
    /\ conns = {}
    /\ stream = [l \in Links |-> <<>>]
    /\ readers = [l \in Links |-> <<>>]
    /\ waiting = [n \in Nodes |-> {}]
    /\ holder = [n \in Nodes |-> Nobody]
    /\ fetch = [n \in Nodes |-> NoFetch]
    /\ job = [l \in Links |-> "none"]
    /\ got = [l \in Links |-> NoTx]
    /\ asked = [l \in Links |-> <<>>]
    /\ taken = [l \in Links |-> 0]
    /\ owed = [l \in Links |-> {}]
    /\ budget = [event |-> MaxEvents, fault |-> MaxFaults]

Wire(n, p) == Connect(n, p) \/ Hangup(n, p) \/ SendBlock(n, p) \/ SendOther(n, p)

Read(n, p) == LoopAnswers(n, p) \/ LoopIgnores(n, p) \/ LoopHandles(n, p)
                 \/ JobReads(n, p) \/ GhostReads(n, p)

\* The handler goes on.
Work(n) ==
    \/ Finish(n)
    \/ \E t \in Txs : Skip(n, t) \/ FindLocal(n, t) \/ StartFetch(n, t) \/ FetchAlone(n, t)

\* The fetch of the handler ends, or one of its goroutines does.
Conclude(n) ==
    \/ GiveUp(n)
    \/ \E p \in Nodes : TakeAnswer(n, p) \/ TakeError(n, p) \/ ReadTimesOut(n, p)

Next ==
    \/ Tick
    \/ \E n \in Nodes :
          \/ Crash(n) \/ Restart(n) \/ Propose(n) \/ Work(n) \/ Conclude(n)
          \/ \E h \in waiting[n] : Lock(n, h)
    \/ \E n, p \in Nodes : Wire(n, p) \/ Read(n, p)

Spec == Init /\ [][Next]_vars

\* Time passes, timers go off, and a handler that has bc.mut goes on.  That
\* messages are read, or sent, is not assumed: the end of a fetch needs none.
Fairness ==
    /\ WF_vars(Tick)
    /\ \A n \in Nodes : WF_vars(Work(n)) /\ WF_vars(Conclude(n))

FairSpec == Spec /\ Fairness

-----------------------------------------------------------------------------
(* Properties.                                                              *)

Messages ==
    [type : {"ask", "answer"}, tx : Txs] \cup [type : {"other"}]
        \cup [type : {"block"}, index : 1..MaxHeight, txs : Seq(Txs)]

\* The shape of the state.
TypeOK ==
    /\ up \in [Nodes -> BOOLEAN]
    /\ chain \in [Nodes -> Seq(Seq(Txs))]
    /\ stored \in [Nodes -> SUBSET Txs]
    /\ pool \in [Nodes -> SUBSET Txs]
    /\ conns \subseteq SUBSET Nodes
    /\ stream \in [Links -> Seq(Messages)]
    /\ readers \in [Links -> Seq({"loop", "job", "ghost"})]
    /\ waiting \in [Nodes -> SUBSET Handlers]
    /\ holder \in [Nodes -> Handlers \cup {Nobody}]
    /\ fetch \in [Nodes -> [tx : Txs \cup {NoTx}, age : Nat]]
    /\ job \in [Links -> {"none", "reading", "answer", "error", "done"}]
    /\ got \in [Links -> Txs \cup {NoTx}]
    /\ \A l \in Links : job[l] = "answer" => got[l] # NoTx
    /\ asked \in [Links -> Seq(Txs)]
    /\ taken \in [Links -> Nat]
    /\ owed \in [Links -> SUBSET Txs]
    /\ budget \in [{"event", "fault"} -> Nat]

\* Two nodes never wait for each other, nor more in a circle: a node that
\* handles a block, with bc.mut and a receive loop taken, has it from a peer
\* with a longer chain (HandleNewBlock returns at once for a block it has).
WaitsUphill ==
    \A n, p \in Nodes :
        holder[n] # Nobody /\ holder[n].from = p => Len(chain[n]) < Len(chain[p])

\* How many messages of type k about t are on their way from n to p.
OnTheWay(k, t, n, p) ==
    Cardinality({i \in DOMAIN stream[<<n, p>>] :
                    LET m == stream[<<n, p>>][i] IN m.type = k /\ m.tx = t})

\* An answer on its way was asked for on this connection, by a request of its
\* own, and its sender has the transaction (the case TransactionRequestMsg).
AnswersWereAsked ==
    \A n, p \in Nodes, t \in Txs :
        LET answers == OnTheWay("answer", t, p, n)
        IN  /\ answers > 0 => Holds(p, t)
            /\ answers + OnTheWay("ask", t, n, p)
                  <= Cardinality({i \in DOMAIN asked[<<n, p>>] : asked[<<n, p>>][i] = t})

\* RequestTransaction does not compare what it gets with what it asked for.
\* It gets another transaction only when that is the late answer of this peer
\* to an earlier request, which ended without it; with one peer never.
MixupsAreLate ==
    \A n, p \in Nodes :
        job[<<n, p>>] = "answer" =>
            got[<<n, p>>] = fetch[n].tx \/ got[<<n, p>>] \in owed[<<n, p>>]

\* A request costs a peer's receive loop one message at most, now or, by the
\* reader it leaves behind, later: what BlockSync counts as a loss.
OneMessagePerFetch ==
    \A l \in Links : taken[l] + Cardinality(Readers(l)) <= Len(asked[l])

\* A handler gives bc.mut and its receive loop back, or dies, also when every
\* goroutine of its fetch ended without a word and nobody sends anything.
HandlersEnd == \A n \in Nodes : holder[n] # Nobody ~> holder[n] = Nobody

-----------------------------------------------------------------------------
(* What comments say and the code does not do.                              *)

\* tx.go:390, an error of the fetch does not stop the process.
FetchErrorStopsNothing == \A n \in Nodes : up[n]

\* tx.go:320, GetTransactionByID returns the transaction with this ID.  With
\* one peer it does, since a fetch that this peer fails ends the process and
\* leaves nothing that could come late; with two it does not.
FetchReturnsAsked ==
    \A n, p \in Nodes : job[<<n, p>>] = "answer" => got[<<n, p>>] = fetch[n].tx

=============================================================================
