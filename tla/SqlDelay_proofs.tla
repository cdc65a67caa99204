-------------------------- MODULE SqlDelay_proofs --------------------------
(***************************************************************************)
(* Theorems about SqlDelay for any set of clients and any bounds: the type *)
(* invariant, that direct calls are durable beside the delay thread's      *)
(* transactions, that delayed operations, their shared connection and the  *)
(* result queue implement SerialStore, that no mutex is waited for in a    *)
(* circle, that the shutdown leaves nothing behind, and that the oldest    *)
(* operation only comes nearer to its end.                                 *)
(***************************************************************************)
EXTENDS SqlDelay, DataLemmas, TLAPS

\* The connection's mutex is held exactly while an operation is being executed.
Locked == connOwner = DelayThread <=> stmt # NotStarted

\* The server has a transaction open exactly while the delay thread executes one, and
\* what was written there is what was executed of it.
InStep ==
    /\ inTransaction <=> stmt # NotStarted /\ Head(sqlQueue).kind = "transaction"
    /\ uncommitted = IF inTransaction THEN SubSeq(Head(sqlQueue).stmts, 1, stmt) ELSE <<>>

\* The result in hand is that of the query being executed.
HandOK ==
    inHand # NoResult =>
        stmt # NotStarted /\ inHand.query = Head(sqlQueue) /\ Head(sqlQueue).kind = "query"

\* The local queue is empty outside ProcessRequests.
LocalQueue == sqlQueue # <<>> => pc \in {"requests", "lastRequests"}

\* No query is executed directly.
NoDirectQuery == \A c \in Clients : call[c].how = "Direct" => call[c].op.kind # "query"

Inv == TypeOK /\ Locked /\ InStep /\ HandOK /\ LocalQueue /\ NoDirectQuery

-----------------------------------------------------------------------------
(* Operations and results. *)

Kinds == {"plain", "query", "transaction"}

LEMMA OperationType ==
    ASSUME NEW op \in Operation
    PROVE  /\ op.kind \in Kinds
           /\ op.stmts \in Seq(Statement)
           /\ Len(op.stmts) \in Nat
           /\ op.stmts = <<>> => op.kind = "transaction"
<1>1. ASSUME NEW s \in Statement, op = Plain(s) \/ op = Query(s)
      PROVE  op.kind \in Kinds /\ op.stmts = <<s>>
  BY <1>1 DEF Plain, Query, Op, Kinds
<1>2. ASSUME NEW s \in Statement
      PROVE  <<s>> \in Seq(Statement) /\ Len(<<s>>) = 1 /\ <<s>> # <<>>
  BY <1>2
<1>3. ASSUME NEW ss \in BoundedSeq(Statement, MaxTransaction), op = Op("transaction", ss)
      PROVE  op.kind = "transaction" /\ op.stmts \in Seq(Statement) /\ Len(op.stmts) \in Nat
  <2>1. ss \in Seq(Statement)
    BY BoundsAssumption DEF BoundedSeq, SeqOf
  <2> QED  BY <1>3, <2>1 DEF Op
<1>4. CASE \E s \in Statement : op = Plain(s) \/ op = Query(s)
  <2>1. PICK s \in Statement : op = Plain(s) \/ op = Query(s)
    BY <1>4
  <2>2. op.kind \in Kinds /\ op.stmts = <<s>>
    BY <1>1, <2>1
  <2>3. <<s>> \in Seq(Statement) /\ Len(<<s>>) = 1 /\ <<s>> # <<>>
    BY <1>2
  <2> QED  BY <2>2, <2>3
<1>5. CASE \E ss \in BoundedSeq(Statement, MaxTransaction) : op = Op("transaction", ss)
  BY <1>3, <1>5 DEF Kinds
<1> QED  BY <1>4, <1>5 DEF Operation

LEMMA NewOperation ==
    /\ \A s \in Statement : Plain(s) \in Operation /\ Query(s) \in Operation
    /\ \A ss \in BoundedSeq(Statement, MaxTransaction) : Op("transaction", ss) \in Operation
  BY DEF Operation

LEMMA NoResultIsNone == NoResult \notin Result
<1>1. NoCall \notin Operation
  BY DEF NoCall, Operation, Op, Plain, Query
<1> QED  BY <1>1 DEF NoResult, Result

LEMMA QueueType ==
    ASSUME NEW S, NEW q \in Seq(S), q # <<>>
    PROVE  Head(q) \in S /\ Tail(q) \in Seq(S) /\ Len(q) \in Nat \ {0}
  OBVIOUS

\* What is in effect stays in effect.
LEMMA ToSetGrows ==
    ASSUME NEW S, NEW s \in Seq(S), NEW t \in Seq(S)
    PROVE  ToSet(s \o t) = ToSet(s) \cup ToSet(t)
<1>1. Len(s) \in Nat /\ Len(t) \in Nat
  OBVIOUS
<1>2. \A i \in 1..Len(s) : (s \o t)[i] = s[i]
  OBVIOUS
<1>3. \A i \in 1..Len(t) : (s \o t)[Len(s) + i] = t[i]
  OBVIOUS
<1>4. ASSUME NEW i \in DOMAIN (s \o t) PROVE (s \o t)[i] \in ToSet(s) \cup ToSet(t)
  <2>1. CASE i <= Len(s)
    BY <2>1, <1>1, <1>2 DEF ToSet
  <2>2. CASE i > Len(s)
    <3>1. i - Len(s) \in 1..Len(t) /\ i = Len(s) + (i - Len(s))
      BY <1>1, <2>2
    <3> QED  BY <1>3, <3>1 DEF ToSet
  <2> QED  BY <1>1, <2>1, <2>2
<1>5. ToSet(s) \subseteq ToSet(s \o t)
  BY <1>1, <1>2 DEF ToSet
<1>6. ToSet(t) \subseteq ToSet(s \o t)
  <2>1. ASSUME NEW i \in 1..Len(t) PROVE t[i] \in ToSet(s \o t)
    <3>1. Len(s) + i \in DOMAIN (s \o t)
      BY <1>1
    <3> QED  BY <1>3, <3>1 DEF ToSet
  <2> QED  BY <2>1 DEF ToSet
<1> QED  BY <1>4, <1>5, <1>6 DEF ToSet

\* The operation in execution.
LEMMA Current ==
    ASSUME TypeOK, stmt # NotStarted
    PROVE  /\ sqlQueue # <<>> /\ Head(sqlQueue) \in Operation /\ Tail(sqlQueue) \in Seq(Operation)
           /\ Head(sqlQueue).stmts \in Seq(Statement)
           /\ stmt \in 0..Len(Head(sqlQueue).stmts)
<1>1. sqlQueue # <<>>
  BY DEF TypeOK, NotStarted
<1>2. Head(sqlQueue) \in Operation /\ Tail(sqlQueue) \in Seq(Operation)
  BY <1>1, QueueType DEF TypeOK
<1>3. Head(sqlQueue).stmts \in Seq(Statement) /\ Len(Head(sqlQueue).stmts) \in Nat
  BY <1>2, OperationType
<1> QED  BY <1>1, <1>2, <1>3 DEF TypeOK, NotStarted

-----------------------------------------------------------------------------
(* The inductive invariant. *)

LEMMA InitInv == Init => Inv
<1> SUFFICES ASSUME Init PROVE Inv
  OBVIOUS
<1>1. TypeOK
  <2>1. <<>> \in Seq(Operation) /\ <<>> \in Seq(Statement) /\ <<>> \in Seq(Result)
    OBVIOUS
  <2>2. stmt \in NotStarted..(IF sqlQueue = <<>> THEN NotStarted ELSE Len(Head(sqlQueue).stmts))
    BY DEF Init, NotStarted
  <2>3. issued \in 0..MaxRequests
    BY BoundsAssumption DEF Init
  <2> QED  BY <2>1, <2>2, <2>3 DEF Init, TypeOK
<1> QED
  BY <1>1, ThreadsAssumption
  DEF Init, Inv, Locked, InStep, HandOK, LocalQueue, NoDirectQuery, NotStarted, NoCall

\* A request changes the client's own transaction and call only.
LEMMA RequestType ==
    ASSUME TypeOK, NoDirectQuery, NEW c \in Clients, Request(c)
    PROVE  /\ issued' \in 0..MaxRequests
           /\ m_currentTransaction'
                \in [Clients -> {NoTransaction} \cup BoundedSeq(Statement, MaxTransaction)]
           /\ call' \in [Clients -> {NoCall} \cup [how : {"Delay", "Direct"}, op : Operation]]
           /\ NoDirectQuery'
<1> DEFINE Bounded == BoundedSeq(Statement, MaxTransaction)
           CallType == [how : {"Delay", "Direct"}, op : Operation]
<1>1. ASSUME NEW how \in {"Delay", "Direct"}, NEW op \in Operation, Calls(c, how, op),
             how = "Direct" => op.kind # "query"
      PROVE  call' \in [Clients -> {NoCall} \cup CallType] /\ NoDirectQuery'
  BY <1>1 DEF TypeOK, Calls, NoDirectQuery
<1>2. ASSUME issued' = issued + 1, issued < MaxRequests
      PROVE  issued' \in 0..MaxRequests /\ issued' \in Statement
  BY <1>2, BoundsAssumption DEF TypeOK, Statement
<1>3. UNCHANGED call => call' \in [Clients -> {NoCall} \cup CallType] /\ NoDirectQuery'
  BY DEF TypeOK, NoDirectQuery
<1>4. ASSUME NEW t \in {NoTransaction} \cup Bounded,
             m_currentTransaction' = [m_currentTransaction EXCEPT ![c] = t]
      PROVE  m_currentTransaction' \in [Clients -> {NoTransaction} \cup Bounded]
  BY <1>4 DEF TypeOK
<1>5. <<>> \in Bounded
  BY BoundsAssumption DEF BoundedSeq, SeqOf
<1>6. ASSUME NEW t \in Bounded, NEW s \in Statement, Len(t) < MaxTransaction
      PROVE  Append(t, s) \in Bounded
  <2>1. PICK m \in 0..MaxTransaction : t \in [1..m -> Statement]
    BY BoundsAssumption DEF BoundedSeq, SeqOf
  <2>2. t \in Seq(Statement) /\ Len(t) = m
    BY <2>1
  <2>3. m + 1 \in 0..MaxTransaction
    BY <1>6, <2>2, BoundsAssumption
  <2>4. Append(t, s) \in [1..(m + 1) -> Statement]
    <3>1. Append(t, s) \in Seq(Statement) /\ Len(Append(t, s)) = m + 1
      BY <2>2, AppendProperties
    <3> HIDE DEF Bounded
    <3> DEFINE longer == Append(t, s)
    <3>2. longer \in [1..Len(longer) -> Statement]
      BY <3>1, LenProperties
    <3> QED  BY <3>1, <3>2
  <2> QED  BY <2>3, <2>4 DEF BoundedSeq, SeqOf
<1>7. m_currentTransaction[c] # NoTransaction => m_currentTransaction[c] \in Bounded
  BY DEF TypeOK
<1>8. CASE BeginTransaction(c)
  BY <1>2, <1>3, <1>4, <1>5, <1>8 DEF BeginTransaction
<1>9. CASE Execute(c)
  <2>1. CASE m_currentTransaction[c] # NoTransaction
    BY <1>2, <1>3, <1>4, <1>6, <1>7, <1>9, <2>1 DEF Execute
  <2>2. CASE m_currentTransaction[c] = NoTransaction
    BY <1>1, <1>2, <1>9, <2>2, NewOperation DEF Execute, TypeOK
  <2> QED  BY <2>1, <2>2
<1>10. CASE AsyncQuery(c)
  BY <1>1, <1>2, <1>10, NewOperation DEF AsyncQuery, TypeOK
<1>11. CASE DirectExecute(c)
  BY <1>1, <1>2, <1>11, NewOperation DEF DirectExecute, TypeOK, Plain, Op
<1>12. CASE CommitTransaction(c)
  BY <1>1, <1>4, <1>7, <1>12, NewOperation DEF CommitTransaction, TypeOK
<1>13. CASE RollbackTransaction(c)
  BY <1>3, <1>4, <1>13 DEF RollbackTransaction, TypeOK
<1>14. CASE CommitTransactionDirect(c)
  BY <1>1, <1>4, <1>7, <1>14, NewOperation DEF CommitTransactionDirect, TypeOK, Op
<1> QED
  BY <1>8, <1>9, <1>10, <1>11, <1>12, <1>13, <1>14 DEF Request

LEMMA RequestInv ==
    ASSUME Inv, NEW c \in Clients, Request(c)
    PROVE  Inv'
<1>1. UNCHANGED <<control, thread, m_sqlQueue, connOwner, server, results, acknowledged>>
  BY DEF Request
<1> USE <1>1 DEF control, thread, server, results
<1>2. TypeOK' /\ NoDirectQuery'
  BY RequestType DEF Inv, TypeOK
<1>3. Locked' /\ InStep' /\ HandOK' /\ LocalQueue'
  BY DEF Inv, Locked, InStep, HandOK, LocalQueue
<1> QED  BY <1>2, <1>3 DEF Inv

\* The operation goes to the end of the queue.
LEMMA DelayInv ==
    ASSUME Inv, NEW c \in Clients, Delay(c)
    PROVE  /\ Inv'
           /\ call[c].op \in Operation /\ m_sqlQueue' = Append(m_sqlQueue, call[c].op)
<1> USE DEF Delay, thread, control, server, results
<1>1. call[c].op \in Operation
  BY DEF Inv, TypeOK, NoCall
<1>2. m_sqlQueue' \in Seq(Operation)
  BY <1>1 DEF Inv, TypeOK
<1>3. call' \in [Clients -> {NoCall} \cup [how : {"Delay", "Direct"}, op : Operation]]
      /\ NoDirectQuery'
  BY DEF Inv, TypeOK, NoDirectQuery, NoCall
<1>4. TypeOK'
  BY <1>2, <1>3 DEF Inv, TypeOK
<1>5. Locked' /\ InStep' /\ HandOK' /\ LocalQueue'
  BY DEF Inv, Locked, InStep, HandOK, LocalQueue
<1> QED  BY <1>1, <1>3, <1>4, <1>5 DEF Inv

\* The connection is free, so no transaction is open and what a direct call writes is in
\* effect at once.
LEMMA DirectInv ==
    ASSUME Inv, NEW c \in Clients, ExecuteDirectly(c)
    PROVE  /\ Inv'
           /\ call[c].op \in Operation /\ call[c].op.kind # "query"
           /\ db' \in {db, db \o call[c].op.stmts}
<1> USE DEF ExecuteDirectly, thread, control, results
<1>1. call[c].op \in Operation /\ call[c].op.kind # "query"
  BY DEF Inv, TypeOK, NoCall, NoDirectQuery
<1>2. call[c].op.stmts \in Seq(Statement)
  BY <1>1, OperationType
<1>3. ~inTransaction
  BY ThreadsAssumption DEF Inv, Locked, InStep
<1>4. UNCHANGED uncommitted /\ db' \in {db, db \o call[c].op.stmts}
  BY <1>3
<1>5. call' \in [Clients -> {NoCall} \cup [how : {"Delay", "Direct"}, op : Operation]]
      /\ NoDirectQuery'
  BY DEF Inv, TypeOK, NoDirectQuery, NoCall
<1>6. db' \in Seq(Statement)
  <2>1. db \in Seq(Statement) /\ db \o call[c].op.stmts \in Seq(Statement)
    BY <1>2, ConcatProperties DEF Inv, TypeOK
  <2> QED  BY <1>4, <2>1
<1>7. acknowledged' \in SUBSET Operation
  BY <1>1 DEF Inv, TypeOK
<1>8. TypeOK'
  BY <1>4, <1>5, <1>6, <1>7 DEF Inv, TypeOK
<1>9. Locked' /\ InStep' /\ HandOK' /\ LocalQueue'
  BY <1>4 DEF Inv, Locked, InStep, HandOK, LocalQueue
<1> QED  BY <1>1, <1>4, <1>5, <1>8, <1>9 DEF Inv

\* The call comes after the end of the delay thread.
LEMMA TooLateInv ==
    ASSUME Inv, NEW c \in Clients, DelayTooLate(c)
    PROVE  Inv'
<1>1. /\ UNCHANGED <<client, worldEnded, m_running, thread, m_sqlQueue, connOwner, server, results,
                     acknowledged>>
      /\ crashed' = TRUE
  BY DEF DelayTooLate
<1>2. TypeOK'
  BY <1>1 DEF client, thread, server, results, Inv, TypeOK
<1>3. Locked' /\ InStep' /\ HandOK' /\ LocalQueue' /\ NoDirectQuery'
  BY <1>1 DEF client, thread, server, Inv, Locked, InStep, HandOK, LocalQueue, NoDirectQuery
<1> QED  BY <1>2, <1>3 DEF Inv

\* The callbacks: a result moves from the queue to the past.
LEMMA UpdateInv ==
    ASSUME Inv, Update
    PROVE  /\ Inv'
           /\ UNCHANGED <<sqlQueue, m_sqlQueue, inHand, db>>
           /\ \/ UNCHANGED <<m_resultQueue, ran>>
              \/ /\ m_resultQueue # <<>>
                 /\ ran' = Append(ran, Head(m_resultQueue)) /\ m_resultQueue' = Tail(m_resultQueue)
<1> USE DEF Update, StartUpdate, RunCallback, EndUpdate, client, control, thread, server
<1>1. \/ UNCHANGED <<m_resultQueue, ran>>
      \/ /\ m_resultQueue # <<>>
         /\ ran' = Append(ran, Head(m_resultQueue)) /\ m_resultQueue' = Tail(m_resultQueue)
  OBVIOUS
<1>2. m_resultQueue' \in Seq(Result) /\ ran' \in Seq(Result)
  <2>1. m_resultQueue \in Seq(Result) /\ ran \in Seq(Result)
    BY DEF Inv, TypeOK
  <2>2. CASE m_resultQueue # <<>> /\ ran' = Append(ran, Head(m_resultQueue))
               /\ m_resultQueue' = Tail(m_resultQueue)
    <3>1. Head(m_resultQueue) \in Result /\ Tail(m_resultQueue) \in Seq(Result)
      BY <2>1, <2>2, QueueType
    <3> QED  BY <2>1, <2>2, <3>1, AppendProperties
  <2> QED  BY <1>1, <2>1, <2>2
<1>3. /\ UNCHANGED <<client, control, thread, m_sqlQueue, connOwner, server, acknowledged>>
      /\ resultOwner' \in {NoThread, World}
  BY DEF Inv, TypeOK
<1>4. TypeOK'
  BY <1>2, <1>3 DEF Inv, TypeOK
<1>5. Locked' /\ InStep' /\ HandOK' /\ LocalQueue' /\ NoDirectQuery'
  BY <1>3 DEF Inv, Locked, InStep, HandOK, LocalQueue, NoDirectQuery
<1> QED  BY <1>1, <1>3, <1>4, <1>5 DEF Inv

\* The steps of the delay thread: what they make of its own variables.
LEMMA RunUnchanged ==
    ASSUME Inv, Run
    PROVE  /\ UNCHANGED <<client, control, resultOwner, ran, acknowledged>>
           /\ NoDirectQuery'
<1>1. UNCHANGED <<client, control, resultOwner, ran, acknowledged>>
  BY DEF Run, EnterLoop, LeaveLoop, TakeQueue, RequestsDone, SkipEmpty, StartOperation,
         ExecutePlain, ExecuteStatement, StatementFails, Commit, ExecuteQuery, Add, results
<1> QED  BY <1>1 DEF Inv, NoDirectQuery, client

\* Between two operations: the loop and its queues.
LEMMA LoopInv ==
    ASSUME Inv, EnterLoop \/ LeaveLoop \/ TakeQueue \/ RequestsDone
    PROVE  /\ Inv'
           /\ sqlQueue' \o m_sqlQueue' = sqlQueue \o m_sqlQueue
           /\ UNCHANGED <<db, inHand, m_resultQueue, ran>>
<1> USE DEF EnterLoop, LeaveLoop, TakeQueue, RequestsDone
<1>1. Run
  BY DEF Run
<1>2. UNCHANGED <<stmt, inHand, connOwner, server, m_resultQueue, issued, m_currentTransaction,
                  call, worldEnded, m_running, crashed, resultOwner, ran, acknowledged>>
  BY DEF results, client, control
<1>3. \/ UNCHANGED <<sqlQueue, m_sqlQueue>>
      \/ sqlQueue = <<>> /\ sqlQueue' = m_sqlQueue /\ m_sqlQueue' = <<>>
  BY DEF Inv, LocalQueue
<1>4. m_sqlQueue \in Seq(Operation) /\ sqlQueue \in Seq(Operation)
      /\ <<>> \o m_sqlQueue = m_sqlQueue /\ m_sqlQueue \o <<>> = m_sqlQueue
  BY DEF Inv, TypeOK
<1>5. sqlQueue' \o m_sqlQueue' = sqlQueue \o m_sqlQueue
  BY <1>3, <1>4
<1>6. sqlQueue = <<>> => stmt = NotStarted
  BY DEF Inv, TypeOK, NotStarted
<1>7. TypeOK'
  <2>1. m_sqlQueue' \in Seq(Operation) /\ sqlQueue' \in Seq(Operation)
    BY <1>3, <1>4
  <2>2. stmt' \in NotStarted..(IF sqlQueue' = <<>> THEN NotStarted ELSE Len(Head(sqlQueue').stmts))
    <3>1. CASE UNCHANGED sqlQueue
      BY <1>2, <3>1 DEF Inv, TypeOK
    <3>2. CASE sqlQueue = <<>> /\ sqlQueue' = m_sqlQueue
      <4>1. CASE m_sqlQueue = <<>>
        BY <1>2, <1>6, <3>2, <4>1 DEF NotStarted
      <4>2. CASE m_sqlQueue # <<>>
        <5>1. Len(Head(m_sqlQueue).stmts) \in Nat
          BY <1>4, <4>2, QueueType, OperationType
        <5> QED  BY <1>2, <1>6, <3>2, <4>2, <5>1 DEF NotStarted
      <4> QED  BY <4>1, <4>2
    <3> QED  BY <1>3, <3>1, <3>2
  <2>3. pc' \in {"loop", "sleep", "requests", "flush", "lastRequests", "deleted"}
    OBVIOUS
  <2> QED  BY <1>2, <2>1, <2>2, <2>3 DEF Inv, TypeOK, server
<1>8. Locked' /\ HandOK' /\ InStep'
  <2>1. Locked'
    BY <1>2 DEF Inv, Locked
  <2>2. stmt # NotStarted => UNCHANGED sqlQueue
    BY <1>3, <1>6
  <2>3. HandOK'
    BY <1>2, <2>2 DEF Inv, HandOK
  <2>4. InStep'
    BY <1>2, <2>2 DEF Inv, InStep, server
  <2> QED  BY <2>1, <2>3, <2>4
<1>9. LocalQueue'
  BY DEF Inv, LocalQueue
<1> QED  BY <1>1, <1>2, <1>5, <1>7, <1>8, <1>9, RunUnchanged DEF Inv, server

LEMMA SkipInv ==
    ASSUME Inv, SkipEmpty
    PROVE  /\ Inv'
           /\ sqlQueue # <<>> /\ Head(sqlQueue) \in Operation /\ Head(sqlQueue).kind # "query"
           /\ sqlQueue' = Tail(sqlQueue) /\ inHand = NoResult
           /\ UNCHANGED <<m_sqlQueue, inHand, db, m_resultQueue, ran>>
<1> USE DEF SkipEmpty, client, control, server, results
<1>1. sqlQueue # <<>> /\ Head(sqlQueue) \in Operation /\ Tail(sqlQueue) \in Seq(Operation)
  BY QueueType DEF Inv, TypeOK
<1>2. Head(sqlQueue).kind = "transaction"
  BY <1>1, OperationType
<1>3. inHand = NoResult
  BY DEF Inv, HandOK
<1>4. stmt' \in NotStarted..(IF sqlQueue' = <<>> THEN NotStarted ELSE Len(Head(sqlQueue').stmts))
  <2>1. CASE Tail(sqlQueue) = <<>>
    BY <2>1 DEF NotStarted
  <2>2. CASE Tail(sqlQueue) # <<>>
    <3>1. Len(Head(Tail(sqlQueue)).stmts) \in Nat
      BY <1>1, <2>2, QueueType, OperationType
    <3> QED  BY <2>2, <3>1 DEF NotStarted
  <2> QED  BY <2>1, <2>2
<1>5. TypeOK'
  BY <1>1, <1>4 DEF Inv, TypeOK
<1>6. Locked' /\ InStep' /\ HandOK' /\ LocalQueue'
  BY <1>1, <1>3 DEF Inv, Locked, InStep, HandOK, LocalQueue
<1>7. NoDirectQuery'
  BY DEF Inv, NoDirectQuery
<1> QED  BY <1>1, <1>2, <1>3, <1>5, <1>6, <1>7 DEF Inv

\* The connection is taken; for a transaction the server has one open and empty.
LEMMA StartInv ==
    ASSUME Inv, StartOperation
    PROVE  Inv'
<1> USE DEF StartOperation, client, control, results
<1>1. Head(sqlQueue) \in Operation /\ Head(sqlQueue).stmts \in Seq(Statement)
      /\ Len(Head(sqlQueue).stmts) \in Nat
  BY QueueType, OperationType DEF Inv, TypeOK
<1>2. inTransaction' \in BOOLEAN /\ stmt' = 0 /\ UNCHANGED uncommitted
  OBVIOUS
<1>3. stmt' \in NotStarted..(IF sqlQueue' = <<>> THEN NotStarted ELSE Len(Head(sqlQueue').stmts))
  BY <1>1 DEF NotStarted
<1>4. TypeOK'
  BY <1>2, <1>3 DEF Inv, TypeOK
<1>5. uncommitted = <<>>
  BY DEF Inv, InStep
<1>6. SubSeq(Head(sqlQueue).stmts, 1, 0) = <<>>
  BY <1>1
<1>7. InStep'
  <2>1. inTransaction' <=> Head(sqlQueue).kind = "transaction"
    OBVIOUS
  <2>2. uncommitted' = IF inTransaction' THEN SubSeq(Head(sqlQueue').stmts, 1, stmt') ELSE <<>>
    BY <1>2, <1>5, <1>6
  <2>3. stmt' # NotStarted
    BY <1>2 DEF NotStarted
  <2> QED  BY <2>1, <2>2, <2>3 DEF InStep
<1>8. Locked' /\ HandOK' /\ LocalQueue' /\ NoDirectQuery'
  BY DEF Inv, Locked, HandOK, LocalQueue, NoDirectQuery, NotStarted
<1> QED  BY <1>4, <1>7, <1>8 DEF Inv

\* After the operation has been destroyed.
LEMMA EndInv ==
    ASSUME Inv, stmt # NotStarted, EndOperation,
           UNCHANGED <<client, control, pc, m_sqlQueue, resultOwner, ran, acknowledged>>,
           inHand' = NoResult, ~inTransaction', inTransaction' \in BOOLEAN, uncommitted' = <<>>,
           db' \in Seq(Statement), ToSet(db) \subseteq ToSet(db'), m_resultQueue' \in Seq(Result)
    PROVE  /\ Inv'
           /\ sqlQueue # <<>> /\ Head(sqlQueue) \in Operation /\ sqlQueue' = Tail(sqlQueue)
<1> USE DEF EndOperation, client, control
<1>1. sqlQueue # <<>> /\ Head(sqlQueue) \in Operation /\ Tail(sqlQueue) \in Seq(Operation)
  BY Current DEF Inv
<1>2. stmt' \in NotStarted..(IF sqlQueue' = <<>> THEN NotStarted ELSE Len(Head(sqlQueue').stmts))
  <2>1. CASE Tail(sqlQueue) = <<>>
    BY <2>1 DEF NotStarted
  <2>2. CASE Tail(sqlQueue) # <<>>
    <3>1. Len(Head(Tail(sqlQueue)).stmts) \in Nat
      BY <1>1, <2>2, QueueType, OperationType
    <3> QED  BY <2>2, <3>1 DEF NotStarted
  <2> QED  BY <2>1, <2>2
<1>3. TypeOK'
  <2>1. TypeOK /\ UNCHANGED <<issued, m_currentTransaction, call, worldEnded, m_running, crashed>>
    BY DEF Inv
  <2>2. sqlQueue' \in Seq(Operation) /\ inHand' \in {NoResult} \cup Result
    BY <1>1
  <2>3. connOwner' \in {NoThread, DelayThread}
    OBVIOUS
  <2>4. uncommitted' \in Seq(Statement)
    OBVIOUS
  <2> HIDE DEF EndOperation, client, control
  <2> QED  BY <1>2, <2>1, <2>2, <2>3, <2>4 DEF TypeOK, control
<1>4. Locked' /\ InStep' /\ HandOK'
  BY ThreadsAssumption DEF Locked, InStep, HandOK
<1>5. LocalQueue' /\ NoDirectQuery'
  BY <1>1 DEF Inv, LocalQueue, NoDirectQuery
<1> QED  BY <1>1, <1>3, <1>4, <1>5 DEF Inv

\* A statement of its own, executed or refused.
LEMMA PlainInv ==
    ASSUME Inv, ExecutePlain
    PROVE  /\ Inv'
           /\ sqlQueue # <<>> /\ Head(sqlQueue) \in Operation /\ Head(sqlQueue).kind # "query"
           /\ sqlQueue' = Tail(sqlQueue) /\ inHand = NoResult
           /\ db' \in {db, db \o Head(sqlQueue).stmts}
           /\ UNCHANGED <<m_sqlQueue, inHand, m_resultQueue, ran>>
<1> USE DEF ExecutePlain, Executing, results
<1>1. sqlQueue # <<>> /\ Head(sqlQueue).stmts \in Seq(Statement) /\ db \in Seq(Statement)
  BY Current DEF Inv, TypeOK
<1>2. inHand = NoResult
  BY DEF Inv, HandOK
<1>3. ~inTransaction /\ uncommitted = <<>>
  BY DEF Inv, InStep
<1>4. db' \in {db, db \o Head(sqlQueue).stmts}
  OBVIOUS
<1>5. db' \in Seq(Statement) /\ ToSet(db) \subseteq ToSet(db')
  <2>1. /\ db \o Head(sqlQueue).stmts \in Seq(Statement)
        /\ ToSet(db) \subseteq ToSet(db \o Head(sqlQueue).stmts)
    BY <1>1, ToSetGrows, ConcatProperties
  <2> QED  BY <1>1, <1>4, <2>1
<1>6. m_resultQueue \in Seq(Result)
  BY DEF Inv, TypeOK
<1>7. /\ UNCHANGED <<client, control, pc, m_sqlQueue, resultOwner, ran, acknowledged>>
      /\ inHand' = NoResult /\ ~inTransaction' /\ inTransaction' \in BOOLEAN
      /\ uncommitted' = <<>> /\ m_resultQueue' = m_resultQueue
  BY <1>2, <1>3 DEF Inv, TypeOK
<1>8. stmt # NotStarted /\ EndOperation /\ Head(sqlQueue).kind # "query"
  OBVIOUS
<1>9. /\ Inv' /\ sqlQueue # <<>> /\ Head(sqlQueue) \in Operation /\ sqlQueue' = Tail(sqlQueue)
  BY <1>5, <1>6, <1>7, <1>8, EndInv
<1> QED  BY <1>2, <1>4, <1>7, <1>8, <1>9

\* One more statement in the transaction.
LEMMA StatementInv ==
    ASSUME Inv, ExecuteStatement
    PROVE  Inv'
<1> USE DEF ExecuteStatement, Executing, client, control, results
<1> DEFINE stmts == Head(sqlQueue).stmts
<1>1. sqlQueue # <<>> /\ stmts \in Seq(Statement) /\ Len(stmts) \in Nat /\ stmt \in 0..Len(stmts)
  BY Current, OperationType DEF Inv, TypeOK
<1>2. inTransaction /\ uncommitted = SubSeq(stmts, 1, stmt)
  BY DEF Inv, InStep
<1>3. stmt' = stmt + 1 /\ stmt + 1 \in 1..Len(stmts) /\ uncommitted' = Append(uncommitted, stmts[stmt + 1])
      /\ UNCHANGED <<sqlQueue, inTransaction>>
  BY <1>1
<1>4. stmts[stmt + 1] \in Statement
  BY <1>1, <1>3
<1> HIDE DEF stmts
<1>5. uncommitted' = SubSeq(stmts, 1, stmt + 1)
  BY <1>1, <1>2, <1>3, <1>4, SubSeqRecursiveSecond
<1>6. uncommitted' \in Seq(Statement)
  BY <1>3, <1>4, AppendProperties DEF Inv, TypeOK
<1>7. stmt' \in NotStarted..(IF sqlQueue' = <<>> THEN NotStarted ELSE Len(Head(sqlQueue').stmts))
  BY <1>1, <1>3 DEF NotStarted, stmts
<1>8. TypeOK'
  BY <1>3, <1>6, <1>7 DEF Inv, TypeOK
<1>9. InStep'
  <2>1. stmt' # NotStarted /\ inTransaction' /\ Head(sqlQueue').kind = "transaction"
    BY <1>1, <1>2, <1>3 DEF NotStarted
  <2>2. uncommitted' = SubSeq(Head(sqlQueue').stmts, 1, stmt')
    BY <1>3, <1>5 DEF stmts
  <2> QED  BY <2>1, <2>2 DEF InStep
<1>10. Locked' /\ HandOK' /\ LocalQueue' /\ NoDirectQuery'
  BY <1>1, <1>3 DEF Inv, Locked, HandOK, LocalQueue, NoDirectQuery, NotStarted
<1> QED  BY <1>8, <1>9, <1>10 DEF Inv

\* A refused statement ends the transaction with nothing written.
LEMMA FailsInv ==
    ASSUME Inv, StatementFails
    PROVE  /\ Inv'
           /\ sqlQueue # <<>> /\ Head(sqlQueue) \in Operation /\ Head(sqlQueue).kind # "query"
           /\ sqlQueue' = Tail(sqlQueue) /\ inHand = NoResult
           /\ UNCHANGED <<m_sqlQueue, inHand, db, m_resultQueue, ran>>
<1> USE DEF StatementFails, Executing, results
<1>1. inHand = NoResult
  BY DEF Inv, HandOK
<1>2. m_resultQueue \in Seq(Result) /\ db \in Seq(Statement)
  BY DEF Inv, TypeOK
<1> QED  BY <1>1, <1>2, EndInv

\* COMMIT: what was written is the whole transaction.
LEMMA CommitInv ==
    ASSUME Inv, Commit
    PROVE  /\ Inv'
           /\ sqlQueue # <<>> /\ Head(sqlQueue) \in Operation /\ Head(sqlQueue).kind # "query"
           /\ sqlQueue' = Tail(sqlQueue) /\ inHand = NoResult
           /\ db' = db \o Head(sqlQueue).stmts
           /\ UNCHANGED <<m_sqlQueue, inHand, m_resultQueue, ran>>
<1> USE DEF Commit, Executing, results
<1>1. sqlQueue # <<>> /\ Head(sqlQueue).stmts \in Seq(Statement) /\ db \in Seq(Statement)
  BY Current DEF Inv, TypeOK
<1>2. inHand = NoResult
  BY DEF Inv, HandOK
<1>3. uncommitted = SubSeq(Head(sqlQueue).stmts, 1, Len(Head(sqlQueue).stmts))
  BY DEF Inv, InStep
<1>4. uncommitted = Head(sqlQueue).stmts
  BY <1>1, <1>3, SubSeqFull
<1>5. db' = db \o Head(sqlQueue).stmts
  BY <1>4
<1>6. db' \in Seq(Statement) /\ ToSet(db) \subseteq ToSet(db')
  BY <1>1, <1>5, ToSetGrows, ConcatProperties
<1>7. m_resultQueue \in Seq(Result)
  BY DEF Inv, TypeOK
<1> QED  BY <1>2, <1>5, <1>6, <1>7, EndInv

\* The query is answered with what is in effect.
LEMMA QueryInv ==
    ASSUME Inv, ExecuteQuery
    PROVE  /\ Inv'
           /\ sqlQueue # <<>> /\ Head(sqlQueue) \in Operation /\ Head(sqlQueue).kind = "query"
           /\ inHand = NoResult /\ inHand' = [query |-> Head(sqlQueue), saw |-> db]
           /\ inHand' # NoResult
           /\ UNCHANGED <<sqlQueue, m_sqlQueue, db, m_resultQueue, ran>>
<1> USE DEF ExecuteQuery, Executing, client, control, server, results
<1>1. sqlQueue # <<>> /\ Head(sqlQueue) \in Operation
  BY Current DEF Inv
<1>2. inHand' \in Result
  BY <1>1 DEF Inv, TypeOK, Result
<1>3. inHand' # NoResult
  BY <1>2, NoResultIsNone
<1>4. TypeOK'
  BY <1>2 DEF Inv, TypeOK
<1>5. HandOK'
  BY DEF HandOK
<1>6. Locked' /\ InStep' /\ LocalQueue' /\ NoDirectQuery'
  BY DEF Inv, Locked, InStep, LocalQueue, NoDirectQuery
<1> QED  BY <1>1, <1>3, <1>4, <1>5, <1>6 DEF Inv

\* The result goes to the result queue, then the connection is released.
LEMMA AddInv ==
    ASSUME Inv, Add
    PROVE  /\ Inv'
           /\ sqlQueue # <<>> /\ sqlQueue' = Tail(sqlQueue)
           /\ inHand \in Result /\ inHand' = NoResult
           /\ m_resultQueue' = Append(m_resultQueue, inHand)
           /\ UNCHANGED <<m_sqlQueue, db, ran>>
<1> USE DEF Add, server
<1>1. stmt # NotStarted /\ Head(sqlQueue).kind = "query" /\ inHand \in Result
  BY DEF Inv, HandOK, TypeOK
<1>2. ~inTransaction /\ uncommitted = <<>> /\ inTransaction \in BOOLEAN
  BY <1>1 DEF Inv, InStep, TypeOK
<1>3. m_resultQueue' \in Seq(Result) /\ db \in Seq(Statement)
  BY <1>1, AppendProperties DEF Inv, TypeOK
<1> QED  BY <1>1, <1>2, <1>3, EndInv

-----------------------------------------------------------------------------
(* Shutdown, and every step. *)

LEMMA ShutdownInv ==
    ASSUME Inv, WorldEnds \/ Stop
    PROVE  Inv' /\ UNCHANGED <<sqlQueue, m_sqlQueue, inHand, db, m_resultQueue, ran>>
<1> USE DEF WorldEnds, Stop, client, thread, server, results
<1>1. UNCHANGED <<client, thread, m_sqlQueue, connOwner, server, results, acknowledged>>
  OBVIOUS
<1>2. TypeOK'
  BY DEF Inv, TypeOK
<1>3. Locked' /\ InStep' /\ HandOK' /\ LocalQueue' /\ NoDirectQuery'
  BY DEF Inv, Locked, InStep, HandOK, LocalQueue, NoDirectQuery
<1> QED  BY <1>1, <1>2, <1>3 DEF Inv

LEMMA StutterInv == ASSUME Inv, UNCHANGED vars PROVE Inv'
<1> USE DEF vars, client, control, thread, server, results
<1>1. TypeOK'
  BY DEF Inv, TypeOK
<1>2. Locked' /\ InStep' /\ HandOK' /\ LocalQueue' /\ NoDirectQuery'
  BY DEF Inv, Locked, InStep, HandOK, LocalQueue, NoDirectQuery
<1> QED  BY <1>1, <1>2 DEF Inv

LEMMA StepInv == ASSUME Inv, [Next]_vars PROVE Inv'
<1>1. ASSUME NEW c \in Clients, Request(c) \/ Delay(c) \/ DelayTooLate(c) \/ ExecuteDirectly(c)
      PROVE  Inv'
  BY <1>1, RequestInv, DelayInv, TooLateInv, DirectInv
<1>2. CASE Update
  BY <1>2, UpdateInv
<1>3. CASE Run
  BY <1>3, LoopInv, SkipInv, StartInv, PlainInv, StatementInv, FailsInv, CommitInv, QueryInv, AddInv
  DEF Run
<1>4. CASE WorldEnds \/ Stop
  BY <1>4, ShutdownInv
<1>5. CASE UNCHANGED vars
  BY <1>5, StutterInv
<1> QED  BY <1>1, <1>2, <1>3, <1>4, <1>5 DEF Next

THEOREM Invariance == Spec => []Inv
<1>1. Init => Inv
  BY InitInv
<1>2. Inv /\ [Next]_vars => Inv'
  BY StepInv
<1> QED  BY <1>1, <1>2, PTL DEF Spec

\* Every variable keeps its type.
THEOREM TypeCorrect == Spec => []TypeOK
<1>1. Inv => TypeOK
  BY DEF Inv
<1> QED  BY <1>1, Invariance, PTL

-----------------------------------------------------------------------------
(* The refinement. *)

Pending == (IF inHand = NoResult THEN sqlQueue ELSE Tail(sqlQueue)) \o m_sqlQueue
Answers == ran \o m_resultQueue \o (IF inHand = NoResult THEN <<>> ELSE <<inHand>>)

LEMMA Types ==
    ASSUME Inv
    PROVE  /\ sqlQueue \in Seq(Operation) /\ m_sqlQueue \in Seq(Operation)
           /\ m_resultQueue \in Seq(Result) /\ ran \in Seq(Result)
           /\ inHand # NoResult => inHand \in Result /\ sqlQueue # <<>>
  BY Current DEF Inv, TypeOK, HandOK

\* Taking the oldest operation out of the local queue takes it out of what is pending.
LEMMA PendingShrinks ==
    ASSUME Inv, sqlQueue # <<>>, inHand = NoResult
    PROVE  /\ Pending # <<>> /\ Head(Pending) = Head(sqlQueue)
           /\ Tail(Pending) = Tail(sqlQueue) \o m_sqlQueue
<1>1. sqlQueue \in Seq(Operation) /\ m_sqlQueue \in Seq(Operation)
  BY Types
<1> QED  BY <1>1 DEF Pending

\* What a step of the delay thread makes of the store.
Stutters == UNCHANGED <<Pending, db, Answers>>

Applies ==
    /\ Pending # <<>> /\ Head(Pending).kind # "query"
    /\ db' \in {db, db \o Head(Pending).stmts}
    /\ Pending' = Tail(Pending)
    /\ UNCHANGED Answers

Answered ==
    /\ Pending # <<>> /\ Head(Pending).kind = "query"
    /\ Answers' = Append(Answers, [query |-> Head(Pending), saw |-> db])
    /\ Pending' = Tail(Pending)
    /\ UNCHANGED db

Submits(op) == Pending' = Append(Pending, op) /\ UNCHANGED <<db, Answers>>

Direct(op) ==
    op.kind # "query" /\ db' = db \o op.stmts /\ UNCHANGED <<Pending, Answers>>

LEMMA StoreStep ==
    ASSUME \/ Stutters \/ Applies \/ Answered
           \/ \E op \in Operation : Submits(op) \/ Direct(op)
    PROVE  [Store!Next]_(Store!vars)
<1>1. CASE Stutters
  BY <1>1 DEF Stutters, Store!vars, Pending, Answers
<1>2. CASE Applies
  BY <1>2 DEF Applies, Store!Next, Store!Apply, Store!Refuse, Pending, Answers
<1>3. CASE Answered
  BY <1>3 DEF Answered, Store!Next, Store!Answer, Pending, Answers
<1>4. ASSUME NEW op \in Operation, Submits(op) PROVE Store!Next
  BY <1>4 DEF Submits, Store!Next, Store!Submit, Pending, Answers
<1>5. ASSUME NEW op \in Operation, Direct(op) PROVE Store!Next
  BY <1>5 DEF Direct, Store!Next, Store!Direct, Pending, Answers
<1> QED  BY <1>1, <1>2, <1>3, <1>4, <1>5

LEMMA SameHandAndResults ==
    UNCHANGED <<inHand, m_resultQueue, ran>> => UNCHANGED Answers
  BY DEF Answers

LEMMA SameHandAndQueues ==
    UNCHANGED <<inHand, sqlQueue, m_sqlQueue>> => UNCHANGED Pending
  BY DEF Pending

LEMMA ClientsRefine ==
    ASSUME Inv, NEW c \in Clients, Request(c) \/ Delay(c) \/ DelayTooLate(c) \/ ExecuteDirectly(c)
    PROVE  Stutters \/ \E op \in Operation : Submits(op) \/ Direct(op)
<1>1. CASE Request(c)
  BY <1>1, SameHandAndResults, SameHandAndQueues DEF Request, Stutters, thread, server, results
<1>2. CASE Delay(c)
  <2>1. call[c].op \in Operation /\ m_sqlQueue' = Append(m_sqlQueue, call[c].op)
    BY <1>2, DelayInv
  <2>2. UNCHANGED <<inHand, sqlQueue, db, Answers>>
    BY <1>2, SameHandAndResults DEF Delay, thread, server, results
  <2>3. Pending' = Append(Pending, call[c].op)
    <3> DEFINE local == IF inHand = NoResult THEN sqlQueue ELSE Tail(sqlQueue)
    <3>1. local \in Seq(Operation) /\ m_sqlQueue \in Seq(Operation)
      BY Types
    <3>2. Pending' = local \o Append(m_sqlQueue, call[c].op)
      BY <2>1, <2>2 DEF Pending
    <3>3. Pending = local \o m_sqlQueue
      BY DEF Pending
    <3> HIDE DEF local
    <3> QED  BY <2>1, <3>1, <3>2, <3>3
  <2> QED  BY <2>1, <2>2, <2>3 DEF Submits
<1>3. CASE ExecuteDirectly(c)
  <2>1. call[c].op \in Operation /\ call[c].op.kind # "query" /\ db' \in {db, db \o call[c].op.stmts}
    BY <1>3, DirectInv
  <2>2. UNCHANGED <<Pending, Answers>>
    BY <1>3, SameHandAndResults, SameHandAndQueues DEF ExecuteDirectly, thread, results
  <2> QED  BY <2>1, <2>2 DEF Stutters, Direct
<1>4. CASE DelayTooLate(c)
  BY <1>4, SameHandAndResults, SameHandAndQueues DEF DelayTooLate, Stutters, thread, server, results
<1> QED  BY <1>1, <1>2, <1>3, <1>4

LEMMA UpdateRefines == ASSUME Inv, Update PROVE Stutters
<1>1. UNCHANGED <<sqlQueue, m_sqlQueue, inHand, db, Pending>>
  BY UpdateInv, SameHandAndQueues
<1>2. UNCHANGED Answers
  <2>1. CASE UNCHANGED <<m_resultQueue, ran>>
    BY <1>1, <2>1, SameHandAndResults
  <2>2. CASE m_resultQueue # <<>> /\ ran' = Append(ran, Head(m_resultQueue))
             /\ m_resultQueue' = Tail(m_resultQueue)
    <3>1. m_resultQueue \in Seq(Result) /\ ran \in Seq(Result)
      BY Types
    <3>2. Append(ran, Head(m_resultQueue)) \o Tail(m_resultQueue) = ran \o m_resultQueue
      BY <2>2, <3>1
    <3> QED  BY <1>1, <2>2, <3>2 DEF Answers
  <2> QED  BY <2>1, <2>2, UpdateInv
<1> QED  BY <1>1, <1>2 DEF Stutters

LEMMA RunRefines == ASSUME Inv, Run PROVE Stutters \/ Applies \/ Answered
<1>1. CASE EnterLoop \/ LeaveLoop \/ TakeQueue \/ RequestsDone
  <2>1. sqlQueue' \o m_sqlQueue' = sqlQueue \o m_sqlQueue
        /\ UNCHANGED <<db, inHand, m_resultQueue, ran>>
    BY <1>1, LoopInv
  <2>2. CASE inHand = NoResult
    BY <2>1, <2>2, SameHandAndResults DEF Pending, Stutters
  <2>3. CASE inHand # NoResult
    <3>1. sqlQueue # <<>>
      BY <2>3, Types
    <3>2. UNCHANGED <<sqlQueue, m_sqlQueue>>
      BY <1>1, <3>1 DEF Inv, LocalQueue, EnterLoop, LeaveLoop, TakeQueue, RequestsDone
    <3> QED  BY <2>1, <3>2, SameHandAndResults, SameHandAndQueues DEF Stutters
  <2> QED  BY <2>2, <2>3
<1>2. CASE StartOperation \/ ExecuteStatement
  <2>1. UNCHANGED <<sqlQueue, m_sqlQueue, inHand, db, m_resultQueue, ran>>
    BY <1>2 DEF StartOperation, ExecuteStatement, results
  <2> QED  BY <2>1, SameHandAndResults, SameHandAndQueues DEF Stutters
<1>3. ASSUME Inv', sqlQueue # <<>>, Head(sqlQueue).kind # "query", sqlQueue' = Tail(sqlQueue),
             inHand = NoResult, UNCHANGED <<m_sqlQueue, inHand, m_resultQueue, ran>>,
             db' \in {db, db \o Head(sqlQueue).stmts}
      PROVE  Applies
  <2>1. /\ Pending # <<>> /\ Head(Pending) = Head(sqlQueue)
        /\ Tail(Pending) = Tail(sqlQueue) \o m_sqlQueue
    BY <1>3, PendingShrinks
  <2>2. Pending' = Tail(sqlQueue) \o m_sqlQueue
    BY <1>3 DEF Pending
  <2> QED  BY <1>3, <2>1, <2>2, SameHandAndResults DEF Applies
<1>4. CASE SkipEmpty \/ ExecutePlain \/ StatementFails \/ Commit
  BY <1>3, <1>4, SkipInv, PlainInv, FailsInv, CommitInv
<1>5. CASE ExecuteQuery
  <2>1. /\ sqlQueue # <<>> /\ Head(sqlQueue).kind = "query"
        /\ inHand = NoResult /\ inHand' = [query |-> Head(sqlQueue), saw |-> db]
        /\ inHand' # NoResult
        /\ UNCHANGED <<sqlQueue, m_sqlQueue, db, m_resultQueue, ran>>
    BY <1>5, QueryInv
  <2>2. Pending # <<>> /\ Head(Pending) = Head(sqlQueue) /\ Pending' = Tail(Pending)
    BY <2>1, PendingShrinks DEF Pending
  <2>3. Answers' = Append(Answers, inHand')
    <3>1. m_resultQueue \in Seq(Result) /\ ran \in Seq(Result)
      BY Types
    <3>2. inHand' \in Result
      BY <1>5, <2>1, QueryInv DEF Inv, TypeOK
    <3> QED  BY <2>1, <3>1, <3>2 DEF Answers
  <2> QED  BY <2>1, <2>2, <2>3 DEF Answered
<1>6. CASE Add
  <2>1. /\ sqlQueue # <<>> /\ sqlQueue' = Tail(sqlQueue)
        /\ inHand \in Result /\ inHand' = NoResult
        /\ m_resultQueue' = Append(m_resultQueue, inHand)
        /\ UNCHANGED <<m_sqlQueue, db, ran>>
    BY <1>6, AddInv
  <2>2. inHand # NoResult
    BY <2>1, NoResultIsNone
  <2>3. UNCHANGED Pending
    BY <2>1, <2>2 DEF Pending
  <2>4. UNCHANGED Answers
    <3>1. m_resultQueue \in Seq(Result) /\ ran \in Seq(Result)
      BY Types
    <3>2. ran \o Append(m_resultQueue, inHand) \o <<>> = ran \o m_resultQueue \o <<inHand>>
      BY <2>1, <3>1
    <3> QED  BY <2>1, <2>2, <3>2 DEF Answers
  <2> QED  BY <2>1, <2>3, <2>4 DEF Stutters
<1> QED  BY <1>1, <1>2, <1>4, <1>5, <1>6 DEF Run

\* Delayed operations take effect in the order of the calls, transactions as a whole or
\* not at all, and each query sees what was delayed before it.
THEOREM ImplementsStore == Spec => StoreSpec
<1>1. Init => Store!Init
  BY DEF Init, Store!Init
<1>2. ASSUME Inv, [Next]_vars PROVE [Store!Next]_(Store!vars)
  <2>1. CASE \E c \in Clients : Request(c) \/ Delay(c) \/ DelayTooLate(c) \/ ExecuteDirectly(c)
    BY <1>2, <2>1, ClientsRefine, StoreStep
  <2>2. CASE Update
    BY <1>2, <2>2, UpdateRefines, StoreStep
  <2>3. CASE Run
    BY <1>2, <2>3, RunRefines, StoreStep
  <2>4. CASE WorldEnds \/ Stop
    <3>1. Stutters
      BY <1>2, <2>4, ShutdownInv, SameHandAndResults, SameHandAndQueues DEF Stutters
    <3> QED  BY <3>1, StoreStep
  <2>5. CASE UNCHANGED vars
    <3>1. Stutters
      BY <2>5, SameHandAndResults, SameHandAndQueues
      DEF Stutters, vars, thread, server, results
    <3> QED  BY <3>1, StoreStep
  <2> QED  BY <1>2, <2>1, <2>2, <2>3, <2>4, <2>5 DEF Next
<1> QED  BY <1>1, <1>2, Invariance, PTL DEF Spec, StoreSpec, Store!Spec

-----------------------------------------------------------------------------
(* What AllExecuted and CallbacksRun rest on besides fairness: no thread   *)
(* waits in a circle, the shutdown leaves nothing behind, and every step   *)
(* of the delay thread brings what is queued nearer to its end.            *)

Threads == Clients \cup {DelayThread}

WantsConnection(t) ==
    \/ t \in Clients /\ call[t].how = "Direct"
    \/ t = DelayThread /\ stmt = NotStarted /\ sqlQueue # <<>> /\ Head(sqlQueue).stmts # <<>>

WantsResultQueue(t) == t = DelayThread /\ inHand # NoResult

\* A thread at a mutex that another thread holds, and the holder.
WaitsFor(t, u) ==
    /\ u # NoThread
    /\ \/ WantsConnection(t) /\ connOwner = u
       \/ WantsResultQueue(t) /\ resultOwner = u

\* The guard of one of the delay thread's actions.
DelayRuns ==
    \/ pc \in {"loop", "sleep", "flush"}
    \/ pc \in {"requests", "lastRequests"} /\ sqlQueue = <<>>
    \/ sqlQueue # <<>> /\ stmt = NotStarted /\ (Head(sqlQueue).stmts = <<>> \/ connOwner = NoThread)
    \/ Executing("plain") \/ Executing("transaction")
    \/ Executing("query") /\ (inHand = NoResult \/ resultOwner = NoThread)

\* Clients wait for the delay thread only, it waits for the world thread only, and
\* whoever is waited for in the end can go on: the delay thread, until it is
\* deleted, or the world thread, which waits for nobody while it runs callbacks.
NoCircularWait ==
    /\ \A t, u \in Threads : WaitsFor(t, u) =>
          \/ /\ t \in Clients /\ u = DelayThread
             /\ DelayRuns \/ WaitsFor(DelayThread, World)
          \/ /\ t = DelayThread /\ u = World
             /\ ~worldEnded /\ \A v \in Threads : ~WaitsFor(World, v)
    /\ pc = "deleted" \/ DelayRuns \/ WaitsFor(DelayThread, World)

\* When the delay thread is gone nothing is half done, and nothing is queued or on its
\* way to it but from threads nobody waited for.
NothingLeftBehind ==
    pc = "deleted" =>
        /\ sqlQueue = <<>> /\ inHand = NoResult
        /\ Detached = {} => m_sqlQueue = <<>>
        /\ \A c \in Clients \ Detached : call[c] = NoCall
        /\ connOwner = NoThread /\ ~inTransaction

\* The destructor takes all that is queued, and only a detached thread comes later.
LostOnlyLate ==
    /\ pc = "flush" /\ pc' # "flush" => sqlQueue' = m_sqlQueue /\ m_sqlQueue' = <<>>
    /\ pc \in {"lastRequests", "deleted"} /\ m_sqlQueue' # m_sqlQueue => \E c \in Detached : Delay(c)

\* The order of the shutdown: the world, then the loop, then the last requests, after
\* which only detached threads are left to delay another.
ShutdownOrder ==
    /\ worldEnded => resultOwner = NoThread /\ \A c \in Clients \ Detached : call[c] = NoCall
    /\ ~m_running => worldEnded
    /\ pc \in {"flush", "lastRequests", "deleted"} => ~m_running
    /\ pc \in {"lastRequests", "deleted"} /\ Detached = {} => m_sqlQueue = <<>>

\* The world thread calls nothing directly while it holds the result queue.
NoDirectInCallbacks == resultOwner = World => call[World].how # "Direct"

WaitInv == ShutdownOrder /\ NoDirectInCallbacks

\* A client's request and its arrival at the queue or the connection.
LEMMA ClientWait ==
    ASSUME Inv, WaitInv, NEW c \in Clients, Request(c) \/ Delay(c) \/ ExecuteDirectly(c)
    PROVE  WaitInv'
<1>1. c \in Detached \/ ~worldEnded
  BY DEF Request, BeginTransaction, Execute, AsyncQuery, DirectExecute, CommitTransaction,
         RollbackTransaction, CommitTransactionDirect, MayGoDirect, Free, Delay,
         ExecuteDirectly, WaitInv, ShutdownOrder, NoCall
<1>2. UNCHANGED <<worldEnded, m_running, pc, resultOwner>>
  BY DEF Request, Delay, ExecuteDirectly, control, thread, results
<1>3. ShutdownOrder'
  <2>1. ASSUME NEW d \in Clients \ Detached, c \in Detached PROVE call'[d] = call[d]
    BY <2>1 DEF Request, BeginTransaction, Execute, AsyncQuery, DirectExecute, CommitTransaction,
           RollbackTransaction, CommitTransactionDirect, Calls, Delay, ExecuteDirectly, Inv, TypeOK
  <2>2. worldEnded => \A d \in Clients \ Detached : call'[d] = NoCall
    BY <1>1, <2>1 DEF WaitInv, ShutdownOrder
  <2>3. m_sqlQueue' # m_sqlQueue => Delay(c)
    BY DEF Request, ExecuteDirectly
  <2>4. pc \in {"lastRequests", "deleted"} /\ Detached = {} => m_sqlQueue' = <<>>
    BY <1>1, <2>3 DEF WaitInv, ShutdownOrder, Inv, TypeOK
  <2> QED  BY <1>2, <2>2, <2>4 DEF WaitInv, ShutdownOrder
<1>4. NoDirectInCallbacks'
  <2>1. call \in [Clients -> {NoCall} \cup [how : {"Delay", "Direct"}, op : Operation]]
    BY DEF Inv, TypeOK
  <2>2. CASE Delay(c) \/ ExecuteDirectly(c)
    <3>1. call' = [call EXCEPT ![c] = NoCall]
      BY <2>2 DEF Delay, ExecuteDirectly
    <3> QED  BY <1>2, <2>1, <3>1, ThreadsAssumption DEF WaitInv, NoDirectInCallbacks, NoCall
  <2>3. CASE DirectExecute(c) \/ CommitTransactionDirect(c)
    <3>1. resultOwner # c
      BY <2>3 DEF DirectExecute, CommitTransactionDirect, MayGoDirect
    <3>2. \E call_c : call' = [call EXCEPT ![c] = call_c]
      BY <2>3 DEF DirectExecute, CommitTransactionDirect, Calls
    <3> QED  BY <1>2, <2>1, <3>1, <3>2, ThreadsAssumption DEF WaitInv, NoDirectInCallbacks
  <2>4. CASE UNCHANGED call
    BY <1>2, <2>4 DEF WaitInv, NoDirectInCallbacks
  <2>5. CASE \E op : Calls(c, "Delay", op)
    BY <1>2, <2>1, <2>5, ThreadsAssumption DEF Calls, WaitInv, NoDirectInCallbacks
  <2>6. Request(c) => \/ DirectExecute(c) \/ CommitTransactionDirect(c)
                      \/ UNCHANGED call \/ \E op : Calls(c, "Delay", op)
    BY DEF Request, BeginTransaction, Execute, AsyncQuery, CommitTransaction, RollbackTransaction
  <2> QED  BY <2>2, <2>3, <2>4, <2>5, <2>6
<1> QED  BY <1>3, <1>4 DEF WaitInv

\* The world thread takes the result queue only between two calls.
LEMMA UpdateWait ==
    ASSUME Inv, WaitInv, Update
    PROVE  WaitInv'
<1>1. /\ UNCHANGED <<call, worldEnded, m_running, crashed, pc, m_sqlQueue>>
      /\ ~worldEnded /\ call[World] = NoCall
  BY ThreadsAssumption DEF Update, StartUpdate, RunCallback, EndUpdate, Free, client, control, thread
<1> QED  BY <1>1 DEF WaitInv, ShutdownOrder, NoDirectInCallbacks, NoCall

\* The delay thread leaves its loop only when it was told to, and then takes the
\* queue once more.
LEMMA RunWait ==
    ASSUME Inv, WaitInv, Run
    PROVE  WaitInv'
<1>1. UNCHANGED <<call, worldEnded, m_running, crashed, resultOwner>>
  BY RunUnchanged DEF client, control
<1>2. /\ pc' \in {"flush", "lastRequests", "deleted"} => ~m_running
      /\ pc' \in {"lastRequests", "deleted"} /\ Detached = {} => m_sqlQueue' = <<>>
  <2>1. CASE EnterLoop \/ LeaveLoop \/ TakeQueue \/ RequestsDone
    BY <2>1 DEF EnterLoop, LeaveLoop, TakeQueue, RequestsDone, WaitInv, ShutdownOrder, Inv, TypeOK
  <2>2. CASE ~(EnterLoop \/ LeaveLoop \/ TakeQueue \/ RequestsDone)
    <3>1. UNCHANGED <<pc, m_sqlQueue>>
      BY <2>2 DEF Run, SkipEmpty, StartOperation, ExecutePlain, ExecuteStatement, StatementFails,
                  Commit, ExecuteQuery, Add
    <3> QED  BY <3>1 DEF WaitInv, ShutdownOrder
  <2> QED  BY <2>1, <2>2
<1> QED  BY <1>1, <1>2 DEF WaitInv, ShutdownOrder, NoDirectInCallbacks

LEMMA StepWait == Inv /\ WaitInv /\ [Next]_vars => WaitInv'
<1> SUFFICES ASSUME Inv, WaitInv, [Next]_vars PROVE WaitInv'
  OBVIOUS
<1>1. CASE WorldEnds \/ Stop \/ UNCHANGED vars
  BY <1>1 DEF WorldEnds, Stop, vars, client, control, thread, results, WaitInv, ShutdownOrder,
              NoDirectInCallbacks, Inv, TypeOK
<1>2. CASE \E c \in Clients : DelayTooLate(c)
  BY <1>2 DEF DelayTooLate, client, thread, results, WaitInv, ShutdownOrder, NoDirectInCallbacks
<1> QED  BY <1>1, <1>2, ClientWait, UpdateWait, RunWait DEF Next

\* Who holds a mutex, and what that leaves the others.
LEMMA WaitsAreShort ==
    ASSUME Inv, WaitInv
    PROVE  NoCircularWait
<1>1. connOwner \in {NoThread, DelayThread} /\ resultOwner \in {NoThread, World}
  BY DEF Inv, TypeOK
<1>2. stmt # NotStarted => Head(sqlQueue).kind \in Kinds
  BY Current, OperationType DEF Inv
<1>3. pc = "deleted" \/ DelayRuns \/ WaitsFor(DelayThread, World)
  <2>1. CASE stmt # NotStarted
    <3>1. CASE Head(sqlQueue).kind = "query" /\ inHand # NoResult /\ resultOwner = World
      BY <3>1, ThreadsAssumption DEF WaitsFor, WantsResultQueue
    <3> QED  BY <1>1, <1>2, <2>1, <3>1 DEF DelayRuns, Executing, Kinds
  <2>2. CASE stmt = NotStarted
    <3>1. connOwner = NoThread
      BY <1>1, <2>2 DEF Inv, Locked
    <3>2. pc \in {"loop", "sleep", "requests", "flush", "lastRequests", "deleted"}
      BY DEF Inv, TypeOK
    <3> QED  BY <2>2, <3>1, <3>2 DEF DelayRuns
  <2> QED  BY <2>1, <2>2
<1>4. connOwner = DelayThread => pc # "deleted"
  BY Current DEF Inv, Locked, LocalQueue
<1>5. ASSUME NEW t \in Threads, NEW u \in Threads, WaitsFor(t, u)
      PROVE  \/ /\ t \in Clients /\ u = DelayThread
                /\ DelayRuns \/ WaitsFor(DelayThread, World)
             \/ /\ t = DelayThread /\ u = World
                /\ ~worldEnded /\ \A v \in Threads : ~WaitsFor(World, v)
  <2>1. CASE WantsConnection(t) /\ connOwner = u
    <3>1. u = DelayThread /\ t \in Clients
      BY <1>1, <1>5, <2>1 DEF WaitsFor, WantsConnection, Inv, Locked
    <3> QED  BY <1>3, <1>4, <2>1, <3>1
  <2>2. CASE WantsResultQueue(t) /\ resultOwner = u
    <3>1. t = DelayThread /\ u = World
      BY <1>1, <1>5, <2>2 DEF WaitsFor, WantsResultQueue
    <3>2. ~worldEnded
      BY <1>1, <2>2, <3>1, ThreadsAssumption DEF WaitInv, ShutdownOrder
    <3>3. \A v \in Threads : ~WaitsFor(World, v)
      BY <2>2, <3>1, ThreadsAssumption
      DEF WaitInv, NoDirectInCallbacks, WaitsFor, WantsConnection, WantsResultQueue
    <3> QED  BY <3>1, <3>2, <3>3
  <2> QED  BY <1>5, <2>1, <2>2 DEF WaitsFor
<1> QED  BY <1>3, <1>5 DEF NoCircularWait

\* By LocalQueue and the order of the shutdown.
LEMMA DeletedLeavesNothing ==
    ASSUME Inv, WaitInv
    PROVE  NothingLeftBehind
<1> SUFFICES ASSUME pc = "deleted"
             PROVE  /\ sqlQueue = <<>> /\ inHand = NoResult
                    /\ Detached = {} => m_sqlQueue = <<>>
                    /\ \A c \in Clients \ Detached : call[c] = NoCall
                    /\ connOwner = NoThread /\ ~inTransaction
  BY DEF NothingLeftBehind
<1>1. sqlQueue = <<>>
  BY DEF Inv, LocalQueue
<1>2. stmt = NotStarted
  BY <1>1, Current DEF Inv
<1>3. inHand = NoResult /\ connOwner = NoThread /\ ~inTransaction
  BY <1>2 DEF Inv, HandOK, Locked, InStep, TypeOK
<1>4. /\ Detached = {} => m_sqlQueue = <<>>
      /\ \A c \in Clients \ Detached : call[c] = NoCall
  BY DEF WaitInv, ShutdownOrder
<1> QED  BY <1>1, <1>3, <1>4

\* No mutex is waited for in a circle, for any number of clients.
THEOREM WaitsNotInCircle == Spec => []NoCircularWait
<1>1. Init => WaitInv
  BY ThreadsAssumption DEF Init, WaitInv, ShutdownOrder, NoDirectInCallbacks
<1>2. Inv /\ WaitInv => NoCircularWait
  BY WaitsAreShort
<1> QED  BY <1>1, <1>2, StepWait, Invariance, PTL DEF Spec

\* The destructor moves the whole queue, and what comes later comes from a detached thread.
LEMMA StepLosesNothing == Inv /\ WaitInv /\ [Next]_vars => LostOnlyLate
<1> SUFFICES ASSUME Inv, WaitInv, [Next]_vars PROVE LostOnlyLate
  OBVIOUS
<1>1. CASE Run
  <2>1. pc = "flush" /\ pc' # "flush" => TakeQueue
    BY <1>1 DEF Run, EnterLoop, LeaveLoop, RequestsDone, SkipEmpty, StartOperation,
         ExecutePlain, ExecuteStatement, StatementFails, Commit, ExecuteQuery, Add
  <2>2. pc \in {"lastRequests", "deleted"} => m_sqlQueue' = m_sqlQueue
    BY <1>1 DEF Run, EnterLoop, LeaveLoop, TakeQueue, RequestsDone, SkipEmpty, StartOperation,
         ExecutePlain, ExecuteStatement, StatementFails, Commit, ExecuteQuery, Add
  <2> QED  BY <2>1, <2>2 DEF TakeQueue, LostOnlyLate
<1>2. CASE ~Run
  <2>1. pc' = pc
    BY <1>2 DEF Next, Request, Delay, DelayTooLate, ExecuteDirectly, Update, StartUpdate,
         RunCallback, EndUpdate, WorldEnds, Stop, vars, thread
  <2>2. m_sqlQueue' # m_sqlQueue => \E c \in Clients : Delay(c)
    BY <1>2 DEF Next, Request, DelayTooLate, ExecuteDirectly, Update, StartUpdate,
         RunCallback, EndUpdate, WorldEnds, Stop, vars
  <2>3. ASSUME NEW c \in Clients, Delay(c), pc \in {"lastRequests", "deleted"}
        PROVE  c \in Detached
    BY <2>3 DEF Delay, WaitInv, ShutdownOrder, NoCall
  <2> QED  BY <2>1, <2>2, <2>3 DEF LostOnlyLate
<1> QED  BY <1>1, <1>2

\* The shutdown loses nothing that the world and map threads handed to the delay thread,
\* however many of them and however late: what is still there when the loop ends is done by
\* the destructor, and only a detached thread's request can come after it.
THEOREM ShutdownLosesNothing == Spec => []NothingLeftBehind /\ [][LostOnlyLate]_vars
<1>1. Init => WaitInv
  BY ThreadsAssumption DEF Init, WaitInv, ShutdownOrder, NoDirectInCallbacks
<1>2. Inv /\ WaitInv => NothingLeftBehind
  BY DeletedLeavesNothing
<1> QED  BY <1>1, <1>2, StepWait, StepLosesNothing, Invariance, PTL DEF Spec

-----------------------------------------------------------------------------
(* How far the operation at the front has come. *)

\* What is handed to the delay thread, in its order.
Line == sqlQueue \o m_sqlQueue

\* The steps of its loop before it takes the queue.
Rounds ==
    IF sqlQueue # <<>> THEN 0 ELSE IF pc = "requests" THEN 3 ELSE IF pc = "loop" THEN 2 ELSE 1

\* The steps the delay thread has left before the first of the line is done.
StepsLeft ==
    Rounds + (Len(Head(Line).stmts) - stmt) + (IF inHand = NoResult THEN 1 ELSE 0)

\* Every step of the delay thread ends the first of the line or brings its end nearer,
\* in the loop, in a round that was under way when it was queued, and in the last
\* requests; nobody else sets it back, and what arrives goes behind it.
LineAdvances ==
    Line # <<>> /\ (sqlQueue # <<>> \/ TakesMore) =>
        /\ StepsLeft \in Nat
        /\ Run => Line' = Tail(Line) \/ (Line' = Line /\ StepsLeft' < StepsLeft)
        /\ ~Run => /\ StepsLeft' = StepsLeft
                   /\ Line' = Line \/ \E op \in Operation : Line' = Append(Line, op)

\* While the world thread runs callbacks no result is added, so that they end.
CallbacksAdvance ==
    resultOwner = World =>
        /\ Update => resultOwner' = NoThread \/ Len(m_resultQueue') = Len(m_resultQueue) - 1
        /\ ~Update => UNCHANGED <<resultOwner, m_resultQueue>>

\* The front of the line is the front of the local queue, or of the shared one.
LEMMA FrontOfLine ==
    ASSUME Inv
    PROVE  /\ sqlQueue # <<>> => /\ Line # <<>> /\ Head(Line) = Head(sqlQueue)
                                 /\ Tail(Line) = Tail(sqlQueue) \o m_sqlQueue
           /\ sqlQueue = <<>> => Line = m_sqlQueue
           /\ Line # <<>> => Head(Line) \in Operation
           /\ Line \in Seq(Operation)
<1>1. sqlQueue \in Seq(Operation) /\ m_sqlQueue \in Seq(Operation)
  BY Types
<1>2. Line \in Seq(Operation)
  BY <1>1 DEF Line
<1> QED  BY <1>1, <1>2 DEF Line

\* The count of steps is a number that falls to the end.
LEMMA StepsCount ==
    ASSUME Inv, Line # <<>>
    PROVE  /\ Len(Head(Line).stmts) - stmt \in Nat
           /\ Len(Head(Line).stmts) \in Nat /\ stmt \in Int
           /\ StepsLeft \in Nat
<1>1. Len(Head(Line).stmts) \in Nat
  BY FrontOfLine, OperationType
<1>2. stmt \in Int /\ stmt <= Len(Head(Line).stmts)
  <2>1. CASE sqlQueue # <<>>
    <3>1. Head(Line) = Head(sqlQueue)
      BY <2>1, FrontOfLine
    <3> QED  BY <1>1, <2>1, <3>1 DEF Inv, TypeOK, NotStarted
  <2>2. CASE sqlQueue = <<>>
    BY <1>1, <2>2 DEF Inv, TypeOK, NotStarted
  <2> QED  BY <2>1, <2>2
<1>3. \A n, k \in Int : k <= n => n - k \in Nat
  OBVIOUS
<1>4. Len(Head(Line).stmts) - stmt \in Nat
  BY <1>1, <1>2, <1>3
<1>5. Rounds \in Nat /\ (IF inHand = NoResult THEN 1 ELSE 0) \in Nat
  BY DEF Rounds
<1>6. \A i, j, k \in Nat : i + j + k \in Nat
  OBVIOUS
<1> QED  BY <1>1, <1>2, <1>4, <1>5, <1>6 DEF StepsLeft

\* The loop of the delay thread.
LEMMA LoopAdvances ==
    ASSUME Inv, Line # <<>>, sqlQueue # <<>> \/ TakesMore,
           EnterLoop \/ LeaveLoop \/ TakeQueue \/ RequestsDone
    PROVE  Line' = Line /\ StepsLeft' < StepsLeft
<1>1. Line' = Line /\ UNCHANGED <<stmt, inHand>>
  BY LoopInv DEF Line, EnterLoop, LeaveLoop, TakeQueue, RequestsDone
<1>2. Rounds' < Rounds /\ Rounds \in Nat /\ Rounds' \in Nat
  <2>1. CASE EnterLoop \/ LeaveLoop
    BY <2>1 DEF EnterLoop, LeaveLoop, Rounds, Inv, LocalQueue
  <2>2. CASE TakeQueue
    <3>1. sqlQueue = <<>> /\ Line = m_sqlQueue
      BY <2>2, FrontOfLine DEF TakeQueue, Inv, LocalQueue
    <3> QED  BY <2>2, <3>1 DEF TakeQueue, Rounds
  <2>3. CASE RequestsDone
    <3>1. sqlQueue = <<>> /\ Line = m_sqlQueue
      BY <2>3, FrontOfLine DEF RequestsDone
    <3>2. pc = "requests"
      BY <2>3, <3>1 DEF RequestsDone, TakesMore
    <3> QED  BY <2>3, <3>1, <3>2 DEF RequestsDone, Rounds
  <2> QED  BY <2>1, <2>2, <2>3
<1>3. Len(Head(Line).stmts) - stmt \in Nat
  BY StepsCount
<1>4. Len(Head(Line').stmts) - stmt' = Len(Head(Line).stmts) - stmt
  BY <1>1
<1>5. (IF inHand' = NoResult THEN 1 ELSE 0) = (IF inHand = NoResult THEN 1 ELSE 0)
  BY <1>1
<1> QED  BY <1>1, <1>2, <1>3, <1>4, <1>5 DEF StepsLeft

\* A step in the middle of an operation.
LEMMA MiddleAdvances ==
    ASSUME Inv, StartOperation \/ ExecuteStatement \/ ExecuteQuery
    PROVE  Line' = Line /\ StepsLeft' < StepsLeft
<1>1. sqlQueue # <<>>
  BY Current DEF Inv, StartOperation, ExecuteStatement, ExecuteQuery, Executing
<1>2. Line # <<>> /\ Head(Line) = Head(sqlQueue)
  BY <1>1, FrontOfLine
<1>3. UNCHANGED <<sqlQueue, m_sqlQueue>> /\ Line' = Line
  BY DEF StartOperation, ExecuteStatement, ExecuteQuery, Line
<1>4. Rounds = 0 /\ Rounds' = 0
  BY <1>1, <1>3 DEF Rounds
<1>5. PICK n \in Nat : n = Len(Head(Line).stmts) /\ n = Len(Head(Line').stmts)
  BY <1>2, <1>3, StepsCount
<1>6. stmt \in Int
  BY <1>2, StepsCount
<1>7. \/ stmt' = stmt + 1 /\ inHand' = inHand
      \/ stmt' = stmt /\ inHand = NoResult /\ inHand' # NoResult
  BY QueryInv DEF StartOperation, ExecuteStatement, ExecuteQuery, NotStarted
<1>8. CASE stmt' = stmt + 1 /\ inHand' = inHand
  <2> DEFINE hand == IF inHand = NoResult THEN 1 ELSE 0
  <2>1. hand \in Nat /\ hand' = hand
    BY <1>8
  <2>2. StepsLeft = 0 + (n - stmt) + hand /\ StepsLeft' = 0 + (n - (stmt + 1)) + hand
    BY <1>4, <1>5, <1>8 DEF StepsLeft
  <2> HIDE DEF hand
  <2> QED  BY <1>3, <1>6, <2>1, <2>2
<1>9. CASE stmt' = stmt /\ inHand = NoResult /\ inHand' # NoResult
  <2>1. StepsLeft = 0 + (n - stmt) + 1 /\ StepsLeft' = 0 + (n - stmt) + 0
    BY <1>4, <1>5, <1>9 DEF StepsLeft
  <2> QED  BY <1>3, <1>6, <2>1
<1> QED  BY <1>7, <1>8, <1>9

\* The last step of an operation.
LEMMA EndAdvances ==
    ASSUME Inv, SkipEmpty \/ ExecutePlain \/ StatementFails \/ Commit \/ Add
    PROVE  Line' = Tail(Line)
<1>1. sqlQueue # <<>>
  BY Current, AddInv DEF Inv, SkipEmpty, ExecutePlain, StatementFails, Commit, Executing
<1>2. sqlQueue' = Tail(sqlQueue) /\ m_sqlQueue' = m_sqlQueue
  BY DEF SkipEmpty, ExecutePlain, StatementFails, Commit, Add, EndOperation
<1> QED  BY <1>1, <1>2, FrontOfLine DEF Line

\* What the others do to the line.
LEMMA OthersAdvance ==
    ASSUME Inv, Line # <<>>,
           \/ \E c \in Clients : Request(c) \/ Delay(c) \/ DelayTooLate(c) \/ ExecuteDirectly(c)
           \/ Update \/ WorldEnds \/ Stop \/ UNCHANGED vars
    PROVE  /\ StepsLeft' = StepsLeft
           /\ Line' = Line \/ \E op \in Operation : Line' = Append(Line, op)
<1>1. UNCHANGED <<pc, sqlQueue, stmt, inHand>>
  BY DEF Request, Delay, DelayTooLate, ExecuteDirectly, Update, StartUpdate, RunCallback, EndUpdate,
         WorldEnds, Stop, vars, thread
<1>2. CASE \E c \in Clients : Delay(c)
  <2>1. PICK c \in Clients : Delay(c)
    BY <1>2
  <2>2. PICK op \in Operation : m_sqlQueue' = Append(m_sqlQueue, op)
    BY <2>1, DelayInv
  <2>3. sqlQueue \in Seq(Operation) /\ m_sqlQueue \in Seq(Operation)
    BY Types
  <2>4. Line' = Append(Line, op)
    BY <1>1, <2>2, <2>3 DEF Line
  <2>5. Line \in Seq(Operation)
    BY <2>3 DEF Line
  <2>6. Head(Line') = Head(Line)
    BY <2>4, <2>5
  <2>7. Rounds' = Rounds
    BY <1>1 DEF Rounds
  <2> QED  BY <1>1, <2>4, <2>6, <2>7 DEF StepsLeft
<1>3. CASE ~\E c \in Clients : Delay(c)
  <2>1. m_sqlQueue' = m_sqlQueue
    BY <1>3 DEF Request, DelayTooLate, ExecuteDirectly, Update, StartUpdate, RunCallback, EndUpdate,
                WorldEnds, Stop, vars
  <2> QED  BY <1>1, <2>1 DEF Line, StepsLeft, Rounds
<1> QED  BY <1>2, <1>3

\* A step of the delay thread or of another one.
LEMMA StepAdvances == Inv /\ [Next]_vars => LineAdvances
<1> SUFFICES ASSUME Inv, [Next]_vars, Line # <<>>, sqlQueue # <<>> \/ TakesMore
             PROVE  /\ StepsLeft \in Nat
                    /\ Run => Line' = Tail(Line) \/ (Line' = Line /\ StepsLeft' < StepsLeft)
                    /\ ~Run => /\ StepsLeft' = StepsLeft
                               /\ Line' = Line \/ \E op \in Operation : Line' = Append(Line, op)
  BY DEF LineAdvances
<1>1. Run => Line' = Tail(Line) \/ (Line' = Line /\ StepsLeft' < StepsLeft)
  BY LoopAdvances, MiddleAdvances, EndAdvances DEF Run
<1> QED  BY <1>1, StepsCount, OthersAdvance DEF Next

\* Nothing that is delayed waits for ever for any number of clients and statements:
\* by WaitsNotInCircle the delay thread can go on or waits for callbacks to end, and
\* each of its steps leaves less to be done of the oldest operation.
THEOREM LineOnlyAdvances == Spec => [][LineAdvances]_vars
  BY StepAdvances, Invariance, PTL DEF Spec

\* A run of callbacks ends, since the delay thread, which waits for it, can not add to
\* the results.
THEOREM CallbacksOnlyAdvance == Spec => [][CallbacksAdvance]_vars
<1>1. ASSUME Inv, [Next]_vars PROVE CallbacksAdvance
  <2> SUFFICES ASSUME resultOwner = World
               PROVE  /\ Update => \/ resultOwner' = NoThread
                                   \/ Len(m_resultQueue') = Len(m_resultQueue) - 1
                      /\ ~Update => UNCHANGED <<resultOwner, m_resultQueue>>
    BY DEF CallbacksAdvance
  <2>1. resultOwner # NoThread
    BY ThreadsAssumption
  <2>2. ASSUME Update
        PROVE  resultOwner' = NoThread \/ Len(m_resultQueue') = Len(m_resultQueue) - 1
    <3>1. CASE RunCallback
      BY <3>1, Types DEF RunCallback
    <3> QED  BY <2>1, <2>2, <3>1 DEF Update, StartUpdate, EndUpdate
  <2>3. ASSUME ~Update PROVE UNCHANGED <<resultOwner, m_resultQueue>>
    <3>1. CASE Run
      BY <2>1, <3>1 DEF Run, EnterLoop, LeaveLoop, TakeQueue, RequestsDone, SkipEmpty,
           StartOperation, ExecutePlain, ExecuteStatement, StatementFails, Commit, ExecuteQuery,
           Add, results
    <3>2. CASE ~Run
      BY <1>1, <2>3, <3>2 DEF Next, Request, Delay, DelayTooLate, ExecuteDirectly,
           WorldEnds, Stop, vars, results
    <3> QED  BY <3>1, <3>2
  <2> QED  BY <2>2, <2>3
<1> QED  BY <1>1, Invariance, PTL DEF Spec
-----------------------------------------------------------------------------
(* Where the statements are.  A direct transaction that the server refused  *)
(* leaves no trace: none of its statements is anywhere else.                *)

Opened(c) == IF m_currentTransaction[c] = NoTransaction THEN {} ELSE ToSet(m_currentTransaction[c])
InCall(c) == IF call[c] = NoCall THEN {} ELSE ToSet(call[c].op.stmts)
Shared == ToSet(db) \cup Statements(ToSet(Line))

\* The statements of a client's open transaction, those of its call, and those queued or
\* in effect.
Places == ({"open", "call"} \X Clients) \cup {<<"shared", NoThread>>}
At == [p \in Places |->
          IF p[1] = "open" THEN Opened(p[2]) ELSE IF p[1] = "call" THEN InCall(p[2]) ELSE Shared]

\* Statements built so far are each in one place at most.
Placed(at, n) ==
    /\ \A p \in Places : at[p] \subseteq 1..n
    /\ \A p, q \in Places : p # q => at[p] \cap at[q] = {}

\* These are nowhere, and none of them will be built.
Gone(stmts, at, n) == stmts \subseteq 1..n /\ \A p \in Places : at[p] \cap stmts = {}

\* A reported operation is in effect, or a transaction of which nothing is left.
Settled ==
    \A op \in acknowledged :
        \/ ToSet(op.stmts) \subseteq ToSet(db)
        \/ op.kind = "transaction" /\ Gone(ToSet(op.stmts), At, issued)

DirectInvariant == Placed(At, issued) /\ Settled

\* Three things happen to statements: they are built, or move from one place to another,
\* or are done with.
Built(p) ==
    /\ p \in Places /\ issued' = issued + 1
    /\ At'[p] \subseteq At[p] \cup {issued'}
    /\ \A q \in Places \ {p} : At'[q] \subseteq At[q]

Moves(p, q) ==
    /\ p \in Places /\ q \in Places /\ p # q /\ issued' = issued
    /\ At'[p] = {} /\ At'[q] \subseteq At[p] \cup At[q]
    /\ \A r \in Places \ {p, q} : At'[r] \subseteq At[r]

Fewer == issued' \in {issued, issued + 1} /\ \A p \in Places : At'[p] \subseteq At[p]

\* No statement comes to be in two places.
LEMMA StaysPlaced ==
    ASSUME issued \in Nat, Placed(At, issued),
           \/ Fewer \/ \E p, q \in Places : Built(p) \/ Moves(p, q)
    PROVE  /\ Placed(At', issued')
           /\ \A stmts : Gone(stmts, At, issued) => Gone(stmts, At', issued')
<1>1. CASE Fewer
  <2>1. 1..issued \subseteq 1..issued'
    BY <1>1 DEF Fewer
  <2> QED  BY <1>1, <2>1 DEF Fewer, Placed, Gone
<1>2. ASSUME NEW p \in Places, Built(p)
      PROVE  /\ Placed(At', issued')
             /\ \A stmts : Gone(stmts, At, issued) => Gone(stmts, At', issued')
  <2>1. 1..issued \subseteq 1..issued' /\ issued' \in 1..issued' /\ issued' \notin 1..issued
    BY <1>2 DEF Built
  <2>2. \A q \in Places : issued' \notin At[q]
    BY <2>1 DEF Placed
  <2> QED  BY <1>2, <2>1, <2>2 DEF Built, Placed, Gone
<1>3. ASSUME NEW p \in Places, NEW q \in Places, Moves(p, q)
      PROVE  /\ Placed(At', issued')
             /\ \A stmts : Gone(stmts, At, issued) => Gone(stmts, At', issued')
  BY <1>3 DEF Moves, Placed, Gone
<1> QED  BY <1>1, <1>2, <1>3

\* The set of places does not depend on the state.
LEMMA AtPlace ==
    /\ \A c \in Clients : /\ <<"open", c>> \in Places /\ At[<<"open", c>>] = Opened(c)
                          /\ <<"call", c>> \in Places /\ At[<<"call", c>>] = InCall(c)
                          /\ At'[<<"open", c>>] = Opened(c)' /\ At'[<<"call", c>>] = InCall(c)'
    /\ <<"shared", NoThread>> \in Places
    /\ At[<<"shared", NoThread>>] = Shared /\ At'[<<"shared", NoThread>>] = Shared'
    /\ \A p \in Places : \/ \E c \in Clients : p = <<"open", c>> \/ p = <<"call", c>>
                         \/ p = <<"shared", NoThread>>
  BY DEF Places, At

LEMMA ToSetAppend ==
    ASSUME NEW S, NEW s \in Seq(S), NEW e \in S
    PROVE  ToSet(Append(s, e)) = ToSet(s) \cup {e}
<1>1. <<e>> \in Seq(S) /\ ToSet(<<e>>) = {e}
  BY DEF ToSet
<1>2. Append(s, e) = s \o <<e>>
  OBVIOUS
<1>3. ToSet(s \o <<e>>) = ToSet(s) \cup ToSet(<<e>>)
  BY <1>1, ToSetGrows, ZenonT(30)
<1>4. ToSet(Append(s, e)) = ToSet(s) \cup ToSet(<<e>>)
  BY <1>2, <1>3
<1> QED  BY <1>1, <1>4

\* The statements of a longer or shorter line.
LEMMA StatementsOfLine ==
    ASSUME NEW line \in Seq(Operation)
    PROVE  /\ \A op \in Operation :
                 Statements(ToSet(Append(line, op))) = Statements(ToSet(line)) \cup ToSet(op.stmts)
           /\ line # <<>> =>
                 /\ Statements(ToSet(Tail(line))) \subseteq Statements(ToSet(line))
                 /\ ToSet(Head(line).stmts) \subseteq Statements(ToSet(line))
<1>1. ASSUME NEW op \in Operation PROVE ToSet(Append(line, op)) = ToSet(line) \cup {op}
  BY ToSetAppend
<1>2. ASSUME line # <<>> PROVE ToSet(Tail(line)) \subseteq ToSet(line) /\ Head(line) \in ToSet(line)
  <2>1. Len(line) \in Nat \ {0} /\ Head(line) = line[1]
    BY <1>2
  <2>2. \A i \in 1..Len(Tail(line)) : Tail(line)[i] = line[i + 1] /\ i + 1 \in 1..Len(line)
    BY <1>2
  <2>3. DOMAIN Tail(line) = 1..Len(Tail(line)) /\ DOMAIN line = 1..Len(line)
    BY <1>2
  <2> QED  BY <2>1, <2>2, <2>3 DEF ToSet
<1>3. ASSUME NEW op \in Operation
      PROVE  Statements(ToSet(Append(line, op))) = Statements(ToSet(line)) \cup ToSet(op.stmts)
  BY <1>1 DEF Statements
<1>4. ASSUME line # <<>>
      PROVE  /\ Statements(ToSet(Tail(line))) \subseteq Statements(ToSet(line))
             /\ ToSet(Head(line).stmts) \subseteq Statements(ToSet(line))
  BY <1>2, <1>4 DEF Statements
<1> QED  BY <1>3, <1>4

\* A direct call is reported with the statements in effect, or refused and gone.
LEMMA DirectSettles ==
    ASSUME Inv, DirectInvariant, NEW c \in Clients, ExecuteDirectly(c)
    PROVE  DirectInvariant'
<1> DEFINE from == <<"call", c>>  shared == <<"shared", NoThread>>  op == call[c].op
<1>1. op \in Operation /\ op.kind # "query" /\ db' \in {db, db \o op.stmts} /\ Inv'
  BY DirectInv
<1>2. op.stmts \in Seq(Statement) /\ db \in Seq(Statement) /\ issued \in Nat
  BY <1>1, OperationType, BoundsAssumption DEF Inv, TypeOK
<1>3. call[c] # NoCall /\ call' = [call EXCEPT ![c] = NoCall]
      /\ UNCHANGED <<issued, m_currentTransaction, sqlQueue, m_sqlQueue>>
  BY DEF ExecuteDirectly, NoCall, thread
<1>4. InCall(c) = ToSet(op.stmts) /\ InCall(c)' = {}
  BY <1>3 DEF InCall, Inv, TypeOK
<1>5. \A d \in Clients : Opened(d)' = Opened(d) /\ (d # c => InCall(d)' = InCall(d))
  BY <1>3 DEF Opened, InCall, Inv, TypeOK
<1>6. Line' = Line
  BY <1>3 DEF Line
<1>7. ToSet(db \o op.stmts) = ToSet(db) \cup ToSet(op.stmts)
  BY <1>2, ToSetGrows
<1>8. Shared' \subseteq Shared \cup ToSet(op.stmts) /\ ToSet(db) \subseteq ToSet(db')
  BY <1>1, <1>6, <1>7 DEF Shared
<1>9. from \in Places /\ shared \in Places /\ from # shared
  BY AtPlace
<1>10. Moves(from, shared)
  <2>1. At'[from] = {} /\ At'[shared] \subseteq At[from] \cup At[shared]
    BY <1>4, <1>8, AtPlace
  <2>2. ASSUME NEW r \in Places \ {from, shared} PROVE At'[r] \subseteq At[r]
    <3>1. PICK d \in Clients : r = <<"open", d>> \/ (r = <<"call", d>> /\ d # c)
      BY AtPlace
    <3>2. CASE r = <<"open", d>>
      BY <1>5, <3>2, AtPlace
    <3>3. CASE r = <<"call", d>> /\ d # c
      BY <1>5, <3>3, AtPlace
    <3> QED  BY <3>1, <3>2, <3>3
  <2> QED  BY <1>3, <1>9, <2>1, <2>2 DEF Moves
<1>11. /\ Placed(At', issued')
       /\ \A stmts : Gone(stmts, At, issued) => Gone(stmts, At', issued')
  BY <1>2, <1>9, <1>10, StaysPlaced DEF DirectInvariant
<1>12. ASSUME db' = db
       PROVE  Gone(ToSet(op.stmts), At', issued')
  <2>1. Shared' = Shared
    BY <1>6, <1>12 DEF Shared
  <2>2. At[from] = ToSet(op.stmts)
    BY <1>4, AtPlace
  <2>3. ASSUME NEW q \in Places PROVE At'[q] \cap ToSet(op.stmts) = {}
    <3>1. CASE q = from
      BY <1>4, <3>1, AtPlace
    <3>2. CASE q # from
      <4>1. At'[q] \subseteq At[q]
        BY <1>10, <2>1, <3>2, AtPlace DEF Moves
      <4>2. At[q] \cap At[from] = {}
        BY <1>9, <3>2 DEF DirectInvariant, Placed
      <4> QED  BY <2>2, <4>1, <4>2
    <3> QED  BY <3>1, <3>2
  <2>4. ToSet(op.stmts) \subseteq 1..issued
    BY <1>9, <2>2 DEF DirectInvariant, Placed
  <2> QED  BY <1>3, <2>3, <2>4 DEF Gone
<1>13. \/ acknowledged' = acknowledged
       \/ acknowledged' = acknowledged \cup {op} /\ db' = db \o op.stmts
       \/ acknowledged' = acknowledged \cup {op} /\ db' = db /\ op.kind = "transaction"
  <2>1. ~inTransaction
    BY ThreadsAssumption DEF Inv, Locked, InStep, ExecuteDirectly
  <2> QED  BY <2>1 DEF ExecuteDirectly
<1>14. ASSUME NEW o \in acknowledged'
       PROVE  \/ ToSet(o.stmts) \subseteq ToSet(db')
              \/ o.kind = "transaction" /\ Gone(ToSet(o.stmts), At', issued')
  <2>1. CASE o \in acknowledged
    BY <1>8, <1>11, <2>1 DEF DirectInvariant, Settled
  <2>2. CASE o = op /\ db' = db \o op.stmts
    BY <1>7, <2>2
  <2>3. CASE o = op /\ db' = db /\ op.kind = "transaction"
    BY <1>12, <2>3
  <2> HIDE DEF op
  <2> QED  BY <1>13, <2>1, <2>2, <2>3
<1>15. Settled'
  BY <1>14 DEF Settled
<1> QED  BY <1>11, <1>15 DEF DirectInvariant

\* Whatever else moves statements moves them so that nothing reported is touched.
LEMMA OthersSettle ==
    ASSUME Inv, DirectInvariant, UNCHANGED acknowledged, ToSet(db) \subseteq ToSet(db'),
           \/ Fewer \/ \E p, q \in Places : Built(p) \/ Moves(p, q)
    PROVE  DirectInvariant'
<1>1. issued \in Nat
  BY BoundsAssumption DEF Inv, TypeOK
<1>2. /\ Placed(At', issued')
      /\ \A stmts : Gone(stmts, At, issued) => Gone(stmts, At', issued')
  BY <1>1, StaysPlaced DEF DirectInvariant
<1> QED  BY <1>2 DEF DirectInvariant, Settled

\* A request builds a statement or hands its transaction over.
LEMMA RequestSettles ==
    ASSUME Inv, DirectInvariant, NEW c \in Clients, Request(c)
    PROVE  DirectInvariant'
<1> DEFINE open == <<"open", c>>  called == <<"call", c>>
<1>1. UNCHANGED <<sqlQueue, m_sqlQueue, db, acknowledged>> /\ Free(c)
  BY DEF Request, thread, server, BeginTransaction, Execute, AsyncQuery, DirectExecute,
         CommitTransaction, RollbackTransaction, CommitTransactionDirect, MayGoDirect
<1>2. Shared' = Shared
  BY <1>1 DEF Shared, Line
<1>3. InCall(c) = {} /\ open \in Places /\ called \in Places /\ open # called
  BY <1>1, AtPlace DEF Free, InCall
<1>4. ASSUME NEW d \in Clients, d # c PROVE Opened(d)' = Opened(d) /\ InCall(d)' = InCall(d)
  BY <1>4 DEF Request, BeginTransaction, Execute, AsyncQuery, DirectExecute, CommitTransaction,
       RollbackTransaction, CommitTransactionDirect, Calls, Opened, InCall, Inv, TypeOK
<1>5. ASSUME NEW q \in Places \ {open, called} PROVE At'[q] = At[q]
  <2>1. CASE q = <<"shared", NoThread>>
    BY <1>2, <2>1, AtPlace
  <2>2. CASE q # <<"shared", NoThread>>
    <3>1. PICK d \in Clients : d # c /\ (q = <<"open", d>> \/ q = <<"call", d>>)
      BY <2>2, AtPlace
    <3>2. CASE q = <<"open", d>>
      BY <1>4, <3>1, <3>2, AtPlace
    <3>3. CASE q = <<"call", d>>
      BY <1>4, <3>1, <3>3, AtPlace
    <3> QED  BY <3>1, <3>2, <3>3
  <2> QED  BY <2>1, <2>2
<1>6. \/ issued' \in {issued, issued + 1} /\ Opened(c)' \subseteq Opened(c) /\ InCall(c)' = {}
      \/ issued' = issued + 1 /\ Opened(c)' = Opened(c) \cup {issued'} /\ InCall(c)' = {}
      \/ issued' = issued + 1 /\ Opened(c)' = Opened(c) /\ InCall(c)' = {issued'}
      \/ issued' = issued /\ Opened(c)' = {} /\ InCall(c)' = Opened(c)
  <2>1. \A s : ToSet(<<s>>) = {s}
    BY DEF ToSet
  <2>2. ToSet(<<>>) = {}
    BY DEF ToSet
  <2>3. ASSUME UNCHANGED call PROVE InCall(c)' = {}
    BY <1>3, <2>3 DEF InCall
  <2>4. ASSUME NEW how \in {"Delay", "Direct"}, NEW op \in Operation, Calls(c, how, op)
        PROVE  InCall(c)' = ToSet(op.stmts)
    BY <2>4 DEF Calls, InCall, Inv, TypeOK, NoCall
  <2>5. ASSUME issued' = issued + 1, issued < MaxRequests
        PROVE  issued' \in Statement
    BY <2>5, BoundsAssumption DEF Inv, TypeOK, Statement
  <2>6. <<>> # NoTransaction
    BY DEF NoTransaction
  <2>7. CASE BeginTransaction(c)
    BY <2>2, <2>3, <2>6, <2>7 DEF BeginTransaction, Opened, Inv, TypeOK
  <2>8. CASE Execute(c)
    <3>1. CASE m_currentTransaction[c] # NoTransaction
      <4> DEFINE t == m_currentTransaction[c]
      <4>1. t \in Seq(Statement) /\ issued' \in Statement
        BY <2>5, <2>8, <3>1, BoundsAssumption DEF Execute, Inv, TypeOK, BoundedSeq, SeqOf
      <4>2. ToSet(Append(t, issued')) = ToSet(t) \cup {issued'}
        <5> HIDE DEF t
        <5> QED  BY <4>1, ToSetAppend
      <4>3. Append(t, issued') # NoTransaction
        <5>1. Append(t, issued')[Len(t) + 1] = issued' /\ Len(Append(t, issued')) = Len(t) + 1
          BY <4>1
        <5>2. issued' # -1
          BY <4>1 DEF Statement
        <5>3. Len(NoTransaction) = 1 /\ NoTransaction[1] = -1 /\ Len(t) \in Nat
          BY <4>1 DEF NoTransaction
        <5> HIDE DEF t
        <5> QED  BY <5>1, <5>2, <5>3
      <4>4. m_currentTransaction'[c] = Append(t, issued') /\ UNCHANGED call /\ issued' = issued + 1
        BY <2>8, <3>1 DEF Execute, Inv, TypeOK
      <4> QED  BY <2>3, <3>1, <4>2, <4>3, <4>4 DEF Opened
    <3>2. CASE m_currentTransaction[c] = NoTransaction
      <4>1. Plain(issued') \in Operation /\ ToSet(Plain(issued').stmts) = {issued'}
        BY <2>1, <2>5, <2>8, NewOperation DEF Execute, Plain, Op
      <4> QED  BY <2>4, <2>8, <3>2, <4>1 DEF Execute, Opened
    <3> QED  BY <3>1, <3>2
  <2>9. CASE AsyncQuery(c)
    <3>1. Query(issued') \in Operation /\ ToSet(Query(issued').stmts) = {issued'}
      BY <2>1, <2>5, <2>9, NewOperation DEF AsyncQuery, Query, Op
    <3> QED  BY <2>4, <2>9, <3>1 DEF AsyncQuery, Opened
  <2>10. CASE DirectExecute(c)
    <3>1. Plain(issued') \in Operation /\ ToSet(Plain(issued').stmts) = {issued'}
      BY <2>1, <2>5, <2>10, NewOperation DEF DirectExecute, Plain, Op
    <3> QED  BY <2>4, <2>10, <3>1 DEF DirectExecute, Opened
  <2>11. CASE CommitTransaction(c) \/ CommitTransactionDirect(c)
    <3> DEFINE t == m_currentTransaction[c]  op == Op("transaction", t)
    <3>1. t # NoTransaction /\ m_currentTransaction' = [m_currentTransaction EXCEPT ![c] = NoTransaction]
          /\ issued' = issued
      BY <2>11 DEF CommitTransaction, CommitTransactionDirect
    <3>2. op \in Operation /\ op.stmts = t
      BY <3>1, NewOperation DEF Inv, TypeOK, Op
    <3>3. \E how \in {"Delay", "Direct"} : Calls(c, how, op)
      BY <2>11 DEF CommitTransaction, CommitTransactionDirect
    <3>4. InCall(c)' = ToSet(t)
      BY <2>4, <3>2, <3>3
    <3>5. Opened(c)' = {} /\ Opened(c) = ToSet(t)
      BY <3>1 DEF Opened, Inv, TypeOK
    <3> QED  BY <3>1, <3>4, <3>5
  <2>12. CASE RollbackTransaction(c)
    BY <2>3, <2>12 DEF RollbackTransaction, Opened, Inv, TypeOK
  <2> QED  BY <2>7, <2>8, <2>9, <2>10, <2>11, <2>12 DEF Request
<1>7. At[open] = Opened(c) /\ At'[open] = Opened(c)' /\ At[called] = {} /\ At'[called] = InCall(c)'
  BY <1>3, AtPlace
<1>8. Fewer \/ Built(open) \/ Built(called) \/ Moves(open, called)
  <2>1. CASE issued' \in {issued, issued + 1} /\ Opened(c)' \subseteq Opened(c) /\ InCall(c)' = {}
    BY <1>5, <1>7, <2>1 DEF Fewer
  <2>2. CASE issued' = issued + 1 /\ Opened(c)' = Opened(c) \cup {issued'} /\ InCall(c)' = {}
    BY <1>3, <1>5, <1>7, <2>2 DEF Built
  <2>3. CASE issued' = issued + 1 /\ Opened(c)' = Opened(c) /\ InCall(c)' = {issued'}
    BY <1>3, <1>5, <1>7, <2>3 DEF Built
  <2>4. CASE issued' = issued /\ Opened(c)' = {} /\ InCall(c)' = Opened(c)
    BY <1>3, <1>5, <1>7, <2>4 DEF Moves
  <2> QED  BY <1>6, <2>1, <2>2, <2>3, <2>4
<1> HIDE DEF open, called
<1> QED  BY <1>1, <1>3, <1>8, OthersSettle

\* The operation's statements move into the line.
LEMMA DelaySettles ==
    ASSUME Inv, DirectInvariant, NEW c \in Clients, Delay(c)
    PROVE  DirectInvariant'
<1> DEFINE from == <<"call", c>>  shared == <<"shared", NoThread>>  op == call[c].op
<1>1. op \in Operation /\ m_sqlQueue' = Append(m_sqlQueue, op)
  BY DelayInv
<1>2. call[c] # NoCall /\ call' = [call EXCEPT ![c] = NoCall]
      /\ UNCHANGED <<issued, m_currentTransaction, sqlQueue, db, acknowledged>>
  BY DEF Delay, NoCall, thread, server
<1>3. InCall(c) = ToSet(op.stmts) /\ InCall(c)' = {}
  BY <1>2 DEF InCall, Inv, TypeOK
<1>4. \A d \in Clients : Opened(d)' = Opened(d) /\ (d # c => InCall(d)' = InCall(d))
  BY <1>2 DEF Opened, InCall, Inv, TypeOK
<1>5. Shared' = Shared \cup ToSet(op.stmts)
  <2>1. sqlQueue \in Seq(Operation) /\ m_sqlQueue \in Seq(Operation)
    BY Types
  <2>2. Line' = sqlQueue \o Append(m_sqlQueue, op) /\ Line = sqlQueue \o m_sqlQueue
    BY <1>1, <1>2 DEF Line
  <2> HIDE DEF op
  <2>3. Line' = Append(Line, op) /\ Line \in Seq(Operation)
    BY <1>1, <2>1, <2>2
  <2>4. Statements(ToSet(Line')) = Statements(ToSet(Line)) \cup ToSet(op.stmts)
    BY <1>1, <2>3, StatementsOfLine
  <2>5. Shared' = ToSet(db') \cup Statements(ToSet(Line'))
    BY DEF Shared, Statements
  <2> QED  BY <1>2, <2>4, <2>5 DEF Shared
<1>6. from \in Places /\ shared \in Places /\ from # shared
  BY AtPlace
<1>7. Moves(from, shared)
  <2>1. At'[from] = {} /\ At'[shared] \subseteq At[from] \cup At[shared]
    BY <1>3, <1>5, AtPlace
  <2>2. ASSUME NEW r \in Places \ {from, shared} PROVE At'[r] \subseteq At[r]
    <3>1. PICK d \in Clients : r = <<"open", d>> \/ (r = <<"call", d>> /\ d # c)
      BY AtPlace
    <3>2. CASE r = <<"open", d>>
      BY <1>4, <3>2, AtPlace
    <3>3. CASE r = <<"call", d>> /\ d # c
      BY <1>4, <3>3, AtPlace
    <3> QED  BY <3>1, <3>2, <3>3
  <2> QED  BY <1>2, <1>6, <2>1, <2>2 DEF Moves
<1> HIDE DEF from, shared
<1> QED  BY <1>2, <1>6, <1>7, OthersSettle

\* The delay thread executes from the line or drops from it, and adds nothing.
LEMMA RunSettles ==
    ASSUME Inv, DirectInvariant, Run
    PROVE  DirectInvariant'
<1>1. UNCHANGED <<issued, m_currentTransaction, call, acknowledged>>
  BY RunUnchanged DEF client
<1>2. \/ Line' = Line /\ db' = db
      \/ /\ Line # <<>> /\ Line' = Tail(Line)
         /\ db' \in {db, db \o Head(Line).stmts}
  <2>1. CASE EnterLoop \/ LeaveLoop \/ TakeQueue \/ RequestsDone
    BY <2>1, LoopInv DEF Line
  <2>2. CASE StartOperation \/ ExecuteStatement \/ ExecuteQuery
    BY <2>2, MiddleAdvances DEF StartOperation, ExecuteStatement, ExecuteQuery, server
  <2>3. CASE SkipEmpty \/ ExecutePlain \/ StatementFails \/ Commit \/ Add
    <3>1. sqlQueue # <<>> /\ db' \in {db, db \o Head(sqlQueue).stmts}
      BY <2>3, SkipInv, PlainInv, FailsInv, CommitInv, AddInv
    <3> QED  BY <2>3, <3>1, EndAdvances, FrontOfLine
  <2> QED  BY <2>1, <2>2, <2>3 DEF Run
<1>3. Line \in Seq(Operation) /\ (Line # <<>> => Head(Line).stmts \in Seq(Statement))
      /\ db \in Seq(Statement)
  BY FrontOfLine, OperationType DEF Inv, TypeOK
<1>4. Line # <<>> => ToSet(db \o Head(Line).stmts) = ToSet(db) \cup ToSet(Head(Line).stmts)
  BY <1>3, ToSetGrows
<1>5. ToSet(db) \subseteq ToSet(db')
  BY <1>2, <1>4
<1>6. Shared' \subseteq Shared
  <2>1. Shared' = ToSet(db') \cup Statements(ToSet(Line'))
    BY DEF Shared, Statements
  <2>2. CASE Line' = Line /\ db' = db
    BY <2>1, <2>2 DEF Shared
  <2>3. CASE /\ Line # <<>> /\ Line' = Tail(Line)
             /\ db' \in {db, db \o Head(Line).stmts}
    BY <1>3, <1>4, <2>1, <2>3, StatementsOfLine DEF Shared
  <2> QED  BY <1>2, <2>2, <2>3
<1>7. \A d \in Clients : Opened(d)' = Opened(d) /\ InCall(d)' = InCall(d)
  BY <1>1 DEF Opened, InCall
<1>8. Fewer
  <2>1. ASSUME NEW p \in Places PROVE At'[p] \subseteq At[p]
    BY <1>6, <1>7, AtPlace
  <2> QED  BY <1>1, <2>1 DEF Fewer
<1> QED  BY <1>1, <1>5, <1>8, OthersSettle

LEMMA StepSettles == Inv /\ DirectInvariant /\ [Next]_vars => DirectInvariant'
<1> SUFFICES ASSUME Inv, DirectInvariant, [Next]_vars PROVE DirectInvariant'
  OBVIOUS
<1>1. CASE (\E c \in Clients : DelayTooLate(c)) \/ Update \/ WorldEnds \/ Stop \/ UNCHANGED vars
  <2>1. UNCHANGED <<issued, m_currentTransaction, call, sqlQueue, m_sqlQueue, db, acknowledged>>
    BY <1>1 DEF DelayTooLate, Update, StartUpdate, RunCallback, EndUpdate, WorldEnds, Stop, vars,
                client, thread, server
  <2>2. At' = At
    BY <2>1 DEF At, Opened, InCall, Shared, Line
  <2> QED  BY <2>1, <2>2 DEF DirectInvariant, Settled
<1> QED  BY <1>1, RequestSettles, DelaySettles, DirectSettles, RunSettles DEF Next

\* What a direct call reported as executed is in effect and stays so, or is a transaction
\* of which nothing is in effect, for any number of clients and statements.
THEOREM DirectIsDurable == Spec => []DirectDurable
<1>1. Init => DirectInvariant
  <2> SUFFICES ASSUME Init PROVE DirectInvariant
    OBVIOUS
  <2>1. ToSet(<<>>) = {} /\ Statements({}) = {} /\ <<>> \o <<>> = <<>>
    BY DEF ToSet, Statements
  <2>2. Shared = {} /\ \A c \in Clients : Opened(c) = {} /\ InCall(c) = {}
    BY <2>1 DEF Init, Shared, Line, Opened, InCall
  <2>3. \A p \in Places : At[p] = {}
    BY <2>2, AtPlace
  <2> QED  BY <2>3 DEF Init, DirectInvariant, Placed, Settled
<1>2. DirectInvariant => DirectDurable
  <2>1. <<"shared", NoThread>> \in Places /\ ToSet(db) \subseteq At[<<"shared", NoThread>>]
    BY AtPlace DEF Shared
  <2> QED  BY <2>1 DEF DirectInvariant, Settled, Gone, DirectDurable
<1> QED  BY <1>1, <1>2, StepSettles, Invariance, PTL DEF Spec
=============================================================================
