------------------------------ MODULE SqlDelay ------------------------------
(***************************************************************************)
(* The asynchronous half of Database (src/src/shared/Database): the        *)
(* per-thread transactions, SqlDelayThread and its queue, the connection   *)
(* for asynchronous requests, and SqlResultQueue, by which the world       *)
(* thread runs the callbacks of the queries.                               *)
(*                                                                         *)
(* Threads: the clients (world, map update, network and command line       *)
(* threads), and the delay thread, which main stops when the world thread  *)
(* has ended.  The network threads are detached and the command line's is  *)
(* joined later: their requests may come during the stop and after it.     *)
(* m_queueMutex is held around a push and around the move of the whole     *)
(* queue, so both are one step.  The connection's mutex and the result     *)
(* queue's are held across calls: they are variables.                      *)
(*                                                                         *)
(* A statement is a number.  The MySQL server executes it, refuses it, and *)
(* keeps what a transaction wrote apart until COMMIT; the connection stays *)
(* up.  Init is the state after AllowAsyncTransactions().                  *)
(***************************************************************************)
EXTENDS Integers, Sequences, SequencesExt

CONSTANTS
    Clients,            \* threads that use the Database
    World,              \* the one that calls ProcessResultQueue
    Detached,           \* those that nobody waits for before the delay thread is stopped
    DelayThread,
    NoThread,
    MaxRequests,        \* bound: statements and transactions begun in one behaviour
    MaxTransaction      \* bound: statements of one transaction

ASSUME ThreadsAssumption ==
    /\ World \in Clients /\ Detached \subseteq Clients \ {World}
    /\ DelayThread \notin Clients /\ NoThread \notin Clients \cup {DelayThread}
ASSUME BoundsAssumption == MaxRequests \in Nat /\ MaxTransaction \in Nat

VARIABLES
    issued,                 \* statements and transactions built so far
    m_currentTransaction,   \* per client: its open SqlTransaction, or NoTransaction
    call,                   \* per client: the call it is in, waiting for a mutex, or NoCall
    worldEnded,             \* so have the map threads: the shutdown sequence goes on
    m_running,
    crashed,                \* m_threadBody was used after it was deleted
    pc,                     \* delay thread: where it is
    m_sqlQueue,
    sqlQueue,               \* ProcessRequests' local queue; its head is being executed
    stmt,                   \* statements of that head executed so far
    inHand,                 \* the result the delay thread is about to Add
    connOwner,              \* who holds the connection's mutex
    inTransaction,          \* the connection is between START TRANSACTION and its end
    uncommitted,            \* what was written there since
    db,                     \* the statements in effect, in order
    resultOwner,            \* who holds SqlResultQueue::m_mutex
    m_resultQueue,          \* results waiting for the world thread
    ran,                    \* history: results handed to their callbacks
    acknowledged            \* history: direct operations reported as executed

client == <<issued, m_currentTransaction, call>>
control == <<worldEnded, m_running, crashed>>
thread == <<pc, sqlQueue, stmt, inHand>>
server == <<inTransaction, uncommitted, db>>
results == <<resultOwner, m_resultQueue, ran>>
vars == <<client, control, thread, m_sqlQueue, connOwner, server, results, acknowledged>>

NoTransaction == <<-1>>
NoCall == [how |-> "none"]
NotStarted == -1
NoResult == [query |-> NoCall, saw |-> <<>>]

Statement == 1..MaxRequests
Op(kind, stmts) == [kind |-> kind, stmts |-> stmts]
Plain(s) == Op("plain", <<s>>)
Query(s) == Op("query", <<s>>)
Operation ==
    {Plain(s) : s \in Statement} \cup {Query(s) : s \in Statement}
        \cup {Op("transaction", ss) : ss \in BoundedSeq(Statement, MaxTransaction)}

Init ==
    /\ issued = 0
    /\ m_currentTransaction = [c \in Clients |-> NoTransaction]
    /\ call = [c \in Clients |-> NoCall]
    /\ worldEnded = FALSE /\ m_running = TRUE /\ crashed = FALSE
    /\ pc = "loop"
    /\ m_sqlQueue = <<>> /\ sqlQueue = <<>>
    /\ stmt = NotStarted
    /\ inHand = NoResult
    /\ connOwner = NoThread
    /\ inTransaction = FALSE /\ uncommitted = <<>> /\ db = <<>>
    /\ resultOwner = NoThread
    /\ m_resultQueue = <<>> /\ ran = <<>>
    /\ acknowledged = {}

-----------------------------------------------------------------------------
(* The clients. *)

\* It runs, outside of any call.
Free(c) == (~worldEnded \/ c \in Detached) /\ ~crashed /\ call[c] = NoCall

Calls(c, how, op) == call' = [call EXCEPT ![c] = [how |-> how, op |-> op]]

\* Nobody opens a transaction inside a transaction: MANGOS_ASSERT.
BeginTransaction(c) ==
    /\ Free(c)
    /\ issued < MaxRequests
    /\ issued' = issued + 1
    /\ m_currentTransaction[c] = NoTransaction
    /\ m_currentTransaction' = [m_currentTransaction EXCEPT ![c] = <<>>]
    /\ UNCHANGED call

\* Database::Execute and ExecuteStmt: into the thread's transaction if there is
\* one, else to the delay thread.
Execute(c) ==
    /\ Free(c)
    /\ issued < MaxRequests
    /\ issued' = issued + 1
    /\ IF m_currentTransaction[c] # NoTransaction
       THEN /\ Len(m_currentTransaction[c]) < MaxTransaction
            /\ m_currentTransaction' = [m_currentTransaction EXCEPT ![c] = Append(@, issued')]
            /\ UNCHANGED call
       ELSE /\ Calls(c, "Delay", Plain(issued'))
            /\ UNCHANGED m_currentTransaction

CommitTransaction(c) ==
    /\ Free(c)
    /\ m_currentTransaction[c] # NoTransaction
    /\ Calls(c, "Delay", Op("transaction", m_currentTransaction[c]))
    /\ m_currentTransaction' = [m_currentTransaction EXCEPT ![c] = NoTransaction]
    /\ UNCHANGED issued

RollbackTransaction(c) ==
    /\ Free(c)
    /\ m_currentTransaction[c] # NoTransaction
    /\ m_currentTransaction' = [m_currentTransaction EXCEPT ![c] = NoTransaction]
    /\ UNCHANGED <<issued, call>>

\* AsyncQuery and DelayQueryHolder, inside a transaction or not.
AsyncQuery(c) ==
    /\ Free(c)
    /\ issued < MaxRequests
    /\ issued' = issued + 1
    /\ Calls(c, "Delay", Query(issued'))
    /\ UNCHANGED m_currentTransaction

\* Mutant: a callback of a query calls DirectExecute too.
MayGoDirect_InCallbacks(c) == Free(c)

\* No callback that ProcessResultQueue runs uses the Direct calls.
MayGoDirect(c) == Free(c) /\ resultOwner # c

\* DirectExecute and DirectExecuteStmt, up to the connection's mutex.
DirectExecute(c) ==
    /\ MayGoDirect(c)
    /\ issued < MaxRequests
    /\ issued' = issued + 1
    /\ Calls(c, "Direct", Plain(issued'))
    /\ UNCHANGED m_currentTransaction

CommitTransactionDirect(c) ==
    /\ MayGoDirect(c)
    /\ m_currentTransaction[c] # NoTransaction
    /\ Calls(c, "Direct", Op("transaction", m_currentTransaction[c]))
    /\ m_currentTransaction' = [m_currentTransaction EXCEPT ![c] = NoTransaction]
    /\ UNCHANGED issued

Request(c) ==
    /\ \/ BeginTransaction(c) \/ Execute(c) \/ AsyncQuery(c) \/ DirectExecute(c)
       \/ CommitTransaction(c) \/ RollbackTransaction(c) \/ CommitTransactionDirect(c)
    /\ UNCHANGED <<control, thread, m_sqlQueue, connOwner, server, results, acknowledged>>

\* Mutant: the operation is put before those already waiting.
Delay_Front(c) ==
    /\ call[c].how = "Delay"
    /\ pc # "deleted"
    /\ m_sqlQueue' = <<call[c].op>> \o m_sqlQueue
    /\ call' = [call EXCEPT ![c] = NoCall]
    /\ UNCHANGED <<issued, m_currentTransaction, control, thread, connOwner, server, results,
                   acknowledged>>

\* SqlDelayThread::Delay.  What comes after the last ProcessRequests has moved
\* the queue is destroyed with it.
Delay(c) ==
    /\ call[c].how = "Delay"
    /\ pc # "deleted"
    /\ m_sqlQueue' = Append(m_sqlQueue, call[c].op)
    /\ call' = [call EXCEPT ![c] = NoCall]
    /\ UNCHANGED <<issued, m_currentTransaction, control, thread, connOwner, server, results,
                   acknowledged>>

\* The delay thread is deleted, and m_threadBody is freed memory or null.
DelayTooLate(c) ==
    /\ call[c].how = "Delay"
    /\ pc = "deleted"
    /\ ~crashed
    /\ crashed' = TRUE
    /\ UNCHANGED <<client, worldEnded, m_running, thread, m_sqlQueue, connOwner, server, results,
                   acknowledged>>

\* A direct call once it holds the connection.  What a single statement writes
\* belongs to the transaction the connection is in, if any; a transaction
\* starts, runs and ends here.  DirectExecute returns what the server said,
\* CommitTransactionDirect true, after a rollback too.
ExecuteDirectly(c) ==
    LET op == call[c].op IN
    /\ call[c].how = "Direct"
    /\ ~crashed
    /\ connOwner = NoThread
    /\ call' = [call EXCEPT ![c] = NoCall]
    /\ \/ /\ IF inTransaction /\ op.kind = "plain"
             THEN uncommitted' = uncommitted \o op.stmts /\ UNCHANGED db
             ELSE db' = db \o op.stmts /\ UNCHANGED uncommitted
          /\ acknowledged' = acknowledged \cup {op}
       \/ /\ acknowledged' = acknowledged \cup {o \in {op} : o.kind = "transaction"}
          /\ UNCHANGED <<uncommitted, db>>
    /\ UNCHANGED <<issued, m_currentTransaction, control, thread, m_sqlQueue, connOwner,
                   inTransaction, results>>

-----------------------------------------------------------------------------
(* The result queue, world thread. *)

\* SqlResultQueue::Update from its lock to its unlock.  Between two callbacks
\* of one call the delay thread cannot add a result.
StartUpdate ==
    /\ Free(World)
    /\ m_resultQueue # <<>>
    /\ resultOwner = NoThread
    /\ resultOwner' = World
    /\ UNCHANGED <<client, control, thread, m_sqlQueue, connOwner, server, m_resultQueue, ran,
                   acknowledged>>

RunCallback ==
    /\ Free(World)
    /\ resultOwner = World
    /\ m_resultQueue # <<>>
    /\ ran' = Append(ran, Head(m_resultQueue))
    /\ m_resultQueue' = Tail(m_resultQueue)
    /\ UNCHANGED <<client, control, thread, m_sqlQueue, connOwner, server, resultOwner,
                   acknowledged>>

EndUpdate ==
    /\ Free(World)
    /\ resultOwner = World
    /\ m_resultQueue = <<>>
    /\ resultOwner' = NoThread
    /\ UNCHANGED <<client, control, thread, m_sqlQueue, connOwner, server, m_resultQueue, ran,
                   acknowledged>>

-----------------------------------------------------------------------------
(* The delay thread. *)

\* while (m_running) { Sleep; ProcessRequests(); ... }
EnterLoop ==
    /\ pc = "loop"
    /\ m_running
    /\ pc' = "sleep"
    /\ UNCHANGED <<client, control, m_sqlQueue, sqlQueue, stmt, inHand, connOwner, server,
                   results, acknowledged>>

\* Mutant: the destructor forgets what was queued while the thread stopped.
LeaveLoop_NoFlush ==
    /\ pc = "loop"
    /\ ~m_running
    /\ pc' = "deleted"
    /\ UNCHANGED <<client, control, m_sqlQueue, sqlQueue, stmt, inHand, connOwner, server,
                   results, acknowledged>>

\* The loop ends, HaltDelayThread's wait() returns and ~SqlDelayThread calls
\* ProcessRequests a last time.
LeaveLoop ==
    /\ pc = "loop"
    /\ ~m_running
    /\ pc' = "flush"
    /\ UNCHANGED <<client, control, m_sqlQueue, sqlQueue, stmt, inHand, connOwner, server,
                   results, acknowledged>>

\* ProcessRequests: the queue moves to the local one.
TakeQueue ==
    /\ pc \in {"sleep", "flush"}
    /\ sqlQueue' = m_sqlQueue
    /\ m_sqlQueue' = <<>>
    /\ pc' = IF pc = "sleep" THEN "requests" ELSE "lastRequests"
    /\ UNCHANGED <<client, control, stmt, inHand, connOwner, server, results, acknowledged>>

RequestsDone ==
    /\ pc \in {"requests", "lastRequests"}
    /\ sqlQueue = <<>>
    /\ pc' = IF pc = "requests" THEN "loop" ELSE "deleted"
    /\ UNCHANGED <<client, control, m_sqlQueue, sqlQueue, stmt, inHand, connOwner, server,
                   results, acknowledged>>

\* SqlTransaction::Execute of a transaction without statements.
SkipEmpty ==
    /\ stmt = NotStarted
    /\ sqlQueue # <<>>
    /\ Head(sqlQueue).stmts = <<>>
    /\ sqlQueue' = Tail(sqlQueue)
    /\ UNCHANGED <<client, control, pc, stmt, inHand, m_sqlQueue, connOwner, server, results,
                   acknowledged>>

\* Mutant: SqlTransaction::Execute leaves the locking to its statements.
StartOperation_UnlockedTransaction ==
    /\ stmt = NotStarted
    /\ sqlQueue # <<>>
    /\ Head(sqlQueue).stmts # <<>>
    /\ connOwner = NoThread
    /\ connOwner' = IF Head(sqlQueue).kind = "transaction" THEN NoThread ELSE DelayThread
    /\ inTransaction' = (Head(sqlQueue).kind = "transaction")
    /\ stmt' = 0
    /\ UNCHANGED <<client, control, pc, sqlQueue, inHand, m_sqlQueue, uncommitted, db, results,
                   acknowledged>>

\* LOCK_DB_CONN, and START TRANSACTION for a transaction.
StartOperation ==
    /\ stmt = NotStarted
    /\ sqlQueue # <<>>
    /\ Head(sqlQueue).stmts # <<>>
    /\ connOwner = NoThread
    /\ connOwner' = DelayThread
    /\ inTransaction' = (Head(sqlQueue).kind = "transaction")
    /\ stmt' = 0
    /\ UNCHANGED <<client, control, pc, sqlQueue, inHand, m_sqlQueue, uncommitted, db, results,
                   acknowledged>>

Executing(kind) == stmt # NotStarted /\ Head(sqlQueue).kind = kind

\* Mutant: the count of statements goes on into the next operation.
EndOperation_KeepsCount ==
    /\ sqlQueue' = Tail(sqlQueue)
    /\ connOwner' = NoThread
    /\ UNCHANGED stmt

\* The operation is destroyed and the connection released.
EndOperation ==
    /\ sqlQueue' = Tail(sqlQueue)
    /\ stmt' = NotStarted
    /\ connOwner' = NoThread

\* SqlPlainRequest and SqlPreparedRequest; an error is logged, no more.
ExecutePlain ==
    /\ Executing("plain")
    /\ \/ db' = db \o Head(sqlQueue).stmts
       \/ UNCHANGED db
    /\ EndOperation
    /\ UNCHANGED <<client, control, pc, inHand, m_sqlQueue, inTransaction, uncommitted, results,
                   acknowledged>>

\* One statement of a transaction that the server accepts.
ExecuteStatement ==
    /\ Executing("transaction")
    /\ stmt < Len(Head(sqlQueue).stmts)
    /\ stmt' = stmt + 1
    /\ uncommitted' = Append(uncommitted, Head(sqlQueue).stmts[stmt'])
    /\ UNCHANGED <<client, control, pc, sqlQueue, inHand, m_sqlQueue, connOwner, inTransaction,
                   db, results, acknowledged>>

\* The first one that it refuses: ROLLBACK.
StatementFails ==
    /\ Executing("transaction")
    /\ stmt < Len(Head(sqlQueue).stmts)
    /\ uncommitted' = <<>>
    /\ inTransaction' = FALSE
    /\ EndOperation
    /\ UNCHANGED <<client, control, pc, inHand, m_sqlQueue, db, results, acknowledged>>

Commit ==
    /\ Executing("transaction")
    /\ stmt = Len(Head(sqlQueue).stmts)
    /\ db' = db \o uncommitted
    /\ uncommitted' = <<>>
    /\ inTransaction' = FALSE
    /\ EndOperation
    /\ UNCHANGED <<client, control, pc, inHand, m_sqlQueue, results, acknowledged>>

\* SqlQuery and SqlQueryHolderEx: the result is in the callback, with the
\* connection locked, when the result queue's mutex is asked for.
ExecuteQuery ==
    /\ Executing("query")
    /\ inHand = NoResult
    /\ inHand' = [query |-> Head(sqlQueue), saw |-> db]
    /\ UNCHANGED <<client, control, pc, sqlQueue, stmt, m_sqlQueue, connOwner, server, results,
                   acknowledged>>

Add ==
    /\ inHand # NoResult
    /\ resultOwner = NoThread
    /\ m_resultQueue' = Append(m_resultQueue, inHand)
    /\ inHand' = NoResult
    /\ EndOperation
    /\ UNCHANGED <<client, control, pc, m_sqlQueue, server, resultOwner, ran, acknowledged>>

-----------------------------------------------------------------------------
(* Shutdown, main thread: the listener goes out of scope, which joins its   *)
(* acceptor only, the world thread is waited for, then HaltDelayThread      *)
(* stops the delay thread.                                                  *)

WorldEnds ==
    /\ ~worldEnded
    /\ resultOwner = NoThread
    /\ \A c \in Clients \ Detached : call[c] = NoCall
    /\ worldEnded' = TRUE
    /\ UNCHANGED <<client, m_running, crashed, thread, m_sqlQueue, connOwner, server, results,
                   acknowledged>>

Stop ==
    /\ worldEnded
    /\ m_running
    /\ m_running' = FALSE
    /\ UNCHANGED <<client, worldEnded, crashed, thread, m_sqlQueue, connOwner, server, results,
                   acknowledged>>

-----------------------------------------------------------------------------
Update == StartUpdate \/ RunCallback \/ EndUpdate

Run ==
    \/ EnterLoop \/ LeaveLoop \/ TakeQueue \/ RequestsDone
    \/ SkipEmpty \/ StartOperation
    \/ ExecutePlain \/ ExecuteStatement \/ StatementFails \/ Commit
    \/ ExecuteQuery \/ Add

Next ==
    \/ \E c \in Clients : Request(c) \/ Delay(c) \/ DelayTooLate(c) \/ ExecuteDirectly(c)
    \/ Update
    \/ Run
    \/ WorldEnds
    \/ Stop

\* The operating system runs every thread that is not waiting for a mutex, the
\* world thread updates the result queue in every tick, and a shutdown that
\* began goes on.  Nobody has to shut the server down.
Fairness ==
    /\ WF_vars(Run)
    /\ WF_vars(Update)
    /\ \A c \in Clients : WF_vars(Delay(c) \/ DelayTooLate(c)) /\ WF_vars(ExecuteDirectly(c))
    /\ WF_vars(Stop)

Spec == Init /\ [][Next]_vars /\ Fairness

-----------------------------------------------------------------------------
(* Properties. *)

Result == [query : Operation, saw : Seq(Statement)]

\* Every variable holds a value of its type.
TypeOK ==
    /\ issued \in 0..MaxRequests
    /\ m_currentTransaction \in [Clients -> {NoTransaction} \cup BoundedSeq(Statement, MaxTransaction)]
    /\ call \in [Clients -> {NoCall} \cup [how : {"Delay", "Direct"}, op : Operation]]
    /\ worldEnded \in BOOLEAN /\ m_running \in BOOLEAN /\ crashed \in BOOLEAN
    /\ pc \in {"loop", "sleep", "requests", "flush", "lastRequests", "deleted"}
    /\ m_sqlQueue \in Seq(Operation) /\ sqlQueue \in Seq(Operation)
    /\ stmt \in NotStarted..(IF sqlQueue = <<>> THEN NotStarted ELSE Len(Head(sqlQueue).stmts))
    /\ inHand \in {NoResult} \cup Result
    /\ connOwner \in {NoThread, DelayThread}
    /\ inTransaction \in BOOLEAN
    /\ uncommitted \in Seq(Statement) /\ db \in Seq(Statement)
    /\ resultOwner \in {NoThread, World}
    /\ m_resultQueue \in Seq(Result) /\ ran \in Seq(Result)
    /\ acknowledged \in SUBSET Operation

\* What a direct call reported as executed is in effect and stays so, whatever
\* becomes of the transactions of the delay thread, which share the connection
\* with it; or it is a transaction the server refused, of which nothing is in
\* effect: its caller cannot tell, but it is never there in part.
DirectDurable ==
    \A op \in acknowledged :
        \/ ToSet(op.stmts) \subseteq ToSet(db)
        \/ op.kind = "transaction" /\ ToSet(op.stmts) \cap ToSet(db) = {}

\* Delayed operations take effect in the order of the calls, transactions as a
\* whole or not at all, and each query sees what was delayed before it.
Store == INSTANCE SerialStore WITH
    Operations <- Operation,
    pending <- (IF inHand = NoResult THEN sqlQueue ELSE Tail(sqlQueue)) \o m_sqlQueue,
    answers <- ran \o m_resultQueue \o (IF inHand = NoResult THEN <<>> ELSE <<inHand>>)
StoreSpec == Store!Spec

Statements(ops) == UNION {ToSet(op.stmts) : op \in ops}
CallsOf(clients) == {call[c].op : c \in {k \in clients : call[k] # NoCall}}
Queued == Statements(ToSet(sqlQueue \o m_sqlQueue))
Called == Statements(CallsOf(Clients))

\* The delay thread will move the queue once more.
TakesMore == pc \notin {"lastRequests", "deleted"}

\* Whatever the world and map threads hand over, and whatever is queued before
\* the delay thread's destructor moves the queue, is executed or refused: no
\* mutex is waited for in a circle, and the shutdown loses none of it.  A
\* detached thread's call returns too, unless it comes after the destructor.
AllExecuted ==
    \A s \in Statement :
        /\ s \in Statements(CallsOf(Clients \ Detached)) \/ (s \in Queued /\ TakesMore)
               ~> s \notin Queued \cup Called
        /\ s \in Called ~> s \notin Called \/ crashed

\* The callback of every query that was executed is run, unless the world
\* thread ends before.
CallbacksRun ==
    (inHand # NoResult \/ m_resultQueue # <<>>)
        ~> (inHand = NoResult /\ m_resultQueue = <<>>) \/ worldEnded
=============================================================================
