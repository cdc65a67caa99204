---------------------------- MODULE SerialStore ----------------------------
(***************************************************************************)
(* What Database promises the code that uses it: delayed operations take   *)
(* effect one at a time, in the order they were delayed, each whole or not *)
(* at all; an asynchronous query sees exactly the operations before it and *)
(* the direct ones done by then; its result reaches the callback once.     *)
(***************************************************************************)
EXTENDS Sequences

CONSTANT Operations     \* records [kind, stmts]

VARIABLES
    pending,    \* delayed and not yet in effect, oldest first
    db,         \* the statements in effect, in order
    answers     \* the results given to callbacks, in order

vars == <<pending, db, answers>>

Init == pending = <<>> /\ db = <<>> /\ answers = <<>>

Submit(op) == pending' = Append(pending, op) /\ UNCHANGED <<db, answers>>

Apply ==
    /\ pending # <<>>
    /\ Head(pending).kind # "query"
    /\ db' = db \o Head(pending).stmts
    /\ pending' = Tail(pending)
    /\ UNCHANGED answers

Refuse ==
    /\ pending # <<>>
    /\ Head(pending).kind # "query"
    /\ pending' = Tail(pending)
    /\ UNCHANGED <<db, answers>>

Answer ==
    /\ pending # <<>>
    /\ Head(pending).kind = "query"
    /\ answers' = Append(answers, [query |-> Head(pending), saw |-> db])
    /\ pending' = Tail(pending)
    /\ UNCHANGED db

Direct(op) ==
    /\ op.kind # "query"
    /\ db' = db \o op.stmts
    /\ UNCHANGED <<pending, answers>>

Next ==
    \/ \E op \in Operations : Submit(op) \/ Direct(op)
    \/ Apply
    \/ Refuse
    \/ Answer

Spec == Init /\ [][Next]_vars
=============================================================================
