----------------------------- MODULE ByteStream -----------------------------
(***************************************************************************)
(* What a socket's write half promises to the code that calls Write: the   *)
(* bytes of all calls form one stream, in the order of the calls, and the  *)
(* peer receives a prefix of that stream; closing ends delivery.  The      *)
(* promise holds while the stream is intact; afterwards the peer still     *)
(* gets no more bytes than were written, whatever they are.                *)
(***************************************************************************)
EXTENDS Naturals, Sequences

CONSTANT Packets    \* the byte sequences a call of Write may pass

VARIABLES
    accepted,       \* the bytes of every Write so far, in call order
    delivered,      \* the bytes handed to the peer
    open,           \* the socket is open
    intact          \* the bytes still to be delivered are those written

vars == <<accepted, delivered, open, intact>>

Init ==
    /\ accepted = <<>>
    /\ delivered = <<>>
    /\ open = TRUE
    /\ intact = TRUE

\* A caller's packet joins the stream as a unit: no other packet splits it.
Put(p) ==
    /\ accepted' = accepted \o p
    /\ UNCHANGED <<delivered, open, intact>>

\* The peer has received one or more further bytes of the stream.
Deliver(n) ==
    /\ open
    /\ n > Len(delivered)
    /\ Len(delivered') = n
    /\ SubSeq(delivered', 1, Len(delivered)) = delivered
    /\ intact => delivered' = SubSeq(accepted, 1, n)
    /\ UNCHANGED <<accepted, open, intact>>

\* Bytes not yet delivered are spoilt: more than one, or there was nothing to
\* move them over.
Spoil ==
    /\ intact
    /\ intact' = FALSE
    /\ Len(accepted) > Len(delivered) + 1
    /\ UNCHANGED <<accepted, delivered, open>>

Shut ==
    /\ open
    /\ open' = FALSE
    /\ UNCHANGED <<accepted, delivered, intact>>

Next ==
    \/ \E p \in Packets : Put(p)
    \/ \E n \in 1..Len(accepted) : Deliver(n)
    \/ Spoil
    \/ Shut

Spec == Init /\ [][Next]_vars
=============================================================================
