---------------------------- MODULE SocketWrite ----------------------------
(***************************************************************************)
(* The write half of MaNGOS::Socket (src/src/shared/Network/Socket.cpp)    *)
(* with WorldSocket::SendPacket above it and Boost.Asio below it.          *)
(*                                                                         *)
(* Threads: the senders (world and map update threads, and the socket's    *)
(* network thread when a read handler answers a ping) call SendPacket; the *)
(* network thread alone runs the asio handlers, one at a time; any thread  *)
(* may Close.  m_mutex makes Write and the locked parts of the two         *)
(* handlers atomic; IsClosed() is read before the lock is taken, so each   *)
(* handler is two steps here.                                              *)
(*                                                                         *)
(* A byte is <<seq, i>>: byte i of the packet whose header was encrypted   *)
(* at keystream position seq.                                              *)
(***************************************************************************)
EXTENDS Integers, Sequences

CONSTANTS
    Senders,        \* threads that call SendPacket
    NetThread,      \* the one that also runs this socket's handlers
    MaxPackets,     \* bound: packets sent in one behaviour
    MaxBytes        \* bound: bytes of one packet

ASSUME SendersAssumption == NetThread \in Senders
ASSUME BoundsAssumption == MaxPackets \in Nat /\ MaxBytes \in Nat \ {0}

VARIABLES
    open,                   \* m_socket.is_open()
    m_writeState,           \* WriteState
    m_outBuffer,            \* primary buffer, up to m_writePosition
    m_secondaryOutBuffer,   \* secondary buffer, up to m_writePosition
    flushTimer,             \* m_outBufferFlushTimer: "off", "waiting" or "due"
    inFlight,               \* bytes given to the pending async_write_some, 0 if none
    completion,             \* its outcome: NotYet, Failed, or the bytes written
    handler,                \* network thread: between IsClosed() and the lock of ...
    senderPc,               \* position of each sender in SendPacket
    header,                 \* keystream position of the header it encrypted
    cipher,                 \* next keystream position of m_crypt
    accepted,               \* history: bytes passed to Write, in lock order
    wire,                   \* history: bytes the kernel took for the peer
    garbled                 \* history: a memcpy onto its own source spoilt bytes

writing == <<m_writeState, m_outBuffer, m_secondaryOutBuffer>>
async   == <<flushTimer, inFlight, completion, handler>>
sending == <<senderPc, header, cipher>>
vars == <<open, writing, async, sending, accepted, wire, garbled>>

NotYet == -1
Failed == 0

Packet(seq, size) == [i \in 1..size |-> <<seq, i>>]
Packets == {Packet(seq, size) : seq \in 0..(MaxPackets - 1), size \in 1..MaxBytes}
Byte == Nat \X Nat

Init ==
    /\ open = TRUE
    /\ m_writeState = "Idle"
    /\ m_outBuffer = <<>>
    /\ m_secondaryOutBuffer = <<>>
    /\ flushTimer = "off"
    /\ inFlight = 0
    /\ completion = NotYet
    /\ handler = "none"
    /\ senderPc = [s \in Senders |-> "idle"]
    /\ header = [s \in Senders |-> 0]
    /\ cipher = 0
    /\ accepted = <<>>
    /\ wire = <<>>
    /\ garbled = FALSE

-----------------------------------------------------------------------------
(* The senders. *)

\* SendPacket up to the call of Write: nothing on a closed socket, else the
\* header is encrypted outside every lock.  The network thread sends from
\* within a read handler, hence not while it runs another handler.
Encrypt(s) ==
    /\ open
    /\ senderPc[s] = "idle"
    /\ s = NetThread => handler = "none"
    /\ cipher < MaxPackets
    /\ header' = [header EXCEPT ![s] = cipher]
    /\ cipher' = cipher + 1
    /\ senderPc' = [senderPc EXCEPT ![s] = "encrypted"]
    /\ UNCHANGED <<open, writing, async, accepted, wire, garbled>>

\* Mutant: the write state says Buffering and no timer was started.
StartWriteFlushTimer_NoTimer ==
    m_writeState' = (IF open THEN "Buffering" ELSE "Idle") /\ UNCHANGED flushTimer

\* StartWriteFlushTimer as Write calls it, m_mutex held and nothing buffering.
StartWriteFlushTimer ==
    IF open
    THEN m_writeState' = "Buffering" /\ flushTimer' = "waiting"
    ELSE m_writeState' = "Idle" /\ UNCHANGED flushTimer

\* Mutant: the primary buffer grows while asio reads from it.
Write_AlwaysPrimary(s, size) ==
    LET pct == Packet(header[s], size) IN
    /\ senderPc[s] = "encrypted"
    /\ m_outBuffer' = m_outBuffer \o pct
    /\ IF m_writeState = "Idle"
       THEN StartWriteFlushTimer
       ELSE UNCHANGED <<m_writeState, flushTimer>>
    /\ accepted' = accepted \o pct
    /\ senderPc' = [senderPc EXCEPT ![s] = "written"]
    /\ UNCHANGED <<open, m_secondaryOutBuffer, inFlight, completion, handler, header,
                   cipher, wire, garbled>>

Write(s, size) ==
    LET pct == Packet(header[s], size) IN
    /\ senderPc[s] = "encrypted"
    /\ IF m_writeState = "Sending"
       THEN /\ m_secondaryOutBuffer' = m_secondaryOutBuffer \o pct
            /\ UNCHANGED m_outBuffer
       ELSE /\ m_outBuffer' = m_outBuffer \o pct
            /\ UNCHANGED m_secondaryOutBuffer
    /\ IF m_writeState = "Idle"
       THEN StartWriteFlushTimer
       ELSE UNCHANGED <<m_writeState, flushTimer>>
    /\ accepted' = accepted \o pct
    /\ senderPc' = [senderPc EXCEPT ![s] = "written"]
    /\ UNCHANGED <<open, inFlight, completion, handler, header, cipher, wire,
                   garbled>>

\* The rest of SendPacket: an immediate packet cancels the timer, which
\* queues FlushOut at once when the timer is still waiting.
Return(s, immediate) ==
    /\ senderPc[s] = "written"
    /\ flushTimer' = IF immediate /\ flushTimer = "waiting" THEN "due" ELSE flushTimer
    /\ senderPc' = [senderPc EXCEPT ![s] = "idle"]
    /\ UNCHANGED <<open, writing, inFlight, completion, handler, header, cipher, accepted, wire, garbled>>

\* Close, from any thread; a second call returns early.  The flush timer
\* goes on, the pending write is aborted (WriteFails).
Close ==
    /\ open
    /\ open' = FALSE
    /\ UNCHANGED <<writing, async, sending, accepted, wire, garbled>>

-----------------------------------------------------------------------------
(* Boost.Asio and the kernel. *)

TimerExpires ==
    /\ flushTimer = "waiting"
    /\ flushTimer' = "due"
    /\ UNCHANGED <<open, writing, inFlight, completion, handler, sending, accepted, wire, garbled>>

\* async_write_some takes a non-empty part of what it was given, from the
\* memory of the primary buffer.
WriteSome(n) ==
    /\ open
    /\ inFlight > 0 /\ completion = NotYet
    /\ n <= inFlight
    /\ completion' = n
    /\ wire' = wire \o SubSeq(m_outBuffer, 1, n)
    /\ UNCHANGED <<open, writing, flushTimer, inFlight, handler, sending, accepted,
                   garbled>>

\* The peer is gone, or Close aborted the operation.
WriteFails ==
    /\ inFlight > 0 /\ completion = NotYet
    /\ completion' = Failed
    /\ UNCHANGED <<open, writing, flushTimer, inFlight, handler, sending, accepted, wire, garbled>>

-----------------------------------------------------------------------------
(* The handlers, on the network thread. *)

NetThreadFree == handler = "none" /\ senderPc[NetThread] = "idle"

\* FlushOut up to the lock.
FlushOut ==
    /\ NetThreadFree
    /\ flushTimer = "due"
    /\ flushTimer' = "off"
    /\ IF open
       THEN handler' = "FlushOut" /\ UNCHANGED m_writeState
       ELSE m_writeState' = "Idle" /\ UNCHANGED handler
    /\ UNCHANGED <<open, m_outBuffer, m_secondaryOutBuffer, inFlight, completion,
                   sending, accepted, wire, garbled>>

\* FlushOut from the lock on.
FlushOutLocked ==
    /\ handler = "FlushOut"
    /\ handler' = "none"
    /\ m_writeState' = "Sending"
    /\ inFlight' = Len(m_outBuffer)
    /\ completion' = NotYet
    /\ UNCHANGED <<open, m_outBuffer, m_secondaryOutBuffer, flushTimer, sending, accepted, wire, garbled>>

\* Mutant: the outcome of a finished write is not consumed.
OnWriteComplete_KeepsOutcome ==
    /\ NetThreadFree
    /\ inFlight > 0 /\ completion # NotYet
    /\ IF completion # Failed /\ open
       THEN handler' = "OnWriteComplete" /\ UNCHANGED <<open, m_writeState, inFlight>>
       ELSE /\ open' = FALSE
            /\ m_writeState' = IF completion = Failed THEN m_writeState ELSE "Idle"
            /\ inFlight' = 0
            /\ UNCHANGED handler
    /\ UNCHANGED <<completion, m_outBuffer, m_secondaryOutBuffer, flushTimer, sending,
                   accepted, wire, garbled>>

\* OnWriteComplete up to the lock: an error closes the socket (OnError) and
\* leaves the write state as it is; a closed socket sets it to Idle.
OnWriteComplete ==
    /\ NetThreadFree
    /\ inFlight > 0 /\ completion # NotYet
    /\ IF completion # Failed /\ open
       THEN /\ handler' = "OnWriteComplete"
            /\ UNCHANGED <<open, m_writeState, inFlight, completion>>
       ELSE /\ open' = FALSE
            /\ m_writeState' = IF completion = Failed THEN m_writeState ELSE "Idle"
            /\ inFlight' = 0
            /\ completion' = NotYet
            /\ UNCHANGED handler
    /\ UNCHANGED <<m_outBuffer, m_secondaryOutBuffer, flushTimer, sending, accepted, wire, garbled>>

\* What the kernel did not take of the primary buffer.
Rest == SubSeq(m_outBuffer, completion + 1, Len(m_outBuffer))

\* The rest, copied byte by byte from its end over a source it overlaps: the
\* last bytes of the buffer, again and again.
FromTheEnd ==
    [j \in 1..Len(Rest) |-> m_outBuffer[Len(Rest) + 1 + ((j - Len(Rest) - 1) % completion)]]

\* What the memcpy that moves the rest to the start may leave there.  Longer
\* than the part written, the rest overlaps the place it goes to, which memcpy
\* leaves undefined (OnRead uses memmove): a copy from the front moves it
\* right, a copy from the end does not.
Moved == {Rest} \cup (IF Len(Rest) > completion THEN {FromTheEnd} ELSE {})

\* Mutant: the secondary buffer goes before the unsent rest of the primary.
Remaining_Swapped(rest) == m_secondaryOutBuffer \o rest

\* What is left of the primary buffer, with the secondary behind it.
Remaining(rest) == rest \o m_secondaryOutBuffer

\* Mutant: Idle is set although the rest is being written.
OnWriteCompleteLocked_AlwaysIdle ==
    /\ handler = "OnWriteComplete"
    /\ handler' = "none"
    /\ \E rest \in Moved :
        /\ m_outBuffer' = Remaining(rest)
        /\ m_secondaryOutBuffer' = <<>>
        /\ m_writeState' = "Idle"
        /\ inFlight' = Len(Remaining(rest))
        /\ completion' = NotYet
        /\ garbled' = (garbled \/ rest # Rest)
        /\ UNCHANGED <<open, flushTimer, sending, accepted, wire>>

\* Mutant: a partial write is not followed by another.
OnWriteCompleteLocked_Stops ==
    /\ handler = "OnWriteComplete"
    /\ handler' = "none"
    /\ \E rest \in Moved :
        /\ m_outBuffer' = Remaining(rest)
        /\ m_secondaryOutBuffer' = <<>>
        /\ m_writeState' = "Idle"
        /\ inFlight' = 0
        /\ completion' = NotYet
        /\ garbled' = (garbled \/ rest # Rest)
        /\ UNCHANGED <<open, flushTimer, sending, accepted, wire>>

\* OnWriteComplete from the lock on: the rest goes to the start of the buffer,
\* and the next write starts at once if anything remains.
OnWriteCompleteLocked ==
    /\ handler = "OnWriteComplete"
    /\ handler' = "none"
    /\ \E rest \in Moved :
        /\ m_outBuffer' = Remaining(rest)
        /\ m_secondaryOutBuffer' = <<>>
        /\ m_writeState' = IF Remaining(rest) = <<>> THEN "Idle" ELSE m_writeState
        /\ inFlight' = Len(Remaining(rest))
        /\ completion' = NotYet
        /\ garbled' = (garbled \/ rest # Rest)
        /\ UNCHANGED <<open, flushTimer, sending, accepted, wire>>

-----------------------------------------------------------------------------
Next ==
    \/ \E s \in Senders :
        \/ Encrypt(s)
        \/ \E size \in 1..MaxBytes : Write(s, size)
        \/ \E immediate \in BOOLEAN : Return(s, immediate)
    \/ Close
    \/ TimerExpires
    \/ \E n \in 1..inFlight : WriteSome(n)
    \/ WriteFails
    \/ FlushOut
    \/ FlushOutLocked
    \/ OnWriteComplete
    \/ OnWriteCompleteLocked

\* io_service runs its handlers in the order they were queued, so none waits
\* for ever behind the network thread's own sends; a thread inside SendPacket
\* goes on; a timer expires; the kernel ends a write one way or the other.
Fairness ==
    /\ SF_vars(FlushOut)
    /\ SF_vars(OnWriteComplete)
    /\ WF_vars(FlushOutLocked)
    /\ WF_vars(OnWriteCompleteLocked)
    /\ WF_vars(TimerExpires)
    /\ WF_vars(WriteFails \/ \E n \in 1..inFlight : WriteSome(n))
    /\ WF_vars(\E size \in 1..MaxBytes : Write(NetThread, size))
    /\ WF_vars(\E immediate \in BOOLEAN : Return(NetThread, immediate))

Spec == Init /\ [][Next]_vars /\ Fairness

-----------------------------------------------------------------------------
(* Properties. *)

\* Every variable keeps its type: the three write states, buffers of bytes, and
\* a completion that never reports more bytes than were handed to asio.
TypeOK ==
    /\ open \in BOOLEAN
    /\ m_writeState \in {"Idle", "Buffering", "Sending"}
    /\ m_outBuffer \in Seq(Byte)
    /\ m_secondaryOutBuffer \in Seq(Byte)
    /\ flushTimer \in {"off", "waiting", "due"}
    /\ inFlight \in Nat
    /\ completion \in NotYet..inFlight
    /\ handler \in {"none", "FlushOut", "OnWriteComplete"}
    /\ senderPc \in [Senders -> {"idle", "encrypted", "written"}]
    /\ header \in [Senders -> Nat]
    /\ cipher \in Nat
    /\ accepted \in Seq(Byte)
    /\ wire \in Seq(Byte)
    /\ garbled \in BOOLEAN

\* The assertions of FlushOut and OnWriteComplete hold when the lock is taken,
\* whatever ran since the handler read IsClosed(), and FlushOut finds data.
HandlerAsserts ==
    /\ handler = "FlushOut" => m_writeState = "Buffering" /\ m_outBuffer # <<>>
    /\ handler = "OnWriteComplete" =>
        /\ m_writeState = "Sending"
        /\ completion \in 1..Len(m_outBuffer)

\* The timer, FlushOut past its check, and the pending write, each of which
\* carries the buffered data on.
Continuations ==
    {c \in {"timer", "flush", "write"} :
        \/ c = "timer" /\ flushTimer # "off"
        \/ c = "flush" /\ handler = "FlushOut"
        \/ c = "write" /\ inFlight > 0}

\* No wakeup is lost and none is doubled: on an open socket the write state
\* says exactly which single continuation exists, and with none both buffers
\* are empty.  Two writes at once would interleave packets; none with data
\* buffered would hold it until some later packet.
OneContinuation ==
    open => CASE m_writeState = "Idle" ->
                    Continuations = {} /\ m_outBuffer = <<>> /\ m_secondaryOutBuffer = <<>>
              [] m_writeState = "Buffering" ->
                    Continuations \in {{"timer"}, {"flush"}} /\ m_secondaryOutBuffer = <<>>
              [] m_writeState = "Sending" -> Continuations = {"write"}

\* The memory asio reads from is not touched while a write is pending: the
\* primary buffer holds what was handed over, on an open socket or a closed one.
PrimaryFrozen == inFlight > 0 => inFlight = Len(m_outBuffer)

\* Write and the handlers implement one stream of bytes (see ByteStream):
\* what the peer gets is a prefix of what the senders wrote, in the order they
\* took the lock, through partial writes and the swap of the two buffers.  The
\* promise ends where the memcpy spoils a rest it overlaps; what went out
\* before is right, and no byte more than was written ever goes out.
Stream == INSTANCE ByteStream WITH delivered <- wire, intact <- ~garbled
StreamSpec == Stream!Spec

\* Every byte written to a socket that stays open is put on the wire, or a
\* spoilt one in its place.
Drains ==
    \A k \in 1..(MaxPackets * MaxBytes) :
        Len(accepted) >= k ~> (~open \/ Len(wire) >= k)

\* What HandleAuthSession's note says of the whole class: "ATM the socket is
\* singlethread".  If that were so, packets would reach the wire in the order
\* their headers were encrypted, which is the order the client decrypts in,
\* as long as no memcpy spoils them.
WireInCipherOrder ==
    ~garbled => \A i, j \in 1..Len(wire) : i < j => wire[i][1] <= wire[j][1]
=============================================================================
