----------------------------- MODULE SocketRead -----------------------------
(***************************************************************************)
(* The read half of MaNGOS::Socket (src/src/shared/Network/Socket.cpp)     *)
(* with WorldSocket::ProcessIncomingData above it: bytes arrive in         *)
(* arbitrary pieces, frames are cut out of the input buffer, an incomplete *)
(* frame is moved to the start of the buffer and its decrypted header is   *)
(* kept for the next read.                                                 *)
(*                                                                         *)
(* A byte is <<f, i>>: byte i of frame f, the first HeaderSize of them the *)
(* header.  The handler is one step up to the first frame and one step per *)
(* call of ProcessIncomingData: another thread may Close in between.       *)
(***************************************************************************)
EXTENDS Naturals, Sequences, SequencesExt

CONSTANTS
    NumFrames,      \* frames the peer sends
    BodySizes,      \* sizes a frame's body may have
    HeaderSize,     \* sizeof(ClientPktHeader)
    BufferSize,     \* DEFAULT_BUFFER_SIZE
    AsioResetsErrno \* the Boost of this build sets errno to 0 on each socket call

ASSUME SizesAssumption ==
    /\ NumFrames \in Nat /\ BodySizes \subseteq Nat
    /\ HeaderSize \in Nat \ {0} /\ BufferSize \in Nat \ {0}
    /\ AsioResetsErrno \in BOOLEAN

VARIABLES
    frames,                 \* what the peer sends, with the fate of each frame
    peer,                   \* bytes not yet arrived
    kernel,                 \* bytes arrived and not yet read
    open,                   \* m_socket.is_open()
    m_readState,
    m_inBuffer,             \* the input buffer up to m_writePosition
    m_readPosition,
    bufferSize,             \* m_buffer.size()
    read,                   \* async_read_some: "none", "pending", "done", "failed",
                            \* or "thrown": an exception has ended the program
    received,               \* the bytes it delivered, until OnRead counts them
    handler,                \* OnRead is in its loop over ProcessIncomingData
    m_useExistingHeader,    \* a decrypted header is kept in m_existingHeader
    m_existingHeader,       \* the frame it is the header of
    errno,                  \* thread-local, seen by OnRead after a failed call
    decrypted,              \* history: headers given to DecryptRecv
    processed               \* history: frames consumed, accepted or rejected

network == <<frames, peer, kernel>>
buffer  == <<m_inBuffer, m_readPosition, bufferSize>>
parser  == <<m_useExistingHeader, m_existingHeader, decrypted, processed>>
vars == <<network, open, m_readState, buffer, read, received, handler, errno, parser>>

\* The opcode handler returns true or false, or the header is out of range.
Verdicts == {"accept", "reject", "malformed"}
Frames == [body : BodySizes, verdict : Verdicts]
FrameSize(f) == HeaderSize + frames[f].body
FrameBytes(f) == [i \in 1..FrameSize(f) |-> <<f, i>>]
StreamFrom(f) == FlattenSeq([k \in 1..(NumFrames + 1 - f) |-> FrameBytes(f + k - 1)])

Init ==
    /\ frames \in [1..NumFrames -> Frames]
    /\ peer = StreamFrom(1)
    /\ kernel = <<>>
    /\ open = TRUE
    /\ m_readState = "Reading"      \* Open has called StartAsyncRead
    /\ m_inBuffer = <<>>
    /\ m_readPosition = 0
    /\ bufferSize = BufferSize
    /\ read = "pending"
    /\ received = <<>>
    /\ handler = FALSE
    /\ m_useExistingHeader = FALSE
    /\ m_existingHeader = 0
    /\ errno = "none"
    /\ decrypted = <<>>
    /\ processed = <<>>

ReadLengthRemaining == Len(m_inBuffer) - m_readPosition
NextFrame == Len(processed) + 1

-----------------------------------------------------------------------------
(* The peer, the kernel and Boost.Asio. *)

Arrive(n) ==
    /\ n <= Len(peer)
    /\ kernel' = kernel \o SubSeq(peer, 1, n)
    /\ peer' = SubSeq(peer, n + 1, Len(peer))
    /\ UNCHANGED <<frames, open, m_readState, buffer, read, received, handler, errno, parser>>

\* A read delivers what has arrived, at most the free space it was given; with
\* no free space it completes at once with nothing.
ReadSome(n) ==
    LET space == bufferSize - Len(m_inBuffer) IN
    /\ open /\ read = "pending"
    /\ n <= space /\ n <= Len(kernel)
    /\ n = 0 => space = 0
    /\ read' = "done"
    /\ received' = SubSeq(kernel, 1, n)
    /\ kernel' = SubSeq(kernel, n + 1, Len(kernel))
    /\ UNCHANGED <<frames, peer, open, m_readState, buffer, handler, errno, parser>>

\* The peer hung up, or Close aborted the read.
ReadFails ==
    /\ read = "pending"
    /\ read' = "failed"
    /\ UNCHANGED <<network, open, m_readState, buffer, received, handler, errno, parser>>

\* Close from another thread.
Close ==
    /\ open
    /\ open' = FALSE
    /\ UNCHANGED <<network, m_readState, buffer, read, received, handler, errno, parser>>

-----------------------------------------------------------------------------
(* The handler, on the network thread. *)

StartAsyncRead ==
    IF open
    THEN read' = "pending" /\ m_readState' = "Reading"
    ELSE read' = "none" /\ m_readState' = "Idle"

\* OnRead with an error (OnError closes), or on a socket closed meanwhile.
OnReadEnds ==
    /\ \/ read = "failed"
       \/ read = "done" /\ ~open
    /\ open' = FALSE
    /\ read' = "none"
    /\ m_readState' = "Idle"
    /\ received' = <<>>
    /\ UNCHANGED <<network, buffer, handler, errno, parser>>

\* Mutant: the buffer is resized to what is waiting, not by it.
OnRead_ResizesToAvailable ==
    LET available == Len(kernel) IN
    /\ read = "done" /\ open
    /\ m_inBuffer' = m_inBuffer \o received
    /\ received' = <<>>
    /\ IF available > 0 /\ Len(received) + available > bufferSize
       THEN /\ bufferSize' = available
            /\ StartAsyncRead
            /\ UNCHANGED handler
       ELSE /\ read' = "none"
            /\ handler' = TRUE
            /\ UNCHANGED <<bufferSize, m_readState>>
    /\ errno' = IF AsioResetsErrno THEN "none" ELSE errno
    /\ UNCHANGED <<network, open, m_readPosition, parser>>

\* OnRead up to the loop: more is waiting than the buffer holds, so it grows
\* and is read into; else the loop over the frames starts.
OnRead ==
    LET available == Len(kernel) IN
    /\ read = "done" /\ open
    /\ m_inBuffer' = m_inBuffer \o received
    /\ received' = <<>>
    /\ IF available > 0 /\ Len(received) + available > bufferSize
       THEN /\ bufferSize' = bufferSize + available
            /\ StartAsyncRead
            /\ UNCHANGED handler
       ELSE /\ read' = "none"
            /\ handler' = TRUE
            /\ UNCHANGED <<bufferSize, m_readState>>
    /\ errno' = IF AsioResetsErrno THEN "none" ELSE errno
    /\ UNCHANGED <<network, open, m_readPosition, parser>>

\* Close has come between IsClosed() and available(), which throws on a closed
\* socket: nothing up to the network thread's io_service::run catches it.
OnReadThrows ==
    /\ read = "done" /\ ~open
    /\ m_inBuffer' = m_inBuffer \o received
    /\ received' = <<>>
    /\ read' = "thrown"
    /\ UNCHANGED <<network, open, m_readState, m_readPosition, bufferSize, handler, errno, parser>>

\* Mutant: the positions are not reset after the last frame.
AllProcessed_KeepsPositions ==
    /\ handler /\ ReadLengthRemaining = 0
    /\ handler' = FALSE
    /\ StartAsyncRead
    /\ UNCHANGED <<network, open, m_inBuffer, m_readPosition, bufferSize, received, errno, parser>>

\* The loop has consumed the whole buffer.
AllProcessed ==
    /\ handler /\ ReadLengthRemaining = 0
    /\ handler' = FALSE
    /\ m_inBuffer' = <<>>
    /\ m_readPosition' = 0
    /\ StartAsyncRead
    /\ UNCHANGED <<network, open, bufferSize, received, errno, parser>>

\* Mutant: the remainder is cut to length and not moved to the start.
Fail_NoMove(code, position) ==
    /\ handler' = FALSE
    /\ errno' = code
    /\ IF code = "EBADMSG"
       THEN /\ m_inBuffer' = SubSeq(m_inBuffer, 1, Len(m_inBuffer) - position)
            /\ m_readPosition' = 0
            /\ StartAsyncRead
            /\ UNCHANGED open
       ELSE /\ open' = FALSE
            /\ m_readPosition' = position
            /\ UNCHANGED <<m_inBuffer, read, m_readState>>
    /\ UNCHANGED <<network, bufferSize, received>>

\* ProcessIncomingData returned false, with the read position where it left
\* it: for EBADMSG the rest of the buffer moves to the start and reading goes
\* on, for any other errno the socket is closed.
Fail(code, position) ==
    /\ handler' = FALSE
    /\ errno' = code
    /\ IF code = "EBADMSG"
       THEN /\ m_inBuffer' = SubSeq(m_inBuffer, position + 1, Len(m_inBuffer))
            /\ m_readPosition' = 0
            /\ StartAsyncRead
            /\ UNCHANGED open
       ELSE /\ open' = FALSE
            /\ m_readPosition' = position
            /\ UNCHANGED <<m_inBuffer, read, m_readState>>
    /\ UNCHANGED <<network, bufferSize, received>>

Processing == handler /\ ReadLengthRemaining > 0

\* Not even a header: nothing is consumed.
HeaderIncomplete ==
    /\ Processing
    /\ ~m_useExistingHeader /\ ReadLengthRemaining < HeaderSize
    /\ Fail("EBADMSG", m_readPosition)
    /\ UNCHANGED parser

\* A header is kept from an earlier read, or the next in the buffer goes
\* through DecryptRecv.
HeaderAvailable ==
    /\ Processing
    /\ m_useExistingHeader \/ ReadLengthRemaining >= HeaderSize
Header == IF m_useExistingHeader THEN m_existingHeader
          ELSE m_inBuffer[m_readPosition + 1][1]
Decrypt == decrypted' = IF m_useExistingHeader THEN decrypted ELSE Append(decrypted, Header)
BodyPosition == m_readPosition + HeaderSize

\* A header out of range closes the socket.
HeaderMalformed ==
    /\ HeaderAvailable
    /\ frames[Header].verdict = "malformed"
    /\ Decrypt
    /\ m_useExistingHeader' = FALSE
    /\ Fail("EINVAL", BodyPosition)
    /\ UNCHANGED <<m_existingHeader, processed>>

BodyComplete == FrameSize(Header) <= ReadLengthRemaining

\* Mutant: the read position stays behind the header that is kept.
BodyIncomplete_NoRewind ==
    /\ HeaderAvailable
    /\ frames[Header].verdict # "malformed"
    /\ ~BodyComplete
    /\ Decrypt
    /\ m_useExistingHeader' = TRUE
    /\ m_existingHeader' = Header
    /\ Fail("EBADMSG", BodyPosition)
    /\ UNCHANGED processed

\* Mutant: the header is not kept and so is decrypted again.
BodyIncomplete_HeaderNotKept ==
    /\ HeaderAvailable
    /\ frames[Header].verdict # "malformed"
    /\ ~BodyComplete
    /\ Decrypt
    /\ m_useExistingHeader' = FALSE
    /\ m_existingHeader' = Header
    /\ Fail("EBADMSG", m_readPosition)
    /\ UNCHANGED processed

\* The body is not all there: the header is kept and the read position goes
\* back in front of it.
BodyIncomplete ==
    /\ HeaderAvailable
    /\ frames[Header].verdict # "malformed"
    /\ ~BodyComplete
    /\ Decrypt
    /\ m_useExistingHeader' = TRUE
    /\ m_existingHeader' = Header
    /\ Fail("EBADMSG", m_readPosition)
    /\ UNCHANGED processed

\* A complete frame whose header is in range.
FrameReady ==
    /\ HeaderAvailable
    /\ frames[Header].verdict # "malformed"
    /\ BodyComplete

\* The socket was closed by another thread: the frame is dropped.
ClosedInLoop ==
    /\ FrameReady /\ ~open
    /\ Decrypt
    /\ m_useExistingHeader' = FALSE
    /\ Fail(errno, BodyPosition)
    /\ UNCHANGED <<m_existingHeader, processed>>

\* The frame leaves the buffer for QueuePacket or the opcode's own handler.
Consume ==
    /\ FrameReady /\ open
    /\ Decrypt
    /\ m_useExistingHeader' = FALSE
    /\ processed' = Append(processed, SubSeq(m_inBuffer, m_readPosition + 1,
                                             m_readPosition + FrameSize(Header)))
    /\ UNCHANGED m_existingHeader

\* It returns true: on to the next frame.
Accept ==
    /\ Consume
    /\ frames[Header].verdict = "accept"
    /\ m_readPosition' = m_readPosition + FrameSize(Header)
    /\ UNCHANGED <<network, open, m_inBuffer, bufferSize, m_readState, read, received,
                   handler, errno>>

\* It returns false and leaves errno as it is, which decides what OnRead does.
Reject ==
    /\ Consume
    /\ frames[Header].verdict = "reject"
    /\ Fail(errno, m_readPosition + FrameSize(Header))

-----------------------------------------------------------------------------
Handler ==
    \/ OnReadEnds \/ OnRead \/ OnReadThrows \/ AllProcessed
    \/ HeaderIncomplete \/ BodyIncomplete \/ HeaderMalformed \/ ClosedInLoop
    \/ Accept \/ Reject

Next ==
    \/ \E n \in 1..Len(peer) : Arrive(n)
    \/ \E n \in 0..Len(kernel) : ReadSome(n)
    \/ ReadFails
    \/ Close
    \/ Handler

\* What the peer sends arrives, a read with data or without space completes,
\* and the network thread runs its handlers.
Fairness ==
    /\ WF_vars(\E n \in 1..Len(peer) : Arrive(n))
    /\ WF_vars(\E n \in 0..Len(kernel) : ReadSome(n))
    /\ WF_vars(Handler)

Spec == Init /\ [][Next]_vars /\ Fairness

-----------------------------------------------------------------------------
(* Properties. *)

\* Every variable keeps its type; the read position stays inside the buffer, and
\* a read never puts more into it than it has been sized for.
TypeOK ==
    /\ frames \in [1..NumFrames -> Frames]
    /\ open \in BOOLEAN
    /\ m_readState \in {"Idle", "Reading"}
    /\ m_readPosition \in 0..Len(m_inBuffer)
    /\ Len(m_inBuffer) + Len(received) <= bufferSize
    /\ read \in {"none", "pending", "done", "failed", "thrown"}
    /\ handler \in BOOLEAN
    /\ m_useExistingHeader \in BOOLEAN
    /\ m_existingHeader \in 0..NumFrames
    /\ errno \in {"none", "EBADMSG", "EINVAL"}

\* Through partial reads, growth, the move of the remainder and the reuse of a
\* kept header, an open socket has lost, repeated and reordered no byte: what
\* is buffered, in the kernel and under way is exactly the stream from the
\* first frame not yet processed on.
NothingLost ==
    open => SubSeq(m_inBuffer, m_readPosition + 1, Len(m_inBuffer)) \o received \o kernel \o peer
              = StreamFrom(NextFrame)

\* Each frame is handled once, whole and in the order sent.
ProcessedInOrder ==
    \A i \in 1..Len(processed) : processed[i] = FrameBytes(i)

\* The receive cipher is a keystream: each header goes through DecryptRecv once,
\* in order, and the only one ahead of the processed frames is the one kept.
CipherInStep ==
    open => decrypted = [i \in 1..(Len(processed) + IF m_useExistingHeader THEN 1 ELSE 0) |-> i]

\* A frame that arrives is processed, or the socket closes.
FramesProcessed ==
    \A f \in 1..NumFrames : <>(~open \/ Len(processed) >= f)
=============================================================================
