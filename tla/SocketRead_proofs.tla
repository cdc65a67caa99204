-------------------------- MODULE SocketRead_proofs --------------------------
(***************************************************************************)
(* Theorems about SocketRead for any frames and any sizes: the types, that *)
(* an open socket loses no byte, that frames are handled once, whole and   *)
(* in order, and that the receive cipher stays in step.  All rest on the   *)
(* inductive invariant IInv.  When every frame fits the buffer and errno   *)
(* is reset for each read, reading never stalls nor goes round in circles. *)
(***************************************************************************)
EXTENDS SocketRead, DataLemmas, TLAPS

Byte == (1..NumFrames) \X Nat

\* A frame as the handlers get it.
Chunk == Seq(Byte)

\* The part of the buffer not yet consumed.
Unread == After(m_inBuffer, m_readPosition)

\* What is on its way to the parser.
Coming == Unread \o received \o kernel \o peer

BufferOK ==
    /\ frames \in [1..NumFrames -> Frames]
    /\ open \in BOOLEAN /\ handler \in BOOLEAN
    /\ m_readState \in {"Idle", "Reading"}
    /\ read \in {"none", "pending", "done", "failed", "thrown"}
    /\ errno \in {"none", "EBADMSG", "EINVAL"}
    /\ peer \in Seq(Byte) /\ kernel \in Seq(Byte)
    /\ received \in Seq(Byte) /\ m_inBuffer \in Seq(Byte)
    /\ m_readPosition \in 0..Len(m_inBuffer)
    /\ bufferSize \in Nat /\ Len(m_inBuffer) + Len(received) <= bufferSize

ParserOK ==
    /\ m_useExistingHeader \in BOOLEAN
    /\ m_existingHeader \in 0..NumFrames
    /\ decrypted \in Seq(1..NumFrames) /\ processed \in Seq(Chunk)

\* Where the handler and the read are: bytes wait in received only until OnRead
\* counts them, and the loop runs without a read.
Stage ==
    /\ read # "done" => received = <<>>
    /\ handler => read = "none"

\* A kept header is still in the buffer, and on an open socket it is the next frame's.
Kept ==
    m_useExistingHeader =>
        /\ m_existingHeader \in 1..NumFrames
        /\ HeaderSize <= ReadLengthRemaining
        /\ open => m_existingHeader = NextFrame

InStream ==
    /\ Len(processed) <= NumFrames
    /\ open => Coming = StreamFrom(NextFrame)

IInv == BufferOK /\ ParserOK /\ Stage /\ Kept /\ InStream /\ ProcessedInOrder /\ CipherInStep

-----------------------------------------------------------------------------
(* Frames and the stream. *)

LEMMA Sizes ==
    /\ NumFrames \in Nat /\ HeaderSize \in Nat /\ HeaderSize > 0 /\ BufferSize \in Nat
    /\ frames \in [1..NumFrames -> Frames] =>
        \A f \in 1..NumFrames : FrameSize(f) \in Nat /\ FrameSize(f) >= HeaderSize
<1>1. NumFrames \in Nat /\ HeaderSize \in Nat /\ HeaderSize > 0 /\ BufferSize \in Nat
  BY SizesAssumption
<1>2. ASSUME frames \in [1..NumFrames -> Frames], NEW f \in 1..NumFrames
      PROVE  FrameSize(f) \in Nat /\ FrameSize(f) >= HeaderSize
  <2>1. frames[f] \in Frames /\ BodySizes \subseteq Nat
    BY <1>2, SizesAssumption
  <2>2. frames[f].body \in Nat
    BY <2>1 DEF Frames
  <2> QED  BY <1>1, <2>2 DEF FrameSize
<1> QED  BY <1>1, <1>2

LEMMA FrameIsSeq ==
    ASSUME frames \in [1..NumFrames -> Frames], NEW f \in 1..NumFrames
    PROVE  /\ FrameBytes(f) \in Seq(Byte)
           /\ Len(FrameBytes(f)) = FrameSize(f)
           /\ FrameBytes(f)[1] = <<f, 1>>
<1>1. FrameSize(f) \in Nat /\ FrameSize(f) >= 1
  BY Sizes
<1>2. FrameBytes(f) \in [1..FrameSize(f) -> Byte]
  BY <1>1 DEF FrameBytes, Byte
<1>3. FrameBytes(f) \in Seq(Byte)
  BY <1>1, <1>2, SeqDef
<1> QED  BY <1>1, <1>3 DEF FrameBytes

\* The stream from a frame on is that frame and the stream from the next one on.
LEMMA StreamSplits ==
    ASSUME frames \in [1..NumFrames -> Frames], NEW f \in 1..NumFrames
    PROVE  /\ StreamFrom(f) = FrameBytes(f) \o StreamFrom(f + 1)
           /\ StreamFrom(f + 1) \in Seq(Byte) /\ StreamFrom(f) \in Seq(Byte)
<1> DEFINE n == NumFrames - f
           seqs == [k \in 1..(NumFrames + 1 - f) |-> FrameBytes(f + k - 1)]
           rest == [k \in 1..(NumFrames + 1 - (f + 1)) |-> FrameBytes((f + 1) + k - 1)]
<1>1. n \in Nat /\ NumFrames + 1 - f = n + 1 /\ NumFrames + 1 - (f + 1) = n
  BY Sizes
<1>2. \A i \in 1..(n + 1) : f + i - 1 \in 1..NumFrames
  BY Sizes
<1>3. \A i \in 1..(n + 1) : seqs[i] = FrameBytes(f + i - 1)
  BY <1>1
<1>4. \A i \in 1..n : rest[i] = FrameBytes((f + 1) + i - 1)
  BY <1>1
<1>5. \A i \in 1..(n + 1) : seqs[i] \in Seq(Byte)
  BY <1>2, <1>3, FrameIsSeq
<1>6. Len(seqs) = n + 1
  BY <1>1
<1>7. rest = [i \in 1..n |-> seqs[i + 1]]
  <2>1. ASSUME NEW i \in 1..n
        PROVE  (f + 1) + i - 1 = f + (i + 1) - 1 /\ i + 1 \in 1..(n + 1)
    BY <1>1, Sizes
  <2>2. \A i \in 1..n : rest[i] = seqs[i + 1]
    BY <1>3, <1>4, <2>1
  <2>3. rest = [i \in 1..n |-> rest[i]]
    BY <1>1
  <2> HIDE DEF rest, seqs, n
  <2> QED  BY <2>2, <2>3
<1>8. StreamFrom(f) = FlattenSeq(seqs) /\ StreamFrom(f + 1) = FlattenSeq(rest)
  BY DEF StreamFrom
<1>9. seqs[1] = FrameBytes(f)
  <2>1. 1 \in 1..(n + 1) /\ f + 1 - 1 = f
    BY <1>1
  <2>2. seqs[1] = FrameBytes(f + 1 - 1)
    BY <1>3, <2>1
  <2> QED  BY <2>1, <2>2
<1> HIDE DEF seqs, rest, n
<1>10. FlattenSeq(seqs) = Then(seqs[1], FlattenSeq(rest)) /\ FlattenSeq(rest) \in Seq(Byte)
  <2>1. Follows(rest, seqs, n, Byte)
    BY <1>5, <1>6, <1>7 DEF Follows
  <2> QED  BY <1>1, <2>1, FlattenFirst
<1>11. StreamFrom(f) = FrameBytes(f) \o StreamFrom(f + 1) /\ StreamFrom(f + 1) \in Seq(Byte)
  BY <1>8, <1>9, <1>10 DEF Then
<1> QED  BY <1>11, FrameIsSeq, ConcatProperties

LEMMA StreamEnds == StreamFrom(NumFrames + 1) = <<>>
<1>1. NumFrames + 1 - (NumFrames + 1) = 0
  BY Sizes
<1> DEFINE seqs == [k \in 1..0 |-> FrameBytes((NumFrames + 1) + k - 1)]
<1>2. StreamFrom(NumFrames + 1) = FlattenSeq(seqs)
  BY <1>1 DEF StreamFrom
<1>3. seqs = <<>>
  OBVIOUS
<1> HIDE DEF seqs
<1>4. FlattenSeq(<<>>) = <<>>
  BY DEF FlattenSeq
<1> QED  BY <1>2, <1>3, <1>4

\* Steps leave the frames alone, and so the stream from any frame on.
LEMMA SameStream ==
    ASSUME frames' = frames
    PROVE  /\ StreamFrom(NextFrame)' = StreamFrom(NextFrame')
           /\ \A f : FrameBytes(f)' = FrameBytes(f)
  BY DEF StreamFrom, FrameBytes, FrameSize

-----------------------------------------------------------------------------
(* What the parser finds. *)

LEMMA Buffers ==
    ASSUME IInv
    PROVE  /\ Unread \in Seq(Byte) /\ Len(Unread) = ReadLengthRemaining
           /\ Len(m_inBuffer) \in Nat /\ Len(received) \in Nat /\ Len(kernel) \in Nat
           /\ m_readPosition \in Nat /\ m_readPosition <= Len(m_inBuffer)
           /\ Len(processed) \in Nat /\ NextFrame \in Nat
           /\ received \o kernel \in Seq(Byte)
           /\ (received \o kernel) \o peer \in Seq(Byte)
<1>1. Unread \in Seq(Byte) /\ Len(Unread) = ReadLengthRemaining
  BY AfterType DEF IInv, BufferOK, Unread, ReadLengthRemaining
<1>2. Len(m_inBuffer) \in Nat /\ Len(received) \in Nat /\ Len(kernel) \in Nat
  BY LenProperties DEF IInv, BufferOK
<1>3. Len(processed) \in Nat
  BY LenProperties DEF IInv, ParserOK
<1>4. received \o kernel \in Seq(Byte)
  BY ConcatProperties DEF IInv, BufferOK
<1>5. (received \o kernel) \o peer \in Seq(Byte)
  BY <1>4, ConcatProperties DEF IInv, BufferOK
<1> QED  BY <1>1, <1>2, <1>3, <1>4, <1>5 DEF IInv, BufferOK, NextFrame

\* Coming, regrouped: what is read, and all that follows.
Behind == (received \o kernel) \o peer

\* Its four parts, grouped that way.
Groups4(s, r, k, p) == ((s \o r) \o k) \o p = s \o ((r \o k) \o p)

LEMMA Grouped4 ==
    ASSUME NEW S, NEW s \in Seq(S), NEW r \in Seq(S), NEW k \in Seq(S), NEW p \in Seq(S)
    PROVE  Groups4(s, r, k, p)
<1> DEFINE rk == r \o k
<1>1. rk \in Seq(S)
  BY ConcatProperties
<1>2. Groups3(s, r, k)
  BY Grouped3
<1> HIDE DEF rk
<1>3. Groups3(s, rk, p)
  BY <1>1, Grouped3
<1>4. (s \o r) \o k = s \o rk
  BY <1>2 DEF rk, Groups3
<1>5. (s \o rk) \o p = s \o (rk \o p)
  BY <1>3 DEF Groups3
<1>6. ((s \o r) \o k) \o p = s \o (rk \o p)
  BY <1>4, <1>5
<1> QED  BY <1>6 DEF rk, Groups4

LEMMA ComingIs ==
    ASSUME BufferOK
    PROVE  Coming = Unread \o Behind
<1>1. /\ Unread \in Seq(Byte) /\ received \in Seq(Byte) /\ kernel \in Seq(Byte)
      /\ peer \in Seq(Byte)
  BY AfterType DEF BufferOK, Unread
<1>2. Groups4(Unread, received, kernel, peer)
  BY <1>1, Grouped4
<1> QED  BY <1>2 DEF Coming, Behind, Groups4

LEMMA ComingIsNext ==
    ASSUME BufferOK'
    PROVE  Coming' = Unread' \o Behind'
<1>1. /\ Unread' \in Seq(Byte) /\ received' \in Seq(Byte) /\ kernel' \in Seq(Byte)
      /\ peer' \in Seq(Byte)
  BY AfterType DEF BufferOK, Unread
<1>2. Groups4(Unread', received', kernel', peer')
  BY <1>1, Grouped4
<1> QED  BY <1>2 DEF Coming, Behind, Groups4

\* Bytes that move from the front of one sequence to the end of the one before it.
Moved(x, k, p, n) ==
    (x \o (k \o SubSeq(p, 1, n))) \o After(p, n) = (x \o k) \o p

LEMMA Move ==
    ASSUME NEW S, NEW x \in Seq(S), NEW k \in Seq(S), NEW p \in Seq(S), NEW n \in 0..Len(p)
    PROVE  Moved(x, k, p, n)
<1> DEFINE a == SubSeq(p, 1, n)
           b == After(p, n)
           ka == k \o a
           xk == x \o k
<1>1. a \in Seq(S) /\ b \in Seq(S) /\ p = a \o b
  <2>1. Halved(S, p, n)
    BY Halve
  <2> QED  BY <2>1, Zenon DEF Halved
<1> HIDE DEF a, b
<1>2. ka \in Seq(S) /\ xk \in Seq(S)
  BY <1>1, ConcatProperties
<1>3. Groups3(x, k, a) /\ Groups3(xk, a, b)
  <2> HIDE DEF xk, ka
  <2> QED  BY <1>1, <1>2, Grouped3
<1>4. xk \o a = x \o ka
  BY <1>3 DEF Groups3
<1>5. (xk \o a) \o b = xk \o p
  BY <1>1, <1>3 DEF Groups3
<1>6. (x \o ka) \o b = xk \o p
  BY <1>4, <1>5
<1> QED  BY <1>6 DEF Moved, a, b

\* On an open socket the next byte in the buffer is the first of the next frame, and
\* if that frame is complete it is what comes first.
LEMMA NextInBuffer ==
    ASSUME IInv, open, ReadLengthRemaining > 0
    PROVE  /\ NextFrame \in 1..NumFrames
           /\ m_inBuffer[m_readPosition + 1][1] = NextFrame
           /\ FrameSize(NextFrame) <= ReadLengthRemaining =>
                /\ SubSeq(m_inBuffer, m_readPosition + 1, m_readPosition + FrameSize(NextFrame))
                      = FrameBytes(NextFrame)
                /\ After(m_inBuffer, m_readPosition + FrameSize(NextFrame)) \o Behind
                      = StreamFrom(NextFrame + 1)
<1> DEFINE f == NextFrame
           u == Unread
<1>1. u \in Seq(Byte) /\ Behind \in Seq(Byte) /\ Len(u) = ReadLengthRemaining /\ u # <<>>
  BY Buffers, EmptySeq DEF Behind
<1>2. u \o Behind = StreamFrom(f)
  BY ComingIs DEF IInv, InStream
<1>3. f \in 1..NumFrames
  <2>1. CASE Len(processed) = NumFrames
    <3>1. u \o Behind = <<>>
      BY <1>2, <2>1, StreamEnds DEF NextFrame
    <3>2. u = <<>>
      BY <1>1, <3>1, ConcatEqualIffEmpty
    <3> QED  BY <1>1, <3>2
  <2>2. CASE Len(processed) # NumFrames
    BY <2>2, Buffers, Sizes DEF IInv, InStream, NextFrame
  <2> QED  BY <2>1, <2>2
<1> HIDE DEF f, u
<1> DEFINE fb == FrameBytes(f)
           rest == StreamFrom(f + 1)
<1>4. fb \in Seq(Byte) /\ Len(fb) = FrameSize(f) /\ fb[1] = <<f, 1>> /\ rest \in Seq(Byte)
      /\ FrameSize(f) \in Nat /\ FrameSize(f) >= 1
  <2>1. frames \in [1..NumFrames -> Frames]
    BY DEF IInv, BufferOK
  <2>2. fb \in Seq(Byte) /\ Len(fb) = FrameSize(f) /\ fb[1] = <<f, 1>>
    BY <1>3, <2>1, FrameIsSeq
  <2>3. rest \in Seq(Byte)
    BY <1>3, <2>1, StreamSplits
  <2>4. FrameSize(f) \in Nat /\ FrameSize(f) >= 1
    BY <1>3, <2>1, Sizes
  <2> QED  BY <2>2, <2>3, <2>4
<1>5. u \o Behind = fb \o rest
  BY <1>2, <1>3, StreamSplits DEF IInv, BufferOK
<1>6. m_inBuffer[m_readPosition + 1] = u[1]
  <2>1. m_inBuffer \in Seq(Byte) /\ m_readPosition \in 0..Len(m_inBuffer) /\ Len(m_inBuffer) \in Nat
    BY Buffers DEF IInv, BufferOK
  <2>2. m_readPosition + 1 \in Int /\ Len(m_inBuffer) - m_readPosition > 0
    BY <2>1, Buffers DEF ReadLengthRemaining
  <2>3. \A i \in (m_readPosition + 1)..Len(m_inBuffer) : m_inBuffer[i] \in Byte
    BY <2>1, ElementOfSeq
  <2>4. \A i \in 1..(Len(m_inBuffer) - (m_readPosition + 1) + 1) :
            u[i] = m_inBuffer[(m_readPosition + 1) + i - 1]
    BY <2>1, <2>2, <2>3, SubSeqProperties DEF u, Unread, After
  <2> QED  BY <2>1, <2>2, <2>4
<1>7. m_inBuffer[m_readPosition + 1][1] = f
  <2> HIDE DEF fb, rest
  <2>1. Len(u) \in Nat /\ Len(u) >= 1 /\ Len(Behind) \in Nat /\ Len(rest) \in Nat /\ Len(fb) >= 1
        /\ Len(fb) \in Nat
    BY <1>1, <1>4, EmptySeq, LenProperties
  <2>2. (u \o Behind)[1] = u[1]
    BY <1>1, <2>1, ConcatProperties
  <2>3. (fb \o rest)[1] = fb[1]
    BY <1>4, <2>1, ConcatProperties
  <2>4. u[1] = <<f, 1>>
    BY <1>4, <1>5, <2>2, <2>3
  <2> QED  BY <1>6, <2>4
<1>8. ASSUME FrameSize(f) <= ReadLengthRemaining
      PROVE  /\ SubSeq(m_inBuffer, m_readPosition + 1, m_readPosition + FrameSize(f)) = fb
             /\ After(m_inBuffer, m_readPosition + FrameSize(f)) \o Behind = rest
  <2> DEFINE k == FrameSize(f)
             a == SubSeq(u, 1, k)
             b == After(u, k)
  <2>1. k \in 0..Len(u)
    BY <1>1, <1>4, <1>8, LenProperties
  <2>2. a \in Seq(Byte) /\ Len(a) = k /\ b \in Seq(Byte) /\ u = a \o b
    <3>1. u \in Seq(Byte)
      BY <1>1
    <3> HIDE DEF k
    <3>2. Halved(Byte, u, k)
      BY <2>1, <3>1, Halve
    <3> QED  BY <3>2, Zenon DEF Halved
  <2>3. /\ After(u, k) = After(m_inBuffer, m_readPosition + k)
        /\ SubSeq(u, 1, k) = SubSeq(m_inBuffer, m_readPosition + 1, m_readPosition + k)
    <3>1. m_inBuffer \in Seq(Byte) /\ m_readPosition \in Nat /\ m_readPosition + k <= Len(m_inBuffer)
      BY <1>4, <1>8, Buffers DEF IInv, BufferOK, ReadLengthRemaining
    <3> QED  BY <1>4, <3>1, AfterAfter DEF u, Unread
  <2> HIDE DEF a, b, k, fb, rest
  <2>4. (a \o b) \o Behind = a \o (b \o Behind) /\ b \o Behind \in Seq(Byte)
    BY <1>1, <2>2, Regroup3, ConcatProperties
  <2>5. a \o (b \o Behind) = fb \o rest
    BY <1>5, <2>2, <2>4
  <2>6. Len(a) = Len(fb)
    BY <1>4, <2>2 DEF k
  <2>7. a = fb /\ b \o Behind = rest
    BY <1>4, <2>2, <2>4, <2>5, <2>6, Cut
  <2> QED  BY <2>3, <2>7 DEF a, b, k
<1> QED  BY <1>3, <1>7, <1>8 DEF f

\* The header that the parser looks at.
LEMMA HeaderIs ==
    ASSUME IInv, HeaderAvailable
    PROVE  /\ Header \in 1..NumFrames
           /\ HeaderSize <= ReadLengthRemaining
           /\ open => Header = NextFrame
<1>1. HeaderSize <= ReadLengthRemaining /\ ReadLengthRemaining > 0
  BY DEF HeaderAvailable, Processing, IInv, Kept, ParserOK
<1>2. CASE m_useExistingHeader
  BY <1>1, <1>2 DEF IInv, Kept, Header
<1>3. CASE ~m_useExistingHeader
  <2>1. m_inBuffer \in Seq(Byte) /\ m_readPosition + 1 \in 1..Len(m_inBuffer)
    BY <1>1, Buffers DEF IInv, BufferOK, ReadLengthRemaining
  <2>2. m_inBuffer[m_readPosition + 1] \in Byte
    BY <2>1, ElementOfSeq
  <2>3. Header \in 1..NumFrames
    BY <1>3, <2>2 DEF Header, Byte
  <2> QED  BY <1>1, <1>3, <2>3, NextInBuffer DEF Header
<1> QED  BY <1>2, <1>3 DEF IInv, ParserOK


-----------------------------------------------------------------------------
(* What the steps keep. *)

\* The parser's part of the invariant.
Parsed == ParserOK /\ Kept /\ InStream /\ ProcessedInOrder /\ CipherInStep

\* A step that leaves the parser and, on an open socket, what is coming alone
\* keeps the parser's part.
LEMMA ParserSame ==
    ASSUME IInv, frames' = frames, UNCHANGED parser, BufferOK', open' => open,
           open' => Coming' = Coming,
           m_useExistingHeader => HeaderSize <= ReadLengthRemaining'
    PROVE  Parsed'
<1>0. frames' = frames /\ UNCHANGED parser /\ NextFrame' = NextFrame
  BY DEF NextFrame, parser
<1>1. ParserOK'
  BY DEF IInv, ParserOK, parser
<1>2. Kept'
  BY <1>0 DEF IInv, Kept, parser
<1>3. InStream'
  <2>1. open' => Coming' = StreamFrom(NextFrame')
    BY <1>0 DEF IInv, InStream
  <2> QED  BY <1>0, <2>1, SameStream DEF IInv, InStream, parser
<1>4. ProcessedInOrder'
  BY SameStream DEF IInv, ProcessedInOrder, parser
<1>5. CipherInStep'
  BY DEF IInv, CipherInStep, parser
<1> QED  BY <1>1, <1>2, <1>3, <1>4, <1>5 DEF Parsed

\* A call of ProcessIncomingData that fails leaves what is behind its read position.
LEMMA Failed ==
    ASSUME IInv, handler, NEW code \in {"none", "EBADMSG", "EINVAL"},
           NEW position \in m_readPosition..Len(m_inBuffer), Fail(code, position)
    PROVE  /\ BufferOK' /\ Stage' /\ frames' = frames
           /\ ReadLengthRemaining' = Len(m_inBuffer) - position
           /\ open' => open /\ code = "EBADMSG"
           /\ Unread' = After(m_inBuffer, position) /\ Behind' = Behind
<1>1. /\ Len(m_inBuffer) \in Nat /\ position \in Nat /\ position <= Len(m_inBuffer)
      /\ m_inBuffer \in Seq(Byte) /\ position \in 0..Len(m_inBuffer)
  BY Buffers DEF IInv, BufferOK
<1>2. After(m_inBuffer, position) \in Seq(Byte)
      /\ Len(After(m_inBuffer, position)) = Len(m_inBuffer) - position
  BY <1>1, AfterType
<1>3. frames' = frames /\ Behind' = Behind /\ read = "none" /\ received = <<>> /\ received' = <<>>
      /\ bufferSize' = bufferSize
  BY DEF Fail, network, Behind, IInv, Stage
<1>4. open' => open /\ code = "EBADMSG"
  BY DEF Fail, IInv, BufferOK
<1>5. /\ m_inBuffer' \in Seq(Byte) /\ m_readPosition' \in 0..Len(m_inBuffer')
      /\ Len(m_inBuffer') \in Nat /\ Len(m_inBuffer') <= Len(m_inBuffer)
      /\ Len(m_inBuffer') - m_readPosition' = Len(m_inBuffer) - position
      /\ Unread' = After(m_inBuffer, position)
  <2>1. CASE code = "EBADMSG"
    <3>1. m_inBuffer' = After(m_inBuffer, position) /\ m_readPosition' = 0
      BY <2>1 DEF Fail, After
    <3>2. Unread' = After(After(m_inBuffer, position), 0)
      BY <3>1 DEF Unread
    <3>3. After(After(m_inBuffer, position), 0) = After(m_inBuffer, position)
      BY <1>2, AfterNothing
    <3> QED  BY <1>1, <1>2, <3>1, <3>2, <3>3
  <2>2. CASE code # "EBADMSG"
    BY <1>1, <2>2 DEF Fail, Unread
  <2> QED  BY <2>1, <2>2
<1>6. BufferOK'
  <2>1. /\ open' \in BOOLEAN /\ handler' \in BOOLEAN /\ errno' \in {"none", "EBADMSG", "EINVAL"}
        /\ m_readState' \in {"Idle", "Reading"} /\ read' \in {"none", "pending", "done", "failed", "thrown"}
    BY DEF Fail, StartAsyncRead, IInv, BufferOK
  <2>2. peer' \in Seq(Byte) /\ kernel' \in Seq(Byte) /\ received' \in Seq(Byte)
        /\ frames' \in [1..NumFrames -> Frames]
    BY <1>3 DEF Fail, network, IInv, BufferOK
  <2>3. Len(received') = 0 /\ Len(received) = 0
    BY <1>3
  <2>4. bufferSize \in Nat /\ Len(m_inBuffer) + Len(received) <= bufferSize
    BY DEF IInv, BufferOK
  <2>5. bufferSize' \in Nat /\ Len(m_inBuffer') + Len(received') <= bufferSize'
    BY <1>1, <1>3, <1>5, <2>3, <2>4
  <2> QED  BY <1>5, <2>1, <2>2, <2>5 DEF BufferOK
<1>7. Stage'
  BY <1>3 DEF Stage, Fail
<1> QED  BY <1>3, <1>4, <1>5, <1>6, <1>7 DEF ReadLengthRemaining

LEMMA CountOn ==
    ASSUME NEW n \in Nat
    PROVE  Append([i \in 1..n |-> i], n + 1) = [i \in 1..(n + 1) |-> i]
  OBVIOUS

\* Decrypting the header of the next frame, when none is kept.
LEMMA Decrypted ==
    ASSUME IInv, HeaderAvailable, Decrypt
    PROVE  /\ decrypted' \in Seq(1..NumFrames)
           /\ open => decrypted' = [i \in 1..(Len(processed) + 1) |-> i]
<1>1. CASE m_useExistingHeader
  BY <1>1 DEF Decrypt, IInv, ParserOK, CipherInStep
<1>2. CASE ~m_useExistingHeader
  <2>1. decrypted' = Append(decrypted, Header)
    BY <1>2 DEF Decrypt
  <2>2. decrypted' \in Seq(1..NumFrames)
    BY <2>1, HeaderIs, AppendProperties DEF IInv, ParserOK
  <2>3. ASSUME open
        PROVE  decrypted' = [i \in 1..(Len(processed) + 1) |-> i]
    <3>1. Len(processed) \in Nat /\ Len(processed) + 0 = Len(processed)
      BY Buffers
    <3>2. decrypted = [i \in 1..Len(processed) |-> i]
      BY <1>2, <2>3, <3>1 DEF IInv, CipherInStep
    <3>3. Header = Len(processed) + 1
      BY <2>3, HeaderIs DEF NextFrame
    <3> QED  BY <2>1, <3>1, <3>2, <3>3, CountOn
  <2> QED  BY <2>2, <2>3
<1> QED  BY <1>1, <1>2 DEF IInv, ParserOK

\* A frame that is consumed is the next of the stream, whole.
LEMMA Consumed ==
    ASSUME IInv, Consume, frames' = frames, BufferOK', open' => open,
           Unread' = After(m_inBuffer, m_readPosition + FrameSize(Header)), Behind' = Behind
    PROVE  Parsed'
<1>1. open /\ HeaderAvailable /\ ReadLengthRemaining > 0 /\ Header = NextFrame
      /\ FrameSize(NextFrame) <= ReadLengthRemaining /\ Decrypt
  BY HeaderIs DEF Consume, FrameReady, HeaderAvailable, Processing, BodyComplete
<1>2. /\ NextFrame \in 1..NumFrames
      /\ SubSeq(m_inBuffer, m_readPosition + 1, m_readPosition + FrameSize(NextFrame))
            = FrameBytes(NextFrame)
      /\ After(m_inBuffer, m_readPosition + FrameSize(NextFrame)) \o Behind
            = StreamFrom(NextFrame + 1)
  BY <1>1, NextInBuffer
<1> DEFINE n == Len(processed)
<1>3. n \in Nat /\ NextFrame = n + 1
  BY Buffers DEF NextFrame
<1>4. processed' = Append(processed, FrameBytes(NextFrame)) /\ ~m_useExistingHeader'
      /\ m_useExistingHeader' = FALSE /\ m_existingHeader' = m_existingHeader
  BY <1>1, <1>2 DEF Consume
<1>5. /\ processed' \in Seq(Chunk) /\ Len(processed') = n + 1
      /\ \A i \in 1..n : processed'[i] = processed[i]
      /\ processed'[n + 1] = FrameBytes(NextFrame)
  <2>1. FrameBytes(NextFrame) \in Chunk /\ processed \in Seq(Chunk)
    BY <1>2, FrameIsSeq DEF IInv, BufferOK, ParserOK, Chunk
  <2> QED  BY <1>4, <2>1, AppendProperties
<1>6. ParserOK'
  BY <1>1, <1>4, <1>5, Decrypted DEF IInv, ParserOK
<1>7. Kept'
  BY <1>4 DEF Kept
<1>8. InStream'
  <2>1. NextFrame' = NextFrame + 1 /\ Len(processed') <= NumFrames
    BY <1>2, <1>3, <1>5 DEF NextFrame
  <2>2. Coming' = Unread' \o Behind'
    BY ComingIsNext
  <2>3. Coming' = StreamFrom(NextFrame')
    BY <1>1, <1>2, <2>1, <2>2
  <2> QED  BY <2>1, <2>3, SameStream DEF InStream
<1>9. ProcessedInOrder'
  <2>1. ASSUME NEW i \in 1..(n + 1)
        PROVE  processed'[i] = FrameBytes(i)
    <3>1. CASE i = n + 1
      BY <1>3, <1>5, <3>1
    <3>2. CASE i # n + 1
      <4>1. i \in 1..n
        BY <1>3, <3>2
      <4> QED  BY <1>5, <4>1 DEF IInv, ProcessedInOrder
    <3> QED  BY <3>1, <3>2
  <2> QED  BY <1>5, <2>1, SameStream DEF ProcessedInOrder
<1>10. CipherInStep'
  <2>1. decrypted' = [i \in 1..(n + 1) |-> i]
    BY <1>1, Decrypted
  <2>2. (n + 1) + 0 = n + 1
    BY <1>3
  <2> HIDE DEF n
  <2> QED  BY <1>4, <1>5, <2>1, <2>2 DEF CipherInStep
<1> QED  BY <1>6, <1>7, <1>8, <1>9, <1>10 DEF Parsed

-----------------------------------------------------------------------------
(* The invariant. *)

LEMMA InitIInv == Init => IInv
<1> SUFFICES ASSUME Init
             PROVE  IInv
  OBVIOUS
<1>1. frames \in [1..NumFrames -> Frames] /\ m_inBuffer = <<>> /\ kernel = <<>> /\ received = <<>>
      /\ m_readPosition = 0 /\ processed = <<>> /\ decrypted = <<>> /\ ~m_useExistingHeader
      /\ m_useExistingHeader = FALSE /\ peer = StreamFrom(1) /\ open = TRUE
  BY DEF Init
<1>2. StreamFrom(1) \in Seq(Byte)
  <2>1. CASE NumFrames = 0
    <3>1. 1 = NumFrames + 1
      BY <2>1
    <3>2. StreamFrom(1) = <<>>
      BY <3>1, StreamEnds
    <3> QED  BY <3>2, EmptySeq
  <2>2. CASE NumFrames # 0
    <3>1. 1 \in 1..NumFrames
      BY <2>2, Sizes
    <3> QED  BY <1>1, <3>1, StreamSplits
  <2> QED  BY <2>1, <2>2
<1>7. <<>> \in Seq(Byte) /\ <<>> \in Seq(1..NumFrames) /\ <<>> \in Seq(Chunk) /\ Len(<<>>) = 0
  OBVIOUS
<1>3. BufferOK
  <2>1. m_readPosition \in 0..Len(m_inBuffer) /\ bufferSize \in Nat
        /\ Len(m_inBuffer) + Len(received) <= bufferSize
    BY <1>1, <1>7, Sizes DEF Init
  <2> QED  BY <1>1, <1>2, <1>7, <2>1 DEF Init, BufferOK
<1>4. ParserOK /\ Stage /\ Kept
  <2>1. m_existingHeader \in 0..NumFrames
    BY Sizes DEF Init
  <2> QED  BY <1>1, <1>7, <2>1 DEF Init, ParserOK, Stage, Kept
<1>5. InStream
  <2>1. NextFrame = 1 /\ Len(processed) <= NumFrames
    BY <1>1, Sizes DEF NextFrame
  <2>2. Unread = <<>>
    BY <1>1, EmptySeq, AfterNothing DEF Unread
  <2>3. Coming = StreamFrom(1)
    BY <1>1, <1>2, <2>2, ConcatEmptySeq, EmptySeq DEF Coming
  <2> QED  BY <2>1, <2>3 DEF InStream
<1>6. ProcessedInOrder /\ CipherInStep
  BY <1>1 DEF ProcessedInOrder, CipherInStep
<1> QED  BY <1>3, <1>4, <1>5, <1>6 DEF IInv

LEMMA ArriveKeeps ==
    ASSUME IInv, NEW n \in 1..Len(peer), Arrive(n)
    PROVE  IInv'
<1>1. Len(peer) \in Nat /\ n \in 0..Len(peer) /\ peer \in Seq(Byte) /\ kernel \in Seq(Byte)
      /\ Unread \o received \in Seq(Byte)
  <2>1. Len(peer) \in Nat
    BY LenProperties DEF IInv, BufferOK
  <2> QED  BY <2>1, Buffers, ConcatProperties DEF IInv, BufferOK
<1>2. kernel' = kernel \o SubSeq(peer, 1, n) /\ peer' = After(peer, n)
      /\ UNCHANGED <<frames, open, m_readState, buffer, read, received, handler, errno, parser>>
  BY DEF Arrive, After
<1>3. kernel' \in Seq(Byte) /\ peer' \in Seq(Byte)
  BY <1>1, <1>2, Split, ConcatProperties DEF After
<1>4. BufferOK' /\ Stage'
  BY <1>2, <1>3 DEF IInv, BufferOK, Stage, buffer
<1>5. Coming' = Coming
  <2>1. Unread' = Unread /\ received' = received
    BY <1>2 DEF Unread, buffer
  <2>2. Coming' = ((Unread \o received) \o (kernel \o SubSeq(peer, 1, n))) \o After(peer, n)
    BY <1>2, <2>1 DEF Coming
  <2>3. Moved(Unread \o received, kernel, peer, n)
    BY <1>1, Move
  <2> QED  BY <2>2, <2>3 DEF Moved, Coming
<1>6. open' => open /\ ReadLengthRemaining' = ReadLengthRemaining
  BY <1>2 DEF ReadLengthRemaining, buffer
<1>7. Parsed'
  BY <1>2, <1>4, <1>5, <1>6, ParserSame DEF IInv, Kept, ReadLengthRemaining, buffer
<1> QED  BY <1>4, <1>7 DEF IInv, Parsed

LEMMA ReadSomeKeeps ==
    ASSUME IInv, NEW n \in 0..Len(kernel), ReadSome(n)
    PROVE  IInv'
<1>1. Len(kernel) \in Nat /\ kernel \in Seq(Byte) /\ Unread \in Seq(Byte) /\ received = <<>>
      /\ n <= bufferSize - Len(m_inBuffer) /\ Len(m_inBuffer) \in Nat /\ bufferSize \in Nat
  BY Buffers DEF IInv, BufferOK, Stage, ReadSome
<1>2. received' = SubSeq(kernel, 1, n) /\ kernel' = After(kernel, n) /\ read' = "done"
      /\ UNCHANGED <<frames, peer, open, m_readState, buffer, handler, errno, parser>>
      /\ read = "pending"
  BY DEF ReadSome, After
<1>3. kernel' \in Seq(Byte) /\ received' \in Seq(Byte) /\ Len(received') = n
  BY <1>1, <1>2, Split DEF After
<1>4. BufferOK' /\ Stage'
  <2>1. Len(m_inBuffer') + Len(received') <= bufferSize'
    BY <1>1, <1>2, <1>3 DEF buffer
  <2> QED  BY <1>2, <1>3, <2>1 DEF IInv, BufferOK, Stage, buffer
<1>5. Coming' = Coming
  <2>1. Unread' = Unread /\ peer' = peer
    BY <1>2 DEF Unread, buffer
  <2>2. Coming' = ((Unread \o SubSeq(kernel, 1, n)) \o After(kernel, n)) \o peer
    BY <1>2, <2>1 DEF Coming
  <2>3. Moved(Unread, <<>>, kernel, n) /\ SubSeq(kernel, 1, n) \in Seq(Byte)
    BY <1>1, Move, EmptySeq, Split
  <2>4. <<>> \o SubSeq(kernel, 1, n) = SubSeq(kernel, 1, n) /\ Unread \o <<>> = Unread
    BY <1>1, <2>3, ConcatEmptySeq
  <2>5. (Unread \o SubSeq(kernel, 1, n)) \o After(kernel, n) = Unread \o kernel
    BY <2>3, <2>4 DEF Moved
  <2>6. Coming = (Unread \o kernel) \o peer
    BY <1>1, <2>4 DEF Coming
  <2> QED  BY <2>2, <2>5, <2>6
<1>6. Parsed'
  BY <1>2, <1>4, <1>5, ParserSame DEF IInv, Kept, ReadLengthRemaining, buffer
<1> QED  BY <1>4, <1>6 DEF IInv, Parsed

LEMMA ReadFailsKeeps == ASSUME IInv, ReadFails
                        PROVE  IInv'
<1>1. /\ UNCHANGED <<network, open, m_readState, buffer, received, handler, errno, parser>>
      /\ read = "pending" /\ read' = "failed"
  BY DEF ReadFails
<1>2. BufferOK' /\ Stage'
  BY <1>1 DEF IInv, BufferOK, Stage, buffer, network
<1>3. Coming' = Coming /\ frames' = frames
  BY <1>1 DEF Coming, Unread, buffer, network
<1>4. Parsed'
  BY <1>1, <1>2, <1>3, ParserSame DEF IInv, Kept, ReadLengthRemaining, buffer
<1> QED  BY <1>2, <1>4 DEF IInv, Parsed

LEMMA CloseKeeps == ASSUME IInv, Close
                    PROVE  IInv'
<1>1. /\ UNCHANGED <<network, m_readState, buffer, read, received, handler, errno, parser>>
      /\ open' = FALSE
  BY DEF Close
<1>2. BufferOK' /\ Stage'
  BY <1>1 DEF IInv, BufferOK, Stage, buffer, network
<1>3. frames' = frames
  BY <1>1 DEF network
<1>4. Parsed'
  BY <1>1, <1>2, <1>3, ParserSame DEF IInv, Kept, ReadLengthRemaining, buffer
<1> QED  BY <1>2, <1>4 DEF IInv, Parsed

LEMMA OnReadEndsKeeps == ASSUME IInv, OnReadEnds
                         PROVE  IInv'
<1>1. /\ UNCHANGED <<network, buffer, handler, errno, parser>>
      /\ open' = FALSE /\ read' = "none" /\ m_readState' = "Idle" /\ received' = <<>>
  BY DEF OnReadEnds
<1>2. BufferOK' /\ Stage'
  <2>1. Len(received') = 0 /\ received' \in Seq(Byte) /\ Len(received) \in Nat
        /\ Len(m_inBuffer) \in Nat
    BY <1>1, Buffers, EmptySeq
  <2>2. Len(m_inBuffer') + Len(received') <= bufferSize'
    BY <1>1, <2>1 DEF IInv, BufferOK, buffer
  <2> QED  BY <1>1, <2>1, <2>2 DEF IInv, BufferOK, Stage, buffer, network
<1>3. frames' = frames
  BY <1>1 DEF network
<1>4. Parsed'
  BY <1>1, <1>2, <1>3, ParserSame DEF IInv, Kept, ReadLengthRemaining, buffer
<1> QED  BY <1>2, <1>4 DEF IInv, Parsed

LEMMA OnReadKeeps == ASSUME IInv, OnRead \/ OnReadThrows
                     PROVE  IInv'
<1>1. /\ m_inBuffer' = m_inBuffer \o received /\ received' = <<>>
      /\ m_readPosition' = m_readPosition
      /\ UNCHANGED <<network, open, parser>>
  BY DEF OnRead, OnReadThrows, parser
<1>2. /\ m_inBuffer \in Seq(Byte) /\ received \in Seq(Byte) /\ m_readPosition \in 0..Len(m_inBuffer)
      /\ Len(m_inBuffer) \in Nat /\ Len(received) \in Nat /\ bufferSize \in Nat /\ Len(kernel) \in Nat
      /\ Len(m_inBuffer) + Len(received) <= bufferSize
  BY Buffers DEF IInv, BufferOK
<1>3. /\ m_inBuffer' \in Seq(Byte) /\ Len(m_inBuffer') = Len(m_inBuffer) + Len(received)
      /\ Unread' = Unread \o received /\ m_readPosition' \in 0..Len(m_inBuffer')
  <2>1. /\ m_inBuffer' \in Seq(Byte) /\ Len(m_inBuffer') = Len(m_inBuffer) + Len(received)
    BY <1>1, <1>2, ConcatProperties
  <2>2. After(m_inBuffer \o received, m_readPosition) = After(m_inBuffer, m_readPosition) \o received
    BY <1>2, AfterConcat
  <2> QED  BY <1>1, <1>2, <2>1, <2>2 DEF Unread
<1>4. bufferSize' \in Nat /\ bufferSize <= bufferSize'
  BY <1>2 DEF OnRead, OnReadThrows
<1>5. BufferOK'
  <2>1. Len(received') = 0 /\ received' \in Seq(Byte)
    BY <1>1, EmptySeq
  <2>2. Len(m_inBuffer') + Len(received') <= bufferSize'
    BY <1>2, <1>3, <1>4, <2>1
  <2>3. /\ handler' \in BOOLEAN /\ errno' \in {"none", "EBADMSG", "EINVAL"}
        /\ m_readState' \in {"Idle", "Reading"} /\ read' \in {"none", "pending", "done", "failed", "thrown"}
    BY DEF OnRead, OnReadThrows, StartAsyncRead, IInv, BufferOK
  <2>4. /\ frames' \in [1..NumFrames -> Frames] /\ open' \in BOOLEAN
        /\ peer' \in Seq(Byte) /\ kernel' \in Seq(Byte)
    BY <1>1 DEF IInv, BufferOK, network
  <2> QED  BY <1>3, <1>4, <2>1, <2>2, <2>3, <2>4 DEF BufferOK
<1>6. Stage'
  <2>1. handler = FALSE
    BY DEF OnRead, OnReadThrows, IInv, Stage, BufferOK
  <2> QED  BY <1>1, <2>1 DEF OnRead, OnReadThrows, StartAsyncRead, Stage
<1>7. Coming' = Coming /\ frames' = frames /\ (open' => open)
  <2>1. Unread' \o received' = Unread \o received
    <3>1. Unread \o received \in Seq(Byte)
      BY <1>2, Buffers, ConcatProperties
    <3> QED  BY <1>1, <1>3, <3>1, ConcatEmptySeq
  <2> QED  BY <1>1, <2>1 DEF Coming, network
<1>8. m_useExistingHeader => HeaderSize <= ReadLengthRemaining'
  BY <1>1, <1>2, <1>3, Sizes DEF IInv, Kept, ReadLengthRemaining
<1>9. Parsed'
  BY <1>1, <1>5, <1>7, <1>8, ParserSame
<1> QED  BY <1>5, <1>6, <1>9 DEF IInv, Parsed

LEMMA AllProcessedKeeps == ASSUME IInv, AllProcessed
                           PROVE  IInv'
<1>1. /\ m_inBuffer' = <<>> /\ m_readPosition' = 0 /\ handler' = FALSE
      /\ UNCHANGED <<network, open, bufferSize, received, errno, parser>>
      /\ received = <<>> /\ ReadLengthRemaining = 0
  BY DEF AllProcessed, IInv, Stage
<1>2. BufferOK' /\ Stage'
  <2>1. /\ m_readState' \in {"Idle", "Reading"} /\ read' \in {"none", "pending"}
    BY DEF AllProcessed, StartAsyncRead
  <2>2. /\ m_inBuffer' \in Seq(Byte) /\ m_readPosition' \in 0..Len(m_inBuffer')
        /\ Len(m_inBuffer') + Len(received') <= bufferSize'
    BY <1>1, EmptySeq DEF IInv, BufferOK
  <2> QED  BY <1>1, <2>1, <2>2 DEF IInv, BufferOK, Stage, network
<1>3. Coming' = Coming /\ frames' = frames /\ (open' => open)
  <2>1. Unread = <<>>
    BY <1>1, Buffers, EmptySeq
  <2>2. Unread' = <<>>
    BY <1>1, EmptySeq, AfterNothing DEF Unread
  <2> QED  BY <1>1, <2>1, <2>2 DEF Coming, network
<1>4. ~m_useExistingHeader
  BY <1>1, Sizes DEF IInv, Kept
<1>5. Parsed'
  BY <1>1, <1>2, <1>3, <1>4, ParserSame
<1> QED  BY <1>2, <1>5 DEF IInv, Parsed

LEMMA HeaderIncompleteKeeps == ASSUME IInv, HeaderIncomplete
                               PROVE  IInv'
<1>1. /\ handler /\ ~m_useExistingHeader /\ Fail("EBADMSG", m_readPosition) /\ UNCHANGED parser
      /\ m_readPosition \in m_readPosition..Len(m_inBuffer)
  BY Buffers DEF HeaderIncomplete, Processing
<1>2. /\ BufferOK' /\ Stage' /\ frames' = frames /\ (open' => open)
      /\ Unread' = Unread /\ Behind' = Behind
  BY <1>1, Failed DEF Unread
<1>3. Coming' = Coming
  BY <1>2, ComingIs, ComingIsNext DEF IInv
<1>4. Parsed'
  BY <1>1, <1>2, <1>3, ParserSame
<1> QED  BY <1>2, <1>4 DEF IInv, Parsed

LEMMA BodyIncompleteKeeps == ASSUME IInv, BodyIncomplete
                             PROVE  IInv'
<1>1. /\ handler /\ HeaderAvailable /\ Decrypt /\ Fail("EBADMSG", m_readPosition)
      /\ m_useExistingHeader' = TRUE /\ m_existingHeader' = Header /\ processed' = processed
      /\ m_readPosition \in m_readPosition..Len(m_inBuffer)
  BY Buffers DEF BodyIncomplete, HeaderAvailable, Processing
<1>2. /\ BufferOK' /\ Stage' /\ frames' = frames /\ (open' => open)
      /\ Unread' = Unread /\ Behind' = Behind /\ ReadLengthRemaining' = ReadLengthRemaining
  BY <1>1, Failed DEF Unread, ReadLengthRemaining
<1>3. Coming' = Coming /\ NextFrame' = NextFrame
  BY <1>1, <1>2, ComingIs, ComingIsNext DEF IInv, NextFrame
<1>4. Header \in 1..NumFrames /\ HeaderSize <= ReadLengthRemaining /\ (open => Header = NextFrame)
      /\ decrypted' \in Seq(1..NumFrames)
      /\ (open => decrypted' = [i \in 1..(Len(processed) + 1) |-> i])
  BY <1>1, HeaderIs, Decrypted
<1>5. ParserOK'
  BY <1>1, <1>4, Sizes DEF IInv, ParserOK
<1>6. Kept'
  BY <1>1, <1>2, <1>3, <1>4 DEF Kept
<1>7. InStream'
  BY <1>1, <1>2, <1>3, SameStream DEF IInv, InStream
<1>8. ProcessedInOrder'
  BY <1>1, <1>2, SameStream DEF IInv, ProcessedInOrder
<1>9. CipherInStep'
  BY <1>1, <1>2, <1>4 DEF CipherInStep
<1> QED  BY <1>2, <1>5, <1>6, <1>7, <1>8, <1>9 DEF IInv

\* A header that closes the socket, or one that is read after it was closed.
LEMMA HeaderDroppedKeeps ==
    ASSUME IInv, HeaderAvailable, Decrypt, m_useExistingHeader' = FALSE,
           UNCHANGED <<m_existingHeader, processed>>,
           NEW code \in {"none", "EBADMSG", "EINVAL"}, Fail(code, BodyPosition),
           open => code # "EBADMSG"
    PROVE  IInv'
<1>1. BodyPosition \in m_readPosition..Len(m_inBuffer) /\ handler
  <2>1. handler
    BY DEF HeaderAvailable, Processing
  <2>2. /\ Len(m_inBuffer) \in Nat /\ m_readPosition \in Nat /\ HeaderSize \in Nat
        /\ HeaderSize <= Len(m_inBuffer) - m_readPosition
    BY Buffers, HeaderIs, Sizes DEF ReadLengthRemaining
  <2> QED  BY <2>1, <2>2 DEF BodyPosition
<1>2. BufferOK' /\ Stage' /\ frames' = frames /\ ~open'
  BY <1>1, Failed
<1>3. ParserOK'
  BY Decrypted DEF IInv, ParserOK
<1>4. Kept' /\ InStream' /\ CipherInStep'
  BY <1>2 DEF IInv, Kept, InStream, CipherInStep
<1>5. ProcessedInOrder'
  BY <1>2, SameStream DEF IInv, ProcessedInOrder
<1> QED  BY <1>2, <1>3, <1>4, <1>5 DEF IInv

LEMMA HeaderMalformedKeeps == ASSUME IInv, HeaderMalformed
                              PROVE  IInv'
  BY HeaderDroppedKeeps DEF HeaderMalformed

LEMMA ClosedInLoopKeeps == ASSUME IInv, ClosedInLoop
                           PROVE  IInv'
<1>1. errno \in {"none", "EBADMSG", "EINVAL"}
  BY DEF IInv, BufferOK
<1> QED  BY <1>1, HeaderDroppedKeeps DEF ClosedInLoop, FrameReady

LEMMA AcceptKeeps == ASSUME IInv, Accept
                     PROVE  IInv'
<1>1. /\ Consume /\ m_readPosition' = m_readPosition + FrameSize(Header)
      /\ UNCHANGED <<network, open, m_inBuffer, bufferSize, m_readState, read, received,
                     handler, errno>>
  BY DEF Accept
<1>2. Header \in 1..NumFrames /\ FrameSize(Header) \in Nat /\ FrameSize(Header) <= ReadLengthRemaining
  BY <1>1, HeaderIs, Sizes DEF Consume, FrameReady, BodyComplete, IInv, BufferOK
<1>3. BufferOK' /\ Stage'
  <2>1. m_readPosition' \in 0..Len(m_inBuffer')
    BY <1>1, <1>2, Buffers DEF ReadLengthRemaining
  <2> QED  BY <1>1, <2>1 DEF IInv, BufferOK, Stage, network
<1>4. /\ Unread' = After(m_inBuffer, m_readPosition + FrameSize(Header)) /\ Behind' = Behind
      /\ frames' = frames /\ (open' => open)
  BY <1>1 DEF Unread, Behind, network
<1>5. Parsed'
  BY <1>1, <1>3, <1>4, Consumed
<1> QED  BY <1>3, <1>5 DEF IInv, Parsed

LEMMA RejectKeeps == ASSUME IInv, Reject
                     PROVE  IInv'
<1> DEFINE position == m_readPosition + FrameSize(Header)
<1>1. Consume /\ Fail(errno, position) /\ errno \in {"none", "EBADMSG", "EINVAL"} /\ handler
  BY DEF Reject, IInv, BufferOK, Consume, FrameReady, HeaderAvailable, Processing
<1>2. Header \in 1..NumFrames /\ FrameSize(Header) \in Nat /\ FrameSize(Header) <= ReadLengthRemaining
  BY <1>1, HeaderIs, Sizes DEF Consume, FrameReady, BodyComplete, IInv, BufferOK
<1>3. position \in m_readPosition..Len(m_inBuffer)
  BY <1>2, Buffers DEF ReadLengthRemaining
<1> HIDE DEF position
<1>4. /\ BufferOK' /\ Stage' /\ frames' = frames /\ (open' => open)
      /\ Unread' = After(m_inBuffer, position) /\ Behind' = Behind
  BY <1>1, <1>3, Failed
<1>5. Parsed'
  BY <1>1, <1>4, Consumed DEF position
<1> QED  BY <1>4, <1>5 DEF IInv, Parsed

LEMMA StutterKeeps == ASSUME IInv, UNCHANGED vars
                      PROVE  IInv'
<1>1. UNCHANGED <<network, open, m_readState, buffer, read, received, handler, errno, parser>>
  BY DEF vars
<1>2. BufferOK' /\ Stage'
  BY <1>1 DEF IInv, BufferOK, Stage, buffer, network
<1>3. Coming' = Coming /\ frames' = frames
  BY <1>1 DEF Coming, Unread, buffer, network
<1>4. Parsed'
  BY <1>1, <1>2, <1>3, ParserSame DEF IInv, Kept, ReadLengthRemaining, buffer
<1> QED  BY <1>2, <1>4 DEF IInv, Parsed

LEMMA NextIInv == IInv /\ [Next]_vars => IInv'
<1> SUFFICES ASSUME IInv, [Next]_vars
             PROVE  IInv'
  OBVIOUS
<1>1. CASE UNCHANGED vars
  BY <1>1, StutterKeeps
<1>2. ASSUME NEW n \in 1..Len(peer), Arrive(n)
      PROVE  IInv'
  BY <1>2, ArriveKeeps
<1>3. ASSUME NEW n \in 0..Len(kernel), ReadSome(n)
      PROVE  IInv'
  BY <1>3, ReadSomeKeeps
<1>4. CASE ReadFails \/ Close
  BY <1>4, ReadFailsKeeps, CloseKeeps
<1>5. CASE Handler
  BY <1>5, OnReadEndsKeeps, OnReadKeeps, AllProcessedKeeps, HeaderIncompleteKeeps,
     BodyIncompleteKeeps, HeaderMalformedKeeps, ClosedInLoopKeeps, AcceptKeeps, RejectKeeps
     DEF Handler
<1> QED  BY <1>1, <1>2, <1>3, <1>4, <1>5 DEF Next

\* In every reachable state what is to come is the stream from the next frame on, and
\* a header kept by ProcessIncomingData is that frame's.
THEOREM Invariance == Spec => []IInv
  BY InitIInv, NextIInv, PTL DEF Spec

-----------------------------------------------------------------------------
(* The theorems. *)

\* Every variable keeps its type: the read position stays inside the input
\* buffer, and what a read delivers always fits in it.
THEOREM TypeCorrect == Spec => []TypeOK
<1>1. IInv => TypeOK
  BY DEF IInv, BufferOK, ParserOK, TypeOK
<1> QED  BY <1>1, Invariance, PTL

\* On an open socket OnRead and ProcessIncomingData have lost, repeated and
\* reordered no byte: what is still buffered, read or under way is the stream
\* from the first frame not yet processed on, however the bytes arrived in pieces.
THEOREM NoByteLost == Spec => []NothingLost
<1>1. IInv => NothingLost
  BY DEF IInv, InStream, Coming, Unread, After, NothingLost
<1> QED  BY <1>1, Invariance, PTL

\* ProcessIncomingData hands every frame on once, whole and in the order sent.
THEOREM FramesInOrder == Spec => []ProcessedInOrder
<1>1. IInv => ProcessedInOrder
  BY DEF IInv
<1> QED  BY <1>1, Invariance, PTL

\* DecryptRecv, a keystream, is given each header once and in order, although
\* the header of an incomplete frame stays in the buffer to be found again.
THEOREM CipherKeepsStep == Spec => []CipherInStep
<1>1. IInv => CipherInStep
  BY DEF IInv
<1> QED  BY <1>1, Invariance, PTL

-----------------------------------------------------------------------------
(* FramesProcessed, without the fairness. *)

\* Every frame fits the buffer that a socket starts with.
FramesFit == \A size \in BodySizes : HeaderSize + size <= BufferSize

\* The next frame is in the buffer, whole.
FrameWaits == NextFrame <= NumFrames /\ FrameSize(NextFrame) <= ReadLengthRemaining

\* An open socket reads or runs its loop.  A read has room in the buffer, and
\* no whole frame waits in the buffer for bytes that need not come: what is
\* read once nothing is left to arrive finds every frame processed.
NoStall ==
    open =>
        /\ handler \/ read # "none"
        /\ read = "pending" =>
            /\ Len(m_inBuffer) < bufferSize
            /\ FrameWaits => kernel # <<>>
            /\ kernel = <<>> /\ peer = <<>> => Len(processed) = NumFrames

\* How far the handlers are from reading again.
Lap == CASE read = "failed" -> 0
         [] read = "pending" -> 1
         [] read = "none" -> 2
         [] read = "done" -> 3

\* While the socket stays open every step takes bytes out of the network, or
\* with the same bytes there brings the handlers nearer to the next read, or
\* with the loop going on leaves it less to do.
FramesAdvance ==
    open /\ open' =>
        \/ Len(peer') < Len(peer)
        \/ peer' = peer /\ Len(kernel') < Len(kernel)
        \/ peer' = peer /\ kernel' = kernel /\ Lap' < Lap
        \/ /\ peer' = peer /\ kernel' = kernel /\ Lap' = Lap
           /\ ReadLengthRemaining' < ReadLengthRemaining

\* What keeps NoStall: outside the loop the rest of a frame is at the start of
\* the buffer, and the loop runs with the errno that OnRead left.
Going ==
    /\ bufferSize >= BufferSize
    /\ handler => errno = "none"
    /\ open =>
        /\ handler \/ read # "none"
        /\ ~handler => m_readPosition = 0
        /\ read = "pending" => Len(m_inBuffer) < bufferSize /\ (FrameWaits => kernel # <<>>)

LEMMA NumbersOf ==
    ASSUME IInv, NEW f \in 1..NumFrames
    PROVE  /\ FrameSize(f) \in Nat /\ FrameSize(f) >= HeaderSize
           /\ HeaderSize \in Nat /\ HeaderSize > 0 /\ ReadLengthRemaining \in Nat
<1>1. frames \in [1..NumFrames -> Frames]
  BY DEF IInv, BufferOK
<1>2. ReadLengthRemaining \in Nat
  BY Buffers, LenProperties
<1> QED  BY <1>1, <1>2, Sizes

LEMMA Fits ==
    ASSUME FramesFit, frames \in [1..NumFrames -> Frames], NEW f \in 1..NumFrames
    PROVE  FrameSize(f) <= BufferSize
<1>1. frames[f].body \in BodySizes
  BY DEF Frames
<1> QED  BY <1>1 DEF FramesFit, FrameSize

\* A step that does not touch the frames or their count leaves the next one's size.
LEMMA SameNext ==
    ASSUME frames' = frames, processed' = processed
    PROVE  NextFrame' = NextFrame /\ FrameSize(NextFrame)' = FrameSize(NextFrame)
  BY DEF NextFrame, FrameSize

\* Reading goes on behind the part of a frame that is there, with room for the rest.
LEMMA Resumes ==
    ASSUME FramesFit, IInv, Going, open, handler, NextFrame \in 1..NumFrames,
           ReadLengthRemaining < FrameSize(NextFrame),
           Fail("EBADMSG", m_readPosition), processed' = processed
    PROVE  Going'
<1>1. /\ handler' = FALSE /\ m_readPosition' = 0 /\ read' = "pending"
      /\ bufferSize' = bufferSize /\ frames' = frames /\ open' = open
      /\ m_inBuffer' = After(m_inBuffer, m_readPosition)
  BY DEF Fail, StartAsyncRead, network, After
<1>2. /\ Len(m_inBuffer') = ReadLengthRemaining /\ ReadLengthRemaining \in Nat
      /\ ReadLengthRemaining' = ReadLengthRemaining
  <2>1. Len(m_inBuffer') = ReadLengthRemaining /\ ReadLengthRemaining \in Nat
    BY <1>1, Buffers, LenProperties DEF Unread
  <2>2. ReadLengthRemaining' = Len(m_inBuffer') - m_readPosition'
    BY DEF ReadLengthRemaining
  <2> QED  BY <1>1, <2>1, <2>2
<1>3. FrameSize(NextFrame) \in Nat /\ FrameSize(NextFrame) <= BufferSize
      /\ BufferSize \in Nat /\ bufferSize \in Nat
  BY Fits, Sizes DEF IInv, BufferOK
<1>4. Len(m_inBuffer') < bufferSize'
  BY <1>1, <1>2, <1>3 DEF Going
<1>5. ~FrameWaits'
  <2>1. FrameWaits' => FrameSize(NextFrame)' <= ReadLengthRemaining'
    BY DEF FrameWaits
  <2>2. FrameSize(NextFrame)' = FrameSize(NextFrame)
    BY <1>1, SameNext
  <2> QED  BY <1>2, <1>3, <2>1, <2>2
<1> QED  BY <1>1, <1>4, <1>5 DEF Going

LEMMA OnReadGoes ==
    ASSUME AsioResetsErrno, IInv, Going, OnRead
    PROVE  Going'
<1>1. /\ m_readPosition' = m_readPosition /\ errno' = "none" /\ open /\ open' = open
      /\ kernel' = kernel /\ m_inBuffer' = m_inBuffer \o received /\ ~handler /\ read = "done"
  BY DEF OnRead, network, IInv, Stage, BufferOK
<1>2. /\ Len(kernel) \in Nat /\ bufferSize \in Nat /\ BufferSize \in Nat
      /\ Len(m_inBuffer') <= bufferSize /\ Len(m_inBuffer') \in Nat
  <2>1. Len(m_inBuffer') = Len(m_inBuffer) + Len(received)
    BY <1>1, ConcatProperties DEF IInv, BufferOK
  <2> QED  BY <2>1, Buffers, Sizes DEF IInv, BufferOK
<1>3. CASE Len(kernel) > 0 /\ Len(received) + Len(kernel) > bufferSize
  <2>1. bufferSize' = bufferSize + Len(kernel) /\ read' = "pending" /\ handler' = handler
    BY <1>1, <1>3 DEF OnRead, StartAsyncRead
  <2>2. kernel' # <<>>
    BY <1>1, <1>3, EmptySeq
  <2>3. Len(m_inBuffer') < bufferSize' /\ bufferSize' >= BufferSize
    BY <1>2, <1>3, <2>1 DEF Going
  <2> QED  BY <1>1, <2>1, <2>2, <2>3 DEF Going
<1>4. CASE ~(Len(kernel) > 0 /\ Len(received) + Len(kernel) > bufferSize)
  <2>1. bufferSize' = bufferSize /\ read' = "none" /\ handler' = TRUE
    BY <1>4 DEF OnRead
  <2> QED  BY <1>1, <2>1 DEF Going
<1> QED  BY <1>3, <1>4

LEMMA AllProcessedGoes ==
    ASSUME IInv, Going, AllProcessed
    PROVE  Going'
<1>1. /\ handler' = FALSE /\ m_readPosition' = 0 /\ m_inBuffer' = <<>> /\ open' = open
      /\ bufferSize' = bufferSize /\ frames' = frames /\ processed' = processed
      /\ open => read' = "pending"
  BY DEF AllProcessed, StartAsyncRead, network, parser
<1>2. Len(m_inBuffer') = 0 /\ ReadLengthRemaining' = 0
  BY <1>1, EmptySeq DEF ReadLengthRemaining
<1>3. Len(m_inBuffer') < bufferSize'
  BY <1>1, <1>2, SizesAssumption DEF Going, IInv, BufferOK
<1>4. ~FrameWaits'
  <2> SUFFICES ASSUME FrameWaits' PROVE FALSE
    OBVIOUS
  <2>1. NextFrame <= NumFrames /\ FrameSize(NextFrame) <= 0
    BY <1>1, <1>2, SameNext DEF FrameWaits
  <2>2. NextFrame \in 1..NumFrames
    BY <2>1, Buffers, Sizes DEF NextFrame
  <2> QED  BY <2>1, <2>2, Sizes DEF IInv, BufferOK
<1> QED  BY <1>1, <1>3, <1>4 DEF Going

LEMMA GoingStep ==
    ASSUME FramesFit, AsioResetsErrno, IInv, Going, [Next]_vars
    PROVE  Going'
<1>1. ASSUME NEW n \in 1..Len(peer), Arrive(n)
      PROVE  Going'
  <2>1. /\ kernel' = kernel \o SubSeq(peer, 1, n)
        /\ UNCHANGED <<frames, open, buffer, read, handler, errno, parser>>
    BY <1>1 DEF Arrive
  <2>2. SubSeq(peer, 1, n) \in Seq(Byte) /\ Len(SubSeq(peer, 1, n)) = n /\ n >= 1
    BY Split, LenProperties DEF IInv, BufferOK
  <2>3. kernel' # <<>>
    <3>1. Len(kernel') = Len(kernel) + n
      BY <2>1, <2>2, ConcatProperties DEF IInv, BufferOK
    <3> QED  BY <2>2, <3>1, Buffers, EmptySeq
  <2> QED  BY <2>1, <2>3 DEF Going, buffer
<1>2. ASSUME NEW n \in 0..Len(kernel), ReadSome(n)
      PROVE  Going'
  BY <1>2 DEF ReadSome, Going, buffer
<1>3. CASE ReadFails
  BY <1>3 DEF ReadFails, Going, buffer
<1>4. CASE Close
  BY <1>4 DEF Close, Going, buffer
<1>5. CASE OnReadEnds
  BY <1>5 DEF OnReadEnds, Going, buffer
<1>13. CASE OnReadThrows
  BY <1>13 DEF OnReadThrows, Going, IInv, Stage, BufferOK
<1>6. CASE HeaderIncomplete
  <2>1. /\ Fail("EBADMSG", m_readPosition) /\ handler /\ ReadLengthRemaining > 0
        /\ ReadLengthRemaining < HeaderSize /\ processed' = processed
    BY <1>6 DEF HeaderIncomplete, Processing, parser
  <2>2. CASE open
    <3>1. NextFrame \in 1..NumFrames
      BY <2>1, <2>2, NextInBuffer
    <3>2. ReadLengthRemaining < FrameSize(NextFrame)
      BY <2>1, <3>1, NumbersOf
    <3> QED  BY <2>1, <2>2, <3>1, <3>2, Resumes
  <2>3. CASE ~open
    BY <2>1, <2>3 DEF Fail, Going
  <2> QED  BY <2>2, <2>3
<1>7. CASE BodyIncomplete
  <2>1. /\ Fail("EBADMSG", m_readPosition) /\ handler /\ HeaderAvailable
        /\ ~(FrameSize(Header) <= ReadLengthRemaining) /\ processed' = processed
    BY <1>7 DEF BodyIncomplete, HeaderAvailable, Processing, BodyComplete
  <2>2. CASE open
    <3>1. NextFrame \in 1..NumFrames /\ Header = NextFrame
      BY <2>1, <2>2, HeaderIs
    <3>2. ReadLengthRemaining < FrameSize(NextFrame)
      BY <2>1, <3>1, NumbersOf
    <3> QED  BY <2>1, <2>2, <3>1, <3>2, Resumes
  <2>3. CASE ~open
    BY <2>1, <2>3 DEF Fail, Going
  <2> QED  BY <2>2, <2>3
<1>8. CASE HeaderMalformed
  BY <1>8 DEF HeaderMalformed, Fail, Going
<1>9. CASE ClosedInLoop
  BY <1>9 DEF ClosedInLoop, Fail, Going
<1>10. CASE Accept
  <2>1. /\ handler /\ read = "none"
        /\ UNCHANGED <<open, bufferSize, read, handler, errno>>
    BY <1>10 DEF Accept, Consume, FrameReady, HeaderAvailable, Processing, IInv, Stage
  <2> QED  BY <2>1 DEF Going
<1>11. CASE Reject
  <2>1. errno = "none"
    BY <1>11 DEF Reject, Consume, FrameReady, HeaderAvailable, Processing, Going
  <2> QED  BY <1>11, <2>1 DEF Reject, Fail, Going
<1>12. CASE UNCHANGED vars
  <2>1. FrameWaits' = FrameWaits
    BY <1>12, SameNext DEF FrameWaits, ReadLengthRemaining, vars, network, parser, buffer
  <2> QED  BY <1>12, <2>1 DEF Going, vars, buffer, network
<1> QED  BY <1>1, <1>2, <1>3, <1>4, <1>5, <1>6, <1>7, <1>8, <1>9, <1>10, <1>11, <1>12,
         <1>13, OnReadGoes, AllProcessedGoes DEF Next, Handler

LEMMA InitGoing ==
    ASSUME Init
    PROVE  Going
<1>1. bufferSize = BufferSize /\ ~handler /\ read = "pending" /\ m_readPosition = 0
      /\ m_inBuffer = <<>> /\ Len(m_inBuffer) = 0 /\ ReadLengthRemaining = 0
  BY EmptySeq DEF Init, ReadLengthRemaining
<1>2. ~FrameWaits
  <2> SUFFICES ASSUME FrameWaits PROVE FALSE
    OBVIOUS
  <2>1. NextFrame = 1 /\ NextFrame <= NumFrames /\ FrameSize(NextFrame) <= 0
    BY <1>1, EmptySeq DEF Init, NextFrame, FrameWaits
  <2>2. NextFrame \in 1..NumFrames
    BY <2>1, Sizes
  <2> QED  BY <2>1, <2>2, Sizes DEF Init
<1> QED  BY <1>1, <1>2, SizesAssumption DEF Going

\* With every frame in the buffer's size and errno reset for each read, the
\* read half never stalls: whenever it waits for bytes it has room for them,
\* whenever a whole frame is left in the buffer bytes are there to wake it,
\* and when it waits with nothing more to come it has processed everything.
THEOREM ReadNeverStalls ==
    ASSUME FramesFit, AsioResetsErrno PROVE Spec => []NoStall
<1>1. Init => Going
  BY InitGoing
<1>2. IInv /\ Going /\ [Next]_vars => Going'
  BY GoingStep
<1>3. IInv /\ Going => NoStall
  <2> SUFFICES ASSUME IInv, Going, open, read = "pending", kernel = <<>>, peer = <<>>
               PROVE  Len(processed) = NumFrames
    BY DEF Going, NoStall
  <2> SUFFICES ASSUME Len(processed) # NumFrames PROVE FALSE
    OBVIOUS
  <2>1. NextFrame \in 1..NumFrames
    BY Buffers, Sizes DEF IInv, InStream, NextFrame
  <2>2. Unread = StreamFrom(NextFrame) /\ Unread \in Seq(Byte)
        /\ Len(Unread) = ReadLengthRemaining
    <3>1. Behind = <<>>
      <4>1. received = <<>>
        BY DEF IInv, Stage
      <4> QED  BY <4>1, ConcatEmptySeq, EmptySeq DEF Behind
    <3>2. Coming = Unread \o Behind
      BY ComingIs DEF IInv
    <3> QED  BY <3>1, <3>2, Buffers, ConcatEmptySeq DEF IInv, InStream
  <2>3. FrameWaits
    <3> DEFINE fb == FrameBytes(NextFrame)
               rest == StreamFrom(NextFrame + 1)
    <3>1. /\ Unread = fb \o rest /\ fb \in Seq(Byte) /\ rest \in Seq(Byte)
          /\ Len(fb) = FrameSize(NextFrame)
      BY <2>1, <2>2, StreamSplits, FrameIsSeq DEF IInv, BufferOK
    <3> HIDE DEF fb, rest
    <3>2. Len(Unread) = Len(fb) + Len(rest) /\ Len(rest) \in Nat /\ Len(fb) \in Nat
      BY <3>1, ConcatProperties, LenProperties
    <3> QED  BY <2>1, <2>2, <3>1, <3>2, Sizes DEF FrameWaits
  <2> QED  BY <2>3 DEF Going
<1> QED  BY <1>1, <1>2, <1>3, Invariance, PTL DEF Spec

\* And it cannot go round in circles: every step on a socket that stays open
\* takes bytes from the network, or brings the next read nearer, or consumes
\* part of the buffer.
THEOREM FramesOnlyAdvance ==
    ASSUME FramesFit, AsioResetsErrno PROVE Spec => [][FramesAdvance]_vars
<1>1. Init => Going
  BY InitGoing
<1>2. IInv /\ Going /\ [Next]_vars => Going'
  BY GoingStep
<1>3. IInv /\ Going /\ [Next]_vars => [FramesAdvance]_vars
  <2> SUFFICES ASSUME IInv, Going, Next, open, open' PROVE FramesAdvance
    BY DEF FramesAdvance
  <2>1. Len(peer) \in Nat /\ Len(kernel) \in Nat /\ peer \in Seq(Byte) /\ kernel \in Seq(Byte)
    BY LenProperties DEF IInv, BufferOK
  <2>2. ASSUME NEW n \in 1..Len(peer), Arrive(n)
        PROVE  Len(peer') < Len(peer)
    <3>1. Len(peer') = Len(peer) - n
      BY <2>1, <2>2, Split DEF Arrive
    <3> QED  BY <2>1, <3>1
  <2>3. ASSUME NEW n \in 0..Len(kernel), ReadSome(n)
        PROVE  peer' = peer /\ Len(kernel') < Len(kernel)
    <3>1. Len(kernel') = Len(kernel) - n /\ peer' = peer
      BY <2>1, <2>3, Split DEF ReadSome
    <3>2. n # 0
      BY <2>3, Buffers DEF ReadSome, Going, IInv, BufferOK
    <3> QED  BY <2>1, <3>1, <3>2
  <2>4. CASE ReadFails
    BY <2>4 DEF ReadFails, network, Lap, FramesAdvance
  <2>5. CASE Close \/ OnReadEnds \/ OnReadThrows
    BY <2>5 DEF Close, OnReadEnds, OnReadThrows
  <2>6. CASE OnRead
    <3>1. read = "done" /\ read' \in {"none", "pending"} /\ UNCHANGED <<peer, kernel>>
      BY <2>6 DEF OnRead, StartAsyncRead, network
    <3> QED  BY <3>1 DEF Lap, FramesAdvance
  <2>7. ASSUME handler, read' = "pending", UNCHANGED network
        PROVE  FramesAdvance
    <3>1. read = "none"
      BY <2>7 DEF IInv, Stage
    <3> QED  BY <2>7, <3>1 DEF Lap, FramesAdvance, network
  <2>8. CASE AllProcessed
    BY <2>7, <2>8 DEF AllProcessed, StartAsyncRead
  <2>9. ASSUME NEW code, NEW position, handler, Fail(code, position)
        PROVE  FramesAdvance
    <3>1. read' = "pending" /\ UNCHANGED network
      BY <2>9 DEF Fail, StartAsyncRead
    <3> QED  BY <2>7, <2>9, <3>1
  <2>10. CASE HeaderIncomplete \/ BodyIncomplete \/ HeaderMalformed \/ ClosedInLoop \/ Reject
    <3>1. handler
      BY <2>10 DEF HeaderIncomplete, BodyIncomplete, HeaderMalformed, ClosedInLoop, Reject,
                   Consume, FrameReady, HeaderAvailable, Processing
    <3>2. \E code, position : Fail(code, position)
      BY <2>10 DEF HeaderIncomplete, BodyIncomplete, HeaderMalformed, ClosedInLoop, Reject
    <3> QED  BY <2>9, <3>1, <3>2
  <2>11. CASE Accept
    <3>1. /\ m_readPosition' = m_readPosition + FrameSize(Header)
          /\ UNCHANGED <<m_inBuffer, network, read>>
          /\ HeaderAvailable
      BY <2>11 DEF Accept, Consume, FrameReady
    <3>2. FrameSize(Header) \in Nat /\ FrameSize(Header) > 0
      <4>1. Header \in 1..NumFrames
        BY <3>1, HeaderIs
      <4> QED  BY <4>1, NumbersOf
    <3>3. ReadLengthRemaining' < ReadLengthRemaining
      BY <3>1, <3>2, Buffers DEF ReadLengthRemaining
    <3> QED  BY <3>1, <3>3 DEF Lap, FramesAdvance, network
  <2> QED  BY <2>2, <2>3, <2>4, <2>5, <2>6, <2>8, <2>10, <2>11 DEF Next, Handler, FramesAdvance
<1> QED  BY <1>1, <1>2, <1>3, Invariance, PTL DEF Spec
=============================================================================
