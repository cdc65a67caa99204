------------------------- MODULE SocketWrite_proofs -------------------------
(***************************************************************************)
(* Theorems about SocketWrite for any set of senders and any bounds:       *)
(* the type invariant, the handlers' assertions, the single continuation,  *)
(* the frozen primary buffer, and that the write half implements           *)
(* ByteStream; then that unsent bytes are always on their way, that        *)
(* packets stay whole, and that one sender alone would keep the order of   *)
(* encryption.  All rest on the inductive invariant IInv.                  *)
(***************************************************************************)
EXTENDS SocketWrite, DataLemmas, TLAPS

\* How many bytes of the primary buffer the kernel has and the handler has
\* not yet removed.
Taken == IF completion > 0 THEN completion ELSE 0

\* Who carries the data on in each write state.  Unlike OneContinuation it
\* says what is true of a closed socket too: the handlers still run there.
Chain ==
    /\ flushTimer # "off" => m_writeState = "Buffering" /\ inFlight = 0 /\ handler = "none"
    /\ handler = "FlushOut" => m_writeState = "Buffering" /\ inFlight = 0
    /\ inFlight > 0 => m_writeState = "Sending" /\ inFlight = Len(m_outBuffer)
    /\ handler = "OnWriteComplete" => inFlight > 0 /\ completion > 0
    /\ m_writeState = "Buffering" =>
        /\ m_outBuffer # <<>>
        /\ flushTimer # "off" \/ handler = "FlushOut"
    /\ inFlight = 0 => completion = NotYet
    /\ open /\ m_writeState = "Sending" => inFlight > 0
    /\ open /\ m_writeState # "Sending" => m_secondaryOutBuffer = <<>>
    /\ open /\ m_writeState = "Idle" => m_outBuffer = <<>>

\* A header under way was encrypted within the bound on packets.
HeaderOK ==
    /\ cipher <= MaxPackets
    /\ \A s \in Senders : senderPc[s] = "encrypted" => header[s] < MaxPackets

\* No byte is lost or added between accepted and wire, spoilt or not, as long
\* as the write goes on.
Counted ==
    /\ Len(wire) <= Len(accepted)
    /\ open \/ handler = "OnWriteComplete" =>
        Len(accepted) = Len(wire) + (Len(m_outBuffer) - Taken) + Len(m_secondaryOutBuffer)

\* Until a memcpy spoils some, none is changed, repeated or reordered either.
NothingLost ==
    ~garbled =>
        /\ open => accepted = wire \o (SubSeq(m_outBuffer, Taken + 1, Len(m_outBuffer))
                                         \o m_secondaryOutBuffer)
        /\ \E rest \in Seq(Byte) : accepted = wire \o rest

IInv == TypeOK /\ Chain /\ HeaderOK /\ Counted /\ NothingLost

-----------------------------------------------------------------------------
(* Packets. *)

\* A packet is a non-empty sequence of bytes.
LEMMA PacketIsSeq ==
    ASSUME NEW seq \in Nat, NEW size \in 1..MaxBytes
    PROVE  /\ Packet(seq, size) \in Seq(Byte)
           /\ Packet(seq, size) # <<>>
<1>1. size \in Nat /\ size >= 1
  BY BoundsAssumption
<1>2. Packet(seq, size) \in [1..size -> Byte]
  BY <1>1 DEF Packet, Byte
<1>3. Packet(seq, size) \in Seq(Byte)
  BY <1>1, <1>2, SeqDef
<1>4. Len(Packet(seq, size)) = size
  BY <1>1, <1>3, LenProperties DEF Packet
<1> QED  BY <1>1, <1>3, <1>4, EmptySeq

-----------------------------------------------------------------------------
(* The inductive invariant. *)

\* A socket just opened: idle, both buffers empty, nothing accepted.
LEMMA InitIInv == Init => IInv
<1> SUFFICES ASSUME Init PROVE IInv
  OBVIOUS
<1> USE DEF Init, NotYet, Failed
<1>1. <<>> \in Seq(Byte) /\ <<>> \o <<>> = <<>>
  BY EmptySeq, ConcatEmptySeq
<1>2. TypeOK
  <2>1. garbled \in BOOLEAN /\ open \in BOOLEAN
    OBVIOUS
  <2>2. completion \in NotYet..inFlight /\ inFlight \in Nat
    OBVIOUS
  <2> QED  BY <1>1, <2>1, <2>2 DEF TypeOK
<1>3. Chain /\ HeaderOK
  BY BoundsAssumption DEF Chain, HeaderOK
<1>4. NothingLost
  <2>1. SubSeq(<<>>, 1, 0) = <<>>
    BY SubSeqEmpty
  <2>2. Taken = 0 /\ Len(<<>>) = 0
    BY EmptySeq DEF Taken
  <2>3. SubSeq(m_outBuffer, Taken + 1, Len(m_outBuffer)) = <<>>
    BY <2>1, <2>2
  <2> QED  BY <1>1, <2>3 DEF NothingLost
<1>5. Counted
  BY EmptySeq DEF Counted, Taken
<1> QED  BY <1>2, <1>3, <1>4, <1>5 DEF IInv

\* What is buffered and not yet on the wire, as sequences.
LEMMA Buffered ==
    ASSUME TypeOK, Chain
    PROVE  /\ Len(m_outBuffer) \in Nat
           /\ Taken \in 0..Len(m_outBuffer)
           /\ SubSeq(m_outBuffer, Taken + 1, Len(m_outBuffer)) \in Seq(Byte)
           /\ SubSeq(m_outBuffer, Taken + 1, Len(m_outBuffer)) \o m_secondaryOutBuffer
                \in Seq(Byte)
<1>1. Len(m_outBuffer) \in Nat
  BY LenProperties DEF TypeOK
<1>2. Taken \in 0..Len(m_outBuffer)
  <2>1. CASE completion > 0
    BY <1>1, <2>1 DEF Taken, TypeOK, Chain, NotYet
  <2>2. CASE ~(completion > 0)
    BY <1>1, <2>2 DEF Taken
  <2> QED  BY <2>1, <2>2
<1>3. SubSeq(m_outBuffer, Taken + 1, Len(m_outBuffer)) \in Seq(Byte)
  BY <1>2, Split DEF TypeOK
<1> QED  BY <1>1, <1>2, <1>3, ConcatProperties DEF TypeOK

\* SendPacket encrypting a header touches nothing the socket shares.
LEMMA EncryptIInv ==
    ASSUME IInv, NEW s \in Senders, Encrypt(s)
    PROVE  IInv'
<1> USE DEF Encrypt, writing, async
<1>1. TypeOK'
  BY DEF IInv, TypeOK
<1>2. Chain'
  BY DEF IInv, Chain
<1>3. HeaderOK'
  BY BoundsAssumption DEF IInv, TypeOK, HeaderOK
<1>4. NothingLost' /\ Counted'
  BY DEF IInv, NothingLost, Counted, Taken
<1> QED  BY <1>1, <1>2, <1>3, <1>4 DEF IInv

\* Write appends to the buffer no asio operation reads, and arms the timer
\* only out of Idle, in each of its three states.
LEMMA WriteIInv ==
    ASSUME IInv, NEW s \in Senders, NEW size \in 1..MaxBytes, Write(s, size)
    PROVE  /\ IInv'
           /\ Packet(header[s], size) \in Packets
           /\ accepted' = accepted \o Packet(header[s], size)
<1> DEFINE pct == Packet(header[s], size)
           left == SubSeq(m_outBuffer, Taken + 1, Len(m_outBuffer))
<1> USE DEF IInv
<1>1. pct \in Seq(Byte) /\ pct # <<>>
  BY PacketIsSeq DEF TypeOK
<1>2. pct \in Packets
  <2>1. header[s] \in 0..(MaxPackets - 1)
    BY BoundsAssumption DEF TypeOK, HeaderOK, Write
  <2> QED  BY <2>1 DEF Packets
<1>3. accepted' = accepted \o pct
  BY DEF Write
<1> HIDE DEF pct, left
<1>4. TypeOK'
  <2>1. m_outBuffer' \in Seq(Byte) /\ m_secondaryOutBuffer' \in Seq(Byte)
    <3>1. /\ m_outBuffer' \in {m_outBuffer, m_outBuffer \o pct}
          /\ m_secondaryOutBuffer' \in {m_secondaryOutBuffer, m_secondaryOutBuffer \o pct}
      BY DEF Write, pct
    <3>2. m_outBuffer \o pct \in Seq(Byte) /\ m_secondaryOutBuffer \o pct \in Seq(Byte)
      BY <1>1, ConcatProperties DEF TypeOK
    <3>3. m_outBuffer \in Seq(Byte) /\ m_secondaryOutBuffer \in Seq(Byte)
      BY DEF TypeOK
    <3> QED  BY <3>1, <3>2, <3>3
  <2>2. accepted' \in Seq(Byte)
    BY <1>1, <1>3, ConcatProperties DEF TypeOK
  <2>3. /\ m_writeState' \in {"Idle", "Buffering", "Sending"}
        /\ flushTimer' \in {"off", "waiting", "due"}
    BY DEF TypeOK, Write, StartWriteFlushTimer
  <2> QED  BY <2>1, <2>2, <2>3 DEF TypeOK, Write
<1>5. Chain'
  <2>1. m_outBuffer \o pct # <<>>
    BY <1>1, ConcatEqualIffEmpty DEF TypeOK
  <2> QED  BY <2>1 DEF Chain, TypeOK, Write, StartWriteFlushTimer, pct
<1>6. HeaderOK'
  BY DEF HeaderOK, TypeOK, Write
<1>7. NothingLost'
  <2> SUFFICES ASSUME ~garbled PROVE NothingLost'
    BY DEF NothingLost, Write
  <2>1. Taken' = Taken /\ wire' = wire /\ open' = open
    BY DEF Write, Taken
  <2>2. wire \in Seq(Byte) /\ m_secondaryOutBuffer \in Seq(Byte) /\ m_outBuffer \in Seq(Byte)
    BY DEF TypeOK
  <2>3. left \in Seq(Byte) /\ left \o m_secondaryOutBuffer \in Seq(Byte)
    BY Buffered DEF left
  <2>4. \E rest \in Seq(Byte) : accepted' = wire' \o rest
    <3>1. PICK rest \in Seq(Byte) : accepted = wire \o rest
      BY DEF NothingLost
    <3>2. accepted' = wire \o (rest \o pct)
      <4>1. wire \in Seq(Byte) /\ pct \in Seq(Byte)
        BY <1>1, <2>2
      <4>2. (wire \o rest) \o pct = wire \o (rest \o pct)
        BY <4>1, Regroup3, SMTT(20)
      <4> QED  BY <1>3, <3>1, <4>2
    <3>3. rest \o pct \in Seq(Byte)
      BY <1>1, ConcatProperties
    <3> QED  BY <2>1, <3>2, <3>3
  <2>5. CASE open /\ m_writeState = "Sending"
    <3>1. accepted' = (wire \o (left \o m_secondaryOutBuffer)) \o pct
      BY <1>3, <2>5 DEF NothingLost, left
    <3>2. @ = wire \o (left \o (m_secondaryOutBuffer \o pct))
      <4>1. wire \in Seq(Byte) /\ pct \in Seq(Byte)
        BY <1>1, <2>2
      <4>2. left \in Seq(Byte) /\ m_secondaryOutBuffer \in Seq(Byte) /\ pct \in Seq(Byte)
        BY <1>1, <2>2, <2>3
      <4>3. PICK both \in Seq(Byte) : both = left \o m_secondaryOutBuffer
        BY <2>3
      <4>4. (wire \o both) \o pct = wire \o (both \o pct)
        BY <4>1, Regroup3, SMTT(20)
      <4>5. (left \o m_secondaryOutBuffer) \o pct = left \o (m_secondaryOutBuffer \o pct)
        BY <4>2, Regroup3, SMTT(20)
      <4> QED  BY <4>3, <4>4, <4>5
    <3>3. m_secondaryOutBuffer' = m_secondaryOutBuffer \o pct /\ m_outBuffer' = m_outBuffer
      BY <2>5 DEF Write, pct
    <3> QED  BY <2>1, <2>4, <3>1, <3>2, <3>3 DEF NothingLost, left
  <2>6. CASE open /\ m_writeState # "Sending"
    <3>1. Taken = 0 /\ m_secondaryOutBuffer = <<>>
      BY <2>6 DEF Chain, TypeOK, Taken, NotYet
    <3>2. left = m_outBuffer
      BY <2>2, <3>1, SubSeqFull DEF left
    <3>3. accepted = wire \o m_outBuffer
      BY <2>2, <2>6, <3>1, <3>2, ConcatEmptySeq DEF NothingLost, left
    <3>4. accepted' = wire \o (m_outBuffer \o pct)
      <4>1. wire \in Seq(Byte) /\ m_outBuffer \in Seq(Byte) /\ pct \in Seq(Byte)
        BY <1>1, <2>2
      <4>2. (wire \o m_outBuffer) \o pct = wire \o (m_outBuffer \o pct)
        BY <4>1, Regroup3, SMTT(20)
      <4> QED  BY <1>3, <3>3, <4>2
    <3>5. m_outBuffer' = m_outBuffer \o pct /\ m_secondaryOutBuffer' = <<>>
      BY <2>6, <3>1 DEF Write, pct
    <3>6. m_outBuffer' \in Seq(Byte)
      BY <1>4 DEF TypeOK
    <3>7. SubSeq(m_outBuffer', Taken' + 1, Len(m_outBuffer')) \o m_secondaryOutBuffer'
            = m_outBuffer'
      BY <2>1, <3>1, <3>5, <3>6, SubSeqFull, ConcatEmptySeq
    <3> QED  BY <2>1, <2>4, <3>4, <3>5, <3>7 DEF NothingLost
  <2> QED  BY <2>1, <2>4, <2>5, <2>6 DEF NothingLost
<1>8. Counted'
  <2>1. Len(accepted') = Len(accepted) + Len(pct) /\ Len(pct) \in Nat
    BY <1>1, <1>3, ConcatProperties, LenProperties DEF TypeOK
  <2>2. Len(m_outBuffer') + Len(m_secondaryOutBuffer')
          = Len(m_outBuffer) + Len(m_secondaryOutBuffer) + Len(pct)
    <3>1. /\ Len(m_outBuffer \o pct) = Len(m_outBuffer) + Len(pct)
          /\ Len(m_secondaryOutBuffer \o pct) = Len(m_secondaryOutBuffer) + Len(pct)
          /\ Len(m_outBuffer) \in Nat /\ Len(m_secondaryOutBuffer) \in Nat
      BY <1>1, ConcatProperties, LenProperties DEF TypeOK
    <3>2. \/ m_outBuffer' = m_outBuffer \o pct /\ m_secondaryOutBuffer' = m_secondaryOutBuffer
          \/ m_outBuffer' = m_outBuffer /\ m_secondaryOutBuffer' = m_secondaryOutBuffer \o pct
      BY DEF Write, pct
    <3> QED  BY <2>1, <3>1, <3>2
  <2>3. Taken' = Taken /\ UNCHANGED <<wire, open, handler>>
    BY DEF Write, Taken
  <2>4. /\ Len(wire) \in Nat /\ Len(accepted) \in Nat /\ Taken \in Nat
        /\ Len(m_outBuffer) \in Nat /\ Len(m_secondaryOutBuffer) \in Nat
        /\ Len(m_outBuffer') \in Nat /\ Len(m_secondaryOutBuffer') \in Nat
    BY <1>4, LenProperties DEF TypeOK, Taken
  <2>5. Len(wire) <= Len(accepted')
    BY <2>1, <2>4 DEF Counted
  <2>6. ASSUME open \/ handler = "OnWriteComplete"
        PROVE  Len(accepted') = Len(wire) + (Len(m_outBuffer') - Taken) + Len(m_secondaryOutBuffer')
    <3>1. Len(accepted) = Len(wire) + (Len(m_outBuffer) - Taken) + Len(m_secondaryOutBuffer)
      BY <2>6 DEF Counted
    <3> QED  BY <3>1, <2>1, <2>2, <2>4, SMTT(20)
  <2> QED  BY <2>3, <2>5, <2>6 DEF Counted
<1> QED  BY <1>2, <1>3, <1>4, <1>5, <1>6, <1>7, <1>8 DEF pct

\* The flush a thread asks for on leaving SendPacket finds data to send.
LEMMA ReturnIInv ==
    ASSUME IInv, NEW s \in Senders, NEW immediate \in BOOLEAN, Return(s, immediate)
    PROVE  IInv'
<1> USE DEF Return, writing
<1>1. TypeOK'
  BY DEF IInv, TypeOK
<1>2. Chain'
  BY DEF IInv, Chain
<1>3. HeaderOK' /\ NothingLost' /\ Counted'
  BY DEF IInv, TypeOK, HeaderOK, NothingLost, Counted, Taken
<1> QED  BY <1>1, <1>2, <1>3 DEF IInv

\* Close only cancels: the state and the buffers stay for the handlers that
\* are still to run.
LEMMA CloseIInv ==
    ASSUME IInv, Close
    PROVE  IInv'
<1> USE DEF Close, writing, async, sending
<1>1. TypeOK' /\ Chain' /\ HeaderOK'
  BY DEF IInv, TypeOK, Chain, HeaderOK
<1>2. NothingLost' /\ Counted'
  BY DEF IInv, NothingLost, Counted, Taken
<1> QED  BY <1>1, <1>2 DEF IInv

\* The timer coming due is still the one continuation.
LEMMA TimerIInv ==
    ASSUME IInv, TimerExpires
    PROVE  IInv'
<1> USE DEF TimerExpires, writing, sending
<1>1. TypeOK' /\ Chain' /\ HeaderOK'
  BY DEF IInv, TypeOK, Chain, HeaderOK
<1>2. NothingLost' /\ Counted'
  BY DEF IInv, NothingLost, Counted, Taken
<1> QED  BY <1>1, <1>2 DEF IInv

\* A write that fails leaves its bytes in the primary buffer, not on the wire.
LEMMA WriteFailsIInv ==
    ASSUME IInv, WriteFails
    PROVE  IInv'
<1> USE DEF WriteFails, writing, sending, NotYet, Failed
<1>1. TypeOK'
  BY DEF IInv, TypeOK
<1>2. Chain' /\ HeaderOK'
  BY DEF IInv, TypeOK, Chain, HeaderOK
<1>3. NothingLost' /\ Counted'
  <2>1. Taken = 0 /\ Taken' = 0
    BY DEF Taken
  <2> QED  BY <2>1 DEF IInv, NothingLost, Counted
<1> QED  BY <1>1, <1>2, <1>3 DEF IInv

\* The bytes asio takes are the front of the primary buffer.
LEMMA WriteSomeIInv ==
    ASSUME IInv, NEW n \in 1..inFlight, WriteSome(n)
    PROVE  /\ IInv'
           /\ Len(wire') = Len(wire) + n
           /\ SubSeq(wire', 1, Len(wire)) = wire
           /\ Len(wire) + n \in 1..Len(accepted)
           /\ ~garbled => wire' = SubSeq(accepted, 1, Len(wire) + n)
<1> DEFINE sent == SubSeq(m_outBuffer, 1, n)
           left == SubSeq(m_outBuffer, n + 1, Len(m_outBuffer))
<1> USE DEF IInv
<1>1. /\ Len(m_outBuffer) \in Nat
      /\ n \in 1..Len(m_outBuffer)
      /\ Taken = 0
      /\ wire \in Seq(Byte) /\ m_secondaryOutBuffer \in Seq(Byte) /\ m_outBuffer \in Seq(Byte)
  BY LenProperties DEF TypeOK, Chain, WriteSome, Taken, NotYet
<1>2. /\ sent \in Seq(Byte) /\ left \in Seq(Byte)
      /\ Len(sent) = n
      /\ m_outBuffer = sent \o left
  BY <1>1, Split
<1> HIDE DEF sent, left
<1>3. /\ wire \o sent \in Seq(Byte)
      /\ Len(wire \o sent) = Len(wire) + n
      /\ left \o m_secondaryOutBuffer \in Seq(Byte)
      /\ Len(left \o m_secondaryOutBuffer) \in Nat
      /\ Len(wire) \in Nat
  BY <1>1, <1>2, ConcatProperties, LenProperties
<1>4. ASSUME ~garbled
      PROVE  accepted = (wire \o sent) \o (left \o m_secondaryOutBuffer)
  <2>1. accepted = wire \o ((sent \o left) \o m_secondaryOutBuffer)
    <3>1. SubSeq(m_outBuffer, Taken + 1, Len(m_outBuffer)) = m_outBuffer
      BY <1>1, SubSeqFull
    <3> QED  BY <1>2, <1>4, <3>1 DEF NothingLost, WriteSome
  <2>2. /\ wire \in Seq(Byte) /\ m_secondaryOutBuffer \in Seq(Byte)
        /\ sent \in Seq(Byte) /\ left \in Seq(Byte)
    BY <1>1, <1>2
  <2>3. wire \o ((sent \o left) \o m_secondaryOutBuffer)
          = (wire \o sent) \o (left \o m_secondaryOutBuffer)
    <3>1. wire \in Seq(Byte) /\ sent \in Seq(Byte)
      BY <2>2
    <3>2. PICK behind \in Seq(Byte) : behind = left \o m_secondaryOutBuffer
      BY <1>3
    <3>3. (sent \o left) \o m_secondaryOutBuffer = sent \o (left \o m_secondaryOutBuffer)
      <4>1. sent \in Seq(Byte) /\ left \in Seq(Byte) /\ m_secondaryOutBuffer \in Seq(Byte)
        BY <2>2
      <4> QED  BY <4>1, Regroup3, SMTT(20)
    <3>4. (wire \o sent) \o behind = wire \o (sent \o behind)
      BY <3>1, Regroup3, SMTT(20)
    <3> QED  BY <3>2, <3>3, <3>4
  <2> QED  BY <2>1, <2>3
<1>5. /\ wire' = wire \o sent
      /\ UNCHANGED <<m_outBuffer, m_secondaryOutBuffer, accepted, open, garbled>>
  BY DEF WriteSome, writing, sent
<1>6. ~garbled => wire' = SubSeq(accepted, 1, Len(wire) + n)
  BY <1>3, <1>4, <1>5, Prefix
<1>7. Len(wire) + n \in 1..Len(accepted)
  <2>1. Len(accepted) = Len(wire) + Len(m_outBuffer) + Len(m_secondaryOutBuffer)
    BY <1>1 DEF Counted, WriteSome
  <2>2. Len(m_secondaryOutBuffer) \in Nat
    BY <1>1, LenProperties
  <2> QED  BY <1>1, <1>3, <2>1, <2>2
<1>8. TypeOK'
  BY <1>1, <1>3, <1>5 DEF TypeOK, WriteSome, writing, sending, NotYet
<1>9. Chain' /\ HeaderOK'
  BY <1>1 DEF Chain, HeaderOK, TypeOK, WriteSome, writing, sending, NotYet
<1>10. NothingLost' /\ Counted'
  <2>1. Taken' = n
    BY <1>1 DEF Taken, WriteSome
  <2>2. NothingLost'
    BY <1>3, <1>4, <1>5, <2>1 DEF NothingLost, left
  <2>3. Len(wire') = Len(wire) + n /\ Len(m_secondaryOutBuffer) \in Nat /\ Len(accepted) \in Nat
    BY <1>1, <1>3, <1>5, LenProperties DEF TypeOK
  <2>4. Len(accepted) = Len(wire) + Len(m_outBuffer) + Len(m_secondaryOutBuffer)
    BY <1>1 DEF Counted, WriteSome
  <2>5. Len(m_outBuffer') = Len(m_outBuffer) /\ Len(accepted') = Len(accepted)
        /\ Len(m_secondaryOutBuffer') = Len(m_secondaryOutBuffer)
    BY <1>5
  <2>6. Counted'
    BY <1>1, <1>3, <2>1, <2>3, <2>4, <2>5 DEF Counted
  <2> QED  BY <2>2, <2>6
<1>11. Len(wire') = Len(wire) + n /\ SubSeq(wire', 1, Len(wire)) = wire
  BY <1>1, <1>2, <1>3, <1>5, Prefix
<1> QED  BY <1>6, <1>7, <1>8, <1>9, <1>10, <1>11

\* FlushOut up to the lock: the timer hands over to the handler.
LEMMA FlushOutIInv ==
    ASSUME IInv, FlushOut
    PROVE  IInv'
<1> USE DEF IInv, FlushOut, NetThreadFree, sending
<1>1. TypeOK'
  BY DEF TypeOK
<1>2. Chain' /\ HeaderOK'
  BY DEF TypeOK, Chain, HeaderOK
<1>3. NothingLost' /\ Counted'
  BY DEF NothingLost, Counted, Taken
<1> QED  BY <1>1, <1>2, <1>3

\* OnWriteComplete up to the lock: an error closes, a success goes on.
LEMMA OnWriteCompleteIInv ==
    ASSUME IInv, OnWriteComplete
    PROVE  IInv'
<1> USE DEF IInv, NetThreadFree, sending, NotYet, Failed
<1>1. CASE completion # Failed /\ open
  <2>1. TypeOK' /\ Chain' /\ HeaderOK'
    BY <1>1 DEF OnWriteComplete, TypeOK, Chain, HeaderOK
  <2>2. NothingLost' /\ Counted'
    BY <1>1 DEF OnWriteComplete, NothingLost, Counted, Taken
  <2> QED  BY <2>1, <2>2
<1>2. CASE ~(completion # Failed /\ open)
  <2>1. TypeOK'
    <3>1. /\ open' = FALSE /\ inFlight' = 0 /\ completion' = NotYet
          /\ m_writeState' \in {m_writeState, "Idle"}
          /\ UNCHANGED <<m_outBuffer, m_secondaryOutBuffer, flushTimer, handler, senderPc,
                         header, cipher, accepted, wire, garbled>>
      BY <1>2 DEF OnWriteComplete
    <3>2. m_writeState' \in {"Idle", "Buffering", "Sending"}
      BY <3>1 DEF TypeOK
    <3>3. completion' \in NotYet..inFlight'
      BY <3>1
    <3> QED  BY <3>1, <3>2, <3>3 DEF TypeOK
  <2>2. Chain' /\ HeaderOK'
    BY <1>2 DEF OnWriteComplete, TypeOK, Chain, HeaderOK
  <2>3. NothingLost' /\ Counted'
    BY <1>2 DEF OnWriteComplete, NothingLost, Counted
  <2> QED  BY <2>1, <2>2, <2>3
<1> QED  BY <1>1, <1>2

\* FlushOut under the lock starts the only write, of the whole buffer.
LEMMA FlushOutLockedIInv ==
    ASSUME IInv, FlushOutLocked
    PROVE  IInv'
<1> USE DEF IInv, FlushOutLocked, sending, NotYet
<1>1. Len(m_outBuffer) \in Nat /\ Len(m_outBuffer) > 0
  BY EmptySeq, LenProperties DEF TypeOK, Chain
<1>2. TypeOK'
  BY <1>1 DEF TypeOK
<1>3. Chain'
  BY <1>1 DEF TypeOK, Chain
<1>4. HeaderOK'
  BY DEF HeaderOK
<1>5. NothingLost' /\ Counted'
  <2>1. Taken' = Taken
    BY DEF TypeOK, Chain, Taken
  <2> QED  BY <2>1 DEF NothingLost, Counted
<1> QED  BY <1>2, <1>3, <1>4, <1>5

\* What the memcpy leaves is as long as the rest.
LEMMA MovedRest ==
    ASSUME IInv, handler = "OnWriteComplete", NEW rest \in Moved
    PROVE  /\ Rest \in Seq(Byte) /\ rest \in Seq(Byte)
           /\ Taken = completion
           /\ Len(m_outBuffer) \in Nat /\ completion \in 1..Len(m_outBuffer)
           /\ Len(Rest) = Len(m_outBuffer) - completion /\ Len(rest) = Len(Rest)
           /\ rest # Rest => Len(Rest) > completion
<1> USE DEF IInv
<1>1. completion > 0 /\ Taken = completion /\ Len(m_outBuffer) \in Nat
  BY Buffered DEF Chain, Taken
<1>2. completion \in 1..Len(m_outBuffer)
  BY <1>1, Buffered DEF TypeOK
<1>3. Rest \in Seq(Byte) /\ Len(Rest) = Len(m_outBuffer) - completion
  BY <1>2, Split DEF Rest, TypeOK
<1>4. CASE rest = Rest
  BY <1>1, <1>2, <1>3, <1>4
<1>5. CASE rest = FromTheEnd /\ Len(Rest) > completion
  <2> DEFINE at(j) == Len(Rest) + 1 + ((j - Len(Rest) - 1) % completion)
  <2>1. ASSUME NEW j \in 1..Len(Rest) PROVE m_outBuffer[at(j)] \in Byte
    <3>1. completion \in Nat /\ completion > 0 /\ j - Len(Rest) - 1 \in Int
      BY <1>1, <1>2, <1>3
    <3>2. (j - Len(Rest) - 1) % completion \in 0..(completion - 1)
      BY <3>1
    <3>3. at(j) \in 1..Len(m_outBuffer)
      BY <1>1, <1>2, <1>3, <3>2
    <3> QED  BY <3>3, ElementOfSeq DEF TypeOK
  <2>2. FromTheEnd \in [1..Len(Rest) -> Byte]
    BY <2>1 DEF FromTheEnd
  <2>3. Len(Rest) \in Nat
    BY <1>3, LenProperties
  <2>4. FromTheEnd \in Seq(Byte)
    BY <2>2, <2>3, SeqDef
  <2>5. Len(FromTheEnd) = Len(Rest)
    BY <2>2, <2>3, <2>4, LenProperties
  <2> QED  BY <1>1, <1>2, <1>3, <1>5, <2>4, <2>5
<1> QED  BY <1>4, <1>5 DEF Moved

\* OnWriteComplete under the lock drops what was written, swaps in the
\* secondary buffer and writes on, or goes idle when nothing is left.  It may
\* spoil bytes only where two or more are not yet on the wire.
LEMMA OnWriteCompleteLockedIInv ==
    ASSUME IInv, OnWriteCompleteLocked
    PROVE  /\ IInv'
           /\ garbled' # garbled =>
                ~garbled /\ garbled' = TRUE /\ Len(accepted) > Len(wire) + 1
<1> USE DEF IInv, OnWriteCompleteLocked, sending, NotYet
<1>0. PICK rest \in Moved :
        /\ m_outBuffer' = Remaining(rest)
        /\ m_writeState' = IF Remaining(rest) = <<>> THEN "Idle" ELSE m_writeState
        /\ inFlight' = Len(Remaining(rest))
        /\ garbled' = (garbled \/ rest # Rest)
  OBVIOUS
<1> DEFINE all == Remaining(rest)
<1>1. /\ all \in Seq(Byte) /\ Len(all) \in Nat /\ Taken = completion
      /\ Len(all) = Len(m_outBuffer) - completion + Len(m_secondaryOutBuffer)
      /\ Len(m_outBuffer) \in Nat /\ Len(m_secondaryOutBuffer) \in Nat
      /\ completion \in 1..Len(m_outBuffer)
  <2>1. /\ rest \in Seq(Byte) /\ m_secondaryOutBuffer \in Seq(Byte)
        /\ Taken = completion
        /\ Len(m_outBuffer) \in Nat /\ completion \in 1..Len(m_outBuffer)
        /\ Len(rest) = Len(m_outBuffer) - completion
    BY MovedRest DEF TypeOK
  <2>2. Len(m_secondaryOutBuffer) \in Nat
    BY <2>1, LenProperties
  <2>3. /\ all \in Seq(Byte)
        /\ Len(all) = Len(rest) + Len(m_secondaryOutBuffer)
    BY <2>1, ConcatProperties DEF Remaining
  <2> QED  BY <2>1, <2>2, <2>3
<1> HIDE DEF all
<1>2. Len(all) = 0 <=> all = <<>>
  BY <1>1, EmptySeq
<1>3. TypeOK'
  BY <1>0, <1>1, EmptySeq DEF TypeOK, all
<1>4. Chain'
  BY <1>0, <1>1, <1>2 DEF TypeOK, Chain, all
<1>5. HeaderOK'
  BY DEF HeaderOK
<1>6. Taken' = 0
  BY DEF Taken
<1>7. NothingLost'
  <2> SUFFICES ASSUME ~garbled' PROVE NothingLost'
    BY DEF NothingLost
  <2>1. ~garbled /\ rest = Rest
    BY <1>0
  <2>2. SubSeq(all, 1, Len(all)) \o <<>> = all
    BY <1>1, SubSeqFull, ConcatEmptySeq
  <2>3. open => accepted = wire \o all
    <3>1. Taken = completion /\ all = Rest \o m_secondaryOutBuffer
      BY <1>1, <2>1 DEF Remaining, all
    <3>2. Rest = SubSeq(m_outBuffer, Taken + 1, Len(m_outBuffer))
      BY <3>1 DEF Rest
    <3> QED  BY <2>1, <3>1, <3>2 DEF NothingLost
  <2>4. \E more \in Seq(Byte) : accepted = wire \o more
    BY <2>1 DEF NothingLost
  <2>5. SubSeq(m_outBuffer', Taken' + 1, Len(m_outBuffer')) \o m_secondaryOutBuffer' = all
    BY <1>0, <1>6, <2>2 DEF all
  <2>6. UNCHANGED <<accepted, wire, open>>
    OBVIOUS
  <2> QED
    <3> HIDE DEF OnWriteCompleteLocked, IInv
    <3> QED  BY <2>3, <2>4, <2>5, <2>6 DEF NothingLost
<1>8. /\ Len(wire) \in Nat /\ Len(accepted) \in Nat
      /\ Len(accepted) = Len(wire) + Len(all)
  BY <1>1, LenProperties DEF Counted, TypeOK
<1>9. Counted'
  BY <1>0, <1>1, <1>6, <1>8, EmptySeq DEF Counted, all
<1>10. garbled' # garbled => ~garbled /\ garbled' = TRUE /\ Len(accepted) > Len(wire) + 1
  <2> SUFFICES ASSUME garbled' # garbled PROVE ~garbled /\ garbled' = TRUE /\ Len(accepted) > Len(wire) + 1
    OBVIOUS
  <2>1. ~garbled /\ rest # Rest /\ garbled' = TRUE
    BY <1>0 DEF TypeOK
  <2>2. Len(Rest) > completion /\ Len(Rest) = Len(m_outBuffer) - completion
    BY <2>1, MovedRest
  <2> QED  BY <1>1, <1>8, <2>1, <2>2
<1> QED  BY <1>3, <1>4, <1>5, <1>7, <1>9, <1>10

\* Every step of the socket preserves the inductive invariant.
LEMMA NextIInv == IInv /\ [Next]_vars => IInv'
<1> SUFFICES ASSUME IInv, [Next]_vars PROVE IInv'
  OBVIOUS
<1>1. ASSUME NEW s \in Senders, Encrypt(s) PROVE IInv'
  BY <1>1, EncryptIInv
<1>2. ASSUME NEW s \in Senders, NEW size \in 1..MaxBytes, Write(s, size) PROVE IInv'
  BY <1>2, WriteIInv
<1>3. ASSUME NEW s \in Senders, NEW immediate \in BOOLEAN, Return(s, immediate) PROVE IInv'
  BY <1>3, ReturnIInv
<1>4. CASE Close \/ TimerExpires \/ WriteFails
  BY <1>4, CloseIInv, TimerIInv, WriteFailsIInv
<1>5. ASSUME NEW n \in 1..inFlight, WriteSome(n) PROVE IInv'
  BY <1>5, WriteSomeIInv
<1>6. CASE FlushOut \/ OnWriteComplete
  BY <1>6, FlushOutIInv, OnWriteCompleteIInv
<1>7. CASE FlushOutLocked
  BY <1>7, FlushOutLockedIInv
<1>8. CASE OnWriteCompleteLocked
  BY <1>8, OnWriteCompleteLockedIInv
<1>9. CASE UNCHANGED vars
  BY <1>9 DEF vars, writing, async, sending, IInv, TypeOK, Chain, HeaderOK, Counted,
              NothingLost, Taken
<1> QED  BY <1>1, <1>2, <1>3, <1>4, <1>5, <1>6, <1>7, <1>8, <1>9 DEF Next

\* The inductive invariant holds in every reachable state.
THEOREM Invariance == Spec => []IInv
<1> QED  BY InitIInv, NextIInv, PTL DEF Spec

-----------------------------------------------------------------------------
(* What follows from it. *)

\* Every variable keeps its type; in particular a completion never reports
\* more bytes than were handed to async_write_some.
THEOREM TypeCorrect == Spec => []TypeOK
<1>1. IInv => TypeOK
  BY DEF IInv
<1> QED  BY <1>1, Invariance, PTL

\* The assertions of FlushOut and OnWriteComplete never fail, on an open or
\* a closed socket, with any number of threads calling Write and Close.
THEOREM HandlerAssertsHold == Spec => []HandlerAsserts
<1>1. IInv => HandlerAsserts
  BY DEF IInv, TypeOK, Chain, HandlerAsserts
<1> QED  BY <1>1, Invariance, PTL

\* The memory given to asio is not touched while the write is pending.
THEOREM PrimaryStaysFrozen == Spec => []PrimaryFrozen
<1>1. IInv => PrimaryFrozen
  BY DEF IInv, Chain, PrimaryFrozen
<1> QED  BY <1>1, Invariance, PTL

\* On an open socket buffered data has exactly one continuation.
THEOREM OneContinuationHolds == Spec => []OneContinuation
<1>1. IInv => OneContinuation
  <2> SUFFICES ASSUME IInv, open PROVE OneContinuation
    BY DEF OneContinuation
  <2> USE DEF IInv, TypeOK, Chain
  <2>1. CASE m_writeState = "Idle"
    BY <2>1 DEF OneContinuation, Continuations
  <2>2. CASE m_writeState = "Buffering"
    <3>1. m_secondaryOutBuffer = <<>> /\ ~(inFlight > 0)
      BY <2>2
    <3>2. CASE flushTimer # "off"
      <4>1. Continuations = {"timer"}
        BY <3>1, <3>2 DEF Continuations
      <4> QED  BY <2>2, <3>1, <4>1 DEF OneContinuation
    <3>3. CASE flushTimer = "off"
      <4>1. Continuations = {"flush"}
        BY <2>2, <3>1, <3>3 DEF Continuations
      <4> QED  BY <2>2, <3>1, <4>1 DEF OneContinuation
    <3> QED  BY <3>2, <3>3
  <2>3. CASE m_writeState = "Sending"
    <3>1. Continuations = {"write"}
      BY <2>3 DEF Continuations
    <3> QED  BY <2>3, <3>1 DEF OneContinuation
  <2> QED  BY <2>1, <2>2, <2>3
<1> QED  BY <1>1, Invariance, PTL

\* The write half implements the stream: whatever the threads, the partial
\* writes and the moment of Close, the peer receives a prefix of the bytes in
\* the order in which Write took them.
THEOREM ImplementsStream == Spec => StreamSpec
<1>1. Init => Stream!Init
  BY DEF Init, Stream!Init
<1>2. IInv /\ [Next]_vars => [Stream!Next]_(Stream!vars)
  <2> SUFFICES ASSUME IInv, [Next]_vars PROVE [Stream!Next]_(Stream!vars)
    OBVIOUS
  <2> USE DEF Stream!vars, Stream!Next
  <2>1. ASSUME NEW s \in Senders, Encrypt(s) PROVE UNCHANGED Stream!vars
    BY <2>1 DEF Encrypt
  <2>2. ASSUME NEW s \in Senders, NEW size \in 1..MaxBytes, Write(s, size)
        PROVE  Stream!Next
    BY <2>2, WriteIInv DEF Stream!Put, Write
  <2>3. ASSUME NEW s \in Senders, NEW immediate \in BOOLEAN, Return(s, immediate)
        PROVE  UNCHANGED Stream!vars
    BY <2>3 DEF Return
  <2>4. CASE Close
    BY <2>4 DEF Close, Stream!Shut
  <2>5. ASSUME NEW n \in 1..inFlight, WriteSome(n) PROVE Stream!Next
    <3>1. Len(wire) \in Nat /\ n > 0 /\ Len(wire) + n > Len(wire)
      BY LenProperties DEF IInv, TypeOK
    <3>2. Stream!Deliver(Len(wire) + n)
      BY <2>5, <3>1, WriteSomeIInv DEF Stream!Deliver, WriteSome
    <3> QED  BY <2>5, <3>2, WriteSomeIInv
  <2>6. CASE OnWriteComplete
    BY <2>6 DEF OnWriteComplete, Stream!Shut, IInv, TypeOK
  <2>7. CASE TimerExpires \/ WriteFails \/ FlushOut \/ FlushOutLocked
    BY <2>7 DEF TimerExpires, WriteFails, FlushOut, FlushOutLocked
  <2>8. CASE UNCHANGED vars
    BY <2>8 DEF vars
  <2>9. CASE OnWriteCompleteLocked
    <3>1. UNCHANGED <<accepted, wire, open>>
      BY <2>9 DEF OnWriteCompleteLocked
    <3>2. CASE garbled' = garbled
      BY <3>1, <3>2
    <3>3. CASE garbled' # garbled
      BY <2>9, <3>1, <3>3, OnWriteCompleteLockedIInv DEF Stream!Spoil
    <3> QED  BY <3>2, <3>3
  <2> QED  BY <2>1, <2>2, <2>3, <2>4, <2>5, <2>6, <2>7, <2>8, <2>9 DEF Next
<1> QED  BY <1>1, <1>2, Invariance, PTL DEF Spec, StreamSpec, Stream!Spec

-----------------------------------------------------------------------------
(* Drains, without the fairness: how far the next byte is from the wire. *)

\* Bytes are written that the peer has not got, on an open socket.
Unsent == open /\ Len(wire) < Len(accepted)

\* How many steps of the timer, the kernel and the handlers the next byte is
\* from the wire, or from the error that closes the socket.
StepsToWire ==
    IF flushTimer # "off" THEN (IF flushTimer = "waiting" THEN 5 ELSE 4)
    ELSE IF handler # "none" THEN 3
    ELSE IF completion > 0 THEN 4
    ELSE IF inFlight > 0 THEN (IF completion = NotYet THEN 2 ELSE 1)
    ELSE 0

\* The steps that carry the data on; the others belong to the senders.
Carries ==
    \/ TimerExpires \/ FlushOut \/ FlushOutLocked \/ OnWriteComplete \/ OnWriteCompleteLocked
    \/ WriteFails
    \/ \E n \in 1..inFlight : WriteSome(n)

\* While bytes are unsent somebody is to carry them on, and nothing but the
\* network thread's own SendPacket can hold him up; each such step puts bytes
\* on the wire, closes the socket or brings the next byte a step nearer, and
\* no other step sets it back.
DrainAdvances ==
    Unsent =>
        /\ StepsToWire \in 1..5
        /\ handler # "none" => senderPc[NetThread] = "idle"
        /\ Len(wire') > Len(wire) \/ ~open' \/ StepsToWire' <= StepsToWire
        /\ Carries => Len(wire') > Len(wire) \/ ~open' \/ StepsToWire' < StepsToWire

\* A handler runs only while the network thread is not inside SendPacket.
NetThreadOnce == handler # "none" => senderPc[NetThread] = "idle"

\* Holds by the guards of the handlers and of the network thread's Encrypt.
LEMMA OneAtATime == Spec => []NetThreadOnce
<1>1. Init => NetThreadOnce
  BY DEF Init, NetThreadOnce
<1>2. IInv /\ NetThreadOnce /\ [Next]_vars => NetThreadOnce'
  <2> SUFFICES ASSUME IInv, NetThreadOnce, [Next]_vars PROVE NetThreadOnce'
    OBVIOUS
  <2> USE SendersAssumption DEF IInv, TypeOK, NetThreadOnce
  <2>1. ASSUME NEW s \in Senders, Encrypt(s) PROVE NetThreadOnce'
    BY <2>1 DEF Encrypt, async
  <2>2. ASSUME NEW s \in Senders, NEW size \in 1..MaxBytes, Write(s, size) PROVE NetThreadOnce'
    BY <2>2 DEF Write
  <2>3. ASSUME NEW s \in Senders, NEW immediate \in BOOLEAN, Return(s, immediate)
        PROVE  NetThreadOnce'
    BY <2>3 DEF Return
  <2>4. CASE Close \/ TimerExpires \/ WriteFails \/ \E n \in 1..inFlight : WriteSome(n)
    BY <2>4 DEF Close, TimerExpires, WriteFails, WriteSome, async, sending
  <2>5. CASE FlushOut \/ FlushOutLocked
    BY <2>5 DEF FlushOut, FlushOutLocked, NetThreadFree, sending
  <2>6. CASE OnWriteComplete \/ OnWriteCompleteLocked
    BY <2>6 DEF OnWriteComplete, OnWriteCompleteLocked, NetThreadFree, sending
  <2>7. CASE UNCHANGED vars
    BY <2>7 DEF vars, async, sending
  <2> QED  BY <2>1, <2>2, <2>3, <2>4, <2>5, <2>6, <2>7 DEF Next
<1> QED  BY <1>1, <1>2, Invariance, PTL DEF Spec

\* What is unsent is in the buffers, so somebody carries it.
LEMMA Carried ==
    ASSUME IInv, Unsent
    PROVE  /\ StepsToWire \in 1..5
           /\ m_writeState # "Idle"
           /\ handler = "OnWriteComplete" => \A rest \in Moved : Remaining(rest) # <<>>
<1> USE DEF IInv
<1>1. /\ Len(wire) \in Nat /\ Len(m_outBuffer) \in Nat /\ Len(m_secondaryOutBuffer) \in Nat
      /\ Len(m_outBuffer) - Taken + Len(m_secondaryOutBuffer) > 0
  BY Buffered, LenProperties DEF Unsent, Counted, TypeOK
<1>3. ASSUME handler = "OnWriteComplete", NEW rest \in Moved PROVE Remaining(rest) # <<>>
  <2>1. /\ rest \in Seq(Byte) /\ m_secondaryOutBuffer \in Seq(Byte)
        /\ Len(rest) = Len(m_outBuffer) - Taken
    BY <1>3, MovedRest DEF TypeOK
  <2>2. Len(Remaining(rest)) > 0
    BY <1>1, <2>1, ConcatProperties DEF Remaining
  <2> QED  BY <2>2, EmptySeq
<1>4. m_writeState # "Idle"
  <2> SUFFICES ASSUME m_writeState = "Idle" PROVE FALSE
    OBVIOUS
  <2>1. m_outBuffer = <<>> /\ m_secondaryOutBuffer = <<>> /\ inFlight = 0
    BY DEF Unsent, Chain, TypeOK
  <2>2. Taken = 0 /\ Len(<<>>) = 0
    BY <2>1, EmptySeq DEF Taken, TypeOK, NotYet
  <2> QED  BY <1>1, <2>1, <2>2
<1>5. StepsToWire \in 1..5
  <2>1. CASE m_writeState = "Buffering"
    BY <2>1 DEF TypeOK, Chain, StepsToWire
  <2>2. CASE m_writeState = "Sending"
    <3>1. inFlight > 0 /\ flushTimer = "off" /\ handler # "FlushOut"
      BY <2>2 DEF TypeOK, Chain, Unsent
    <3>2. completion > 0 \/ completion = NotYet \/ completion = Failed
      BY DEF TypeOK, NotYet, Failed
    <3> QED  BY <3>1, <3>2 DEF StepsToWire
  <2> QED  BY <1>4, <2>1, <2>2 DEF TypeOK
<1> QED  BY <1>3, <1>4, <1>5

\* Bytes written are never left lying: from the moment Write takes a byte,
\* the timer, FlushOut, the kernel or OnWriteComplete is to take the next
\* step, and at most five of their steps put more bytes on the wire or meet
\* an error, after which the socket is closed.  Drains lacks only that the
\* steps are taken, which the fairness says.
THEOREM DrainOnlyAdvances == Spec => [][DrainAdvances]_vars
<1>1. IInv /\ NetThreadOnce /\ [Next]_vars => [DrainAdvances]_vars
  <2> SUFFICES ASSUME IInv, NetThreadOnce, Next, Unsent PROVE DrainAdvances
    BY DEF DrainAdvances
  <2> DEFINE Goal == Len(wire') > Len(wire) \/ ~open' \/ StepsToWire' < StepsToWire
             Kept == Len(wire') > Len(wire) \/ ~open' \/ StepsToWire' <= StepsToWire
  <2>1. /\ StepsToWire \in 1..5
        /\ m_writeState # "Idle"
        /\ handler = "OnWriteComplete" => \A rest \in Moved : Remaining(rest) # <<>>
    BY Carried
  <2>2. TypeOK /\ Chain
    BY DEF IInv
  <2>3. Kept /\ (Carries => Goal)
    <3>0. Goal => Kept /\ (Carries => Goal)
      <4>1. StepsToWire' \in 0..5
        BY DEF StepsToWire
      <4> QED  BY <2>1, <4>1
    <3>1. ASSUME NEW s \in Senders, Encrypt(s) PROVE Kept /\ ~Carries
      <4>1. UNCHANGED <<flushTimer, inFlight, completion, handler>>
        BY <3>1 DEF Encrypt, async
      <4>2. senderPc' # senderPc
        BY <2>2, <3>1 DEF Encrypt, TypeOK
      <4>3. ~Carries
        BY <4>2 DEF Carries, TimerExpires, FlushOut, FlushOutLocked, OnWriteComplete,
                    OnWriteCompleteLocked, WriteFails, WriteSome, sending
      <4> QED  BY <2>1, <4>1, <4>3 DEF StepsToWire
    <3>2. ASSUME NEW s \in Senders, NEW size \in 1..MaxBytes, Write(s, size)
          PROVE  Kept /\ ~Carries
      <4>1. UNCHANGED <<flushTimer, inFlight, completion, handler>>
        BY <2>1, <3>2 DEF Write
      <4>2. senderPc' # senderPc
        BY <2>2, <3>2 DEF Write, TypeOK
      <4>3. ~Carries
        BY <4>2 DEF Carries, TimerExpires, FlushOut, FlushOutLocked, OnWriteComplete,
                    OnWriteCompleteLocked, WriteFails, WriteSome, sending
      <4> QED  BY <2>1, <4>1, <4>3 DEF StepsToWire
    <3>3. ASSUME NEW s \in Senders, NEW immediate \in BOOLEAN, Return(s, immediate)
          PROVE  Kept /\ ~Carries
      <4>1. /\ UNCHANGED <<inFlight, completion, handler>>
            /\ \/ flushTimer' = flushTimer
               \/ flushTimer = "waiting" /\ flushTimer' = "due"
        <5>1. UNCHANGED <<inFlight, completion, handler>>
          BY <3>3 DEF Return
        <5>2. flushTimer' = IF immediate /\ flushTimer = "waiting" THEN "due" ELSE flushTimer
          BY <3>3 DEF Return
        <5>3. CASE immediate /\ flushTimer = "waiting"
          BY <5>1, <5>2, <5>3
        <5>4. CASE ~(immediate /\ flushTimer = "waiting")
          BY <5>1, <5>2, <5>4
        <5> QED  BY <5>3, <5>4
      <4>2. senderPc' # senderPc
        BY <2>2, <3>3 DEF Return, TypeOK
      <4>3. ~Carries
        BY <4>2 DEF Carries, TimerExpires, FlushOut, FlushOutLocked, OnWriteComplete,
                    OnWriteCompleteLocked, WriteFails, WriteSome, sending
      <4> QED  BY <2>1, <4>1, <4>3 DEF StepsToWire
    <3>4. ASSUME Close PROVE Goal
      BY <3>4 DEF Close
    <3>5. ASSUME TimerExpires PROVE Goal
      <4>1. flushTimer = "waiting" /\ flushTimer' = "due"
        BY <3>5 DEF TimerExpires
      <4> QED  BY <4>1 DEF StepsToWire
    <3>6. ASSUME NEW n \in 1..inFlight, WriteSome(n) PROVE Goal
      <4>1. /\ n \in 1..Len(m_outBuffer) /\ Len(m_outBuffer) \in Nat
        BY <2>2, LenProperties DEF TypeOK, Chain
      <4>2. /\ SubSeq(m_outBuffer, 1, n) \in Seq(Byte)
            /\ Len(SubSeq(m_outBuffer, 1, n)) = n
        BY <2>2, <4>1, Split DEF TypeOK
      <4>3. Len(wire') = Len(wire) + n /\ Len(wire) \in Nat
        BY <2>2, <3>6, <4>2, ConcatProperties, LenProperties DEF WriteSome, TypeOK
      <4> QED  BY <4>1, <4>3
    <3>7. ASSUME WriteFails PROVE Goal
      <4>1. /\ inFlight > 0 /\ completion = NotYet /\ completion' = Failed
            /\ UNCHANGED <<flushTimer, inFlight, handler>>
        BY <3>7 DEF WriteFails
      <4>2. flushTimer = "off" /\ handler = "none"
        BY <2>2, <4>1 DEF TypeOK, Chain, NotYet
      <4> QED  BY <4>1, <4>2 DEF StepsToWire, NotYet, Failed
    <3>8. ASSUME FlushOut PROVE Goal
      <4>1. /\ flushTimer = "due" /\ flushTimer' = "off" /\ handler' = "FlushOut"
        BY <3>8 DEF FlushOut, Unsent
      <4> QED  BY <4>1 DEF StepsToWire
    <3>9. ASSUME FlushOutLocked PROVE Goal
      <4>1. /\ handler = "FlushOut" /\ handler' = "none" /\ completion' = NotYet
            /\ inFlight' = Len(m_outBuffer) /\ flushTimer' = flushTimer
        BY <3>9 DEF FlushOutLocked
      <4>2. flushTimer = "off" /\ Len(m_outBuffer) > 0
        BY <2>2, <4>1, EmptySeq, LenProperties DEF TypeOK, Chain
      <4> QED  BY <4>1, <4>2 DEF StepsToWire, NotYet
    <3>10. ASSUME OnWriteComplete PROVE Goal
      <4>1. CASE completion # Failed /\ open
        <5>1. /\ inFlight > 0 /\ completion > 0 /\ handler = "none"
              /\ handler' = "OnWriteComplete"
              /\ UNCHANGED <<inFlight, completion, flushTimer>>
          BY <2>2, <3>10, <4>1 DEF OnWriteComplete, NetThreadFree, TypeOK, NotYet, Failed
        <5>2. flushTimer = "off"
          BY <2>2, <5>1 DEF Chain, TypeOK
        <5> QED  BY <5>1, <5>2 DEF StepsToWire
      <4>2. CASE ~(completion # Failed /\ open)
        BY <3>10, <4>2 DEF OnWriteComplete
      <4> QED  BY <4>1, <4>2
    <3>11. ASSUME OnWriteCompleteLocked PROVE Goal
      <4>1. PICK rest \in Moved :
              /\ handler = "OnWriteComplete" /\ handler' = "none" /\ completion' = NotYet
              /\ inFlight' = Len(Remaining(rest)) /\ flushTimer' = flushTimer
        BY <3>11 DEF OnWriteCompleteLocked
      <4>2. flushTimer = "off" /\ completion > 0
        BY <2>2, <4>1 DEF TypeOK, Chain
      <4>3. Len(Remaining(rest)) > 0
        <5>1. rest \in Seq(Byte) /\ m_secondaryOutBuffer \in Seq(Byte)
          BY <2>2, <4>1, MovedRest DEF TypeOK
        <5>2. Remaining(rest) \in Seq(Byte) /\ Remaining(rest) # <<>>
          BY <2>1, <4>1, <5>1, ConcatProperties DEF Remaining
        <5> QED  BY <5>2, EmptySeq, LenProperties
      <4> QED  BY <4>1, <4>2, <4>3 DEF StepsToWire, NotYet
    <3> QED
      <4> HIDE DEF Goal, Kept
      <4> QED  BY <3>0, <3>1, <3>2, <3>3, <3>4, <3>5, <3>6, <3>7, <3>8, <3>9, <3>10, <3>11
               DEF Next
  <2> QED  BY <2>1, <2>3 DEF DrainAdvances, NetThreadOnce
<1> QED  BY <1>1, Invariance, OneAtATime, PTL DEF Spec


-----------------------------------------------------------------------------
(* Any number of senders: packets stay whole. *)

\* Two bytes of one packet are as far apart on the wire as in the packet: its
\* bytes are together and in order, and no packet is there twice; as long as
\* no memcpy has spoilt bytes.
PacketsWhole ==
    ~garbled => \A i, j \in 1..Len(wire) :
        i < j /\ wire[i][1] = wire[j][1] => wire[j][2] - wire[i][2] = j - i

\* The same of what Write took; a keystream position under way is one sender's
\* and belongs to no byte yet.
Whole ==
    /\ \A i, j \in 1..Len(accepted) :
        i < j /\ accepted[i][1] = accepted[j][1] => accepted[j][2] - accepted[i][2] = j - i
    /\ \A i \in 1..Len(accepted) : accepted[i][1] < cipher
    /\ \A s \in Senders : senderPc[s] = "encrypted" =>
        /\ header[s] < cipher
        /\ \A i \in 1..Len(accepted) : accepted[i][1] # header[s]
        /\ \A t \in Senders \ {s} : senderPc[t] = "encrypted" => header[t] # header[s]

\* Encrypt hands out a fresh position and Write uses it up.
LEMMA WholeStep ==
    ASSUME IInv, Whole, [Next]_vars
    PROVE  Whole'
<1> USE DEF IInv
<1>1. ASSUME NEW s \in Senders, Encrypt(s) PROVE Whole'
  <2>1. /\ accepted' = accepted /\ cipher' = cipher + 1 /\ cipher \in Nat
        /\ header' = [header EXCEPT ![s] = cipher]
        /\ senderPc' = [senderPc EXCEPT ![s] = "encrypted"]
    BY <1>1 DEF Encrypt, TypeOK
  <2>2. \A i \in 1..Len(accepted) : accepted[i][1] \in Nat /\ accepted[i][1] < cipher
    BY ElementOfSeq DEF TypeOK, Byte, Whole
  <2>3. \A i \in 1..Len(accepted) : accepted[i][1] < cipher + 1 /\ accepted[i][1] # cipher
    BY <2>1, <2>2
  <2>4. ASSUME NEW r \in Senders, senderPc'[r] = "encrypted"
        PROVE  /\ header'[r] < cipher'
               /\ \A i \in 1..Len(accepted) : accepted[i][1] # header'[r]
               /\ \A t \in Senders \ {r} : senderPc'[t] = "encrypted" => header'[t] # header'[r]
    <3>1. \A t \in Senders : header[t] \in Nat
      BY DEF TypeOK
    <3>2. \A t \in Senders : senderPc[t] = "encrypted" => header[t] < cipher
      BY DEF Whole
    <3>3. CASE r = s
      <4>1. header'[r] = cipher
        BY <2>1, <3>3 DEF TypeOK
      <4>2. ASSUME NEW t \in Senders \ {r}, senderPc'[t] = "encrypted"
            PROVE  header'[t] # cipher
        BY <2>1, <3>1, <3>2, <3>3, <4>2 DEF TypeOK
      <4> QED  BY <2>1, <2>3, <4>1, <4>2
    <3>4. CASE r # s
      <4>1. header'[r] = header[r] /\ senderPc[r] = "encrypted"
        BY <2>1, <2>4, <3>4 DEF TypeOK
      <4>2. header[r] < cipher /\ \A i \in 1..Len(accepted) : accepted[i][1] # header[r]
        BY <4>1 DEF Whole
      <4>3. ASSUME NEW t \in Senders \ {r}, senderPc'[t] = "encrypted"
            PROVE  header'[t] # header[r]
        <5>1. CASE t = s
          BY <2>1, <3>1, <4>2, <5>1 DEF TypeOK
        <5>2. CASE t # s
          <6>1. header'[t] = header[t] /\ senderPc[t] = "encrypted"
            BY <2>1, <4>3, <5>2 DEF TypeOK
          <6> QED  BY <4>1, <6>1 DEF Whole
        <5> QED  BY <5>1, <5>2
      <4> QED  BY <2>1, <3>1, <4>1, <4>2, <4>3
    <3> QED  BY <3>3, <3>4
  <2> QED  BY <2>1, <2>3, <2>4 DEF Whole
<1>2. ASSUME NEW s \in Senders, NEW size \in 1..MaxBytes, Write(s, size) PROVE Whole'
  <2> DEFINE pct == Packet(header[s], size)
  <2>1. /\ accepted' = accepted \o pct
        /\ senderPc[s] = "encrypted"
        /\ senderPc' = [senderPc EXCEPT ![s] = "written"]
        /\ header' = header /\ cipher' = cipher
    BY <1>2 DEF Write
  <2>2. /\ pct \in Seq(Byte) /\ Len(accepted) \in Nat /\ Len(pct) \in Nat
        /\ header[s] \in Nat /\ cipher \in Nat
    BY PacketIsSeq, LenProperties DEF TypeOK
  <2>3. \A i \in 1..Len(pct) : pct[i] = <<header[s], i>>
    <3>1. size \in Nat /\ pct \in [1..size -> Byte]
      BY <2>2, BoundsAssumption DEF Packet, Byte
    <3>2. Len(pct) = size
      BY <2>2, <3>1, LenProperties
    <3> QED  BY <3>2 DEF Packet
  <2> HIDE DEF pct
  <2>4. /\ Len(accepted') = Len(accepted) + Len(pct)
        /\ \A i \in 1..Len(accepted') :
             accepted'[i] = IF i <= Len(accepted) THEN accepted[i] ELSE pct[i - Len(accepted)]
    BY <2>1, <2>2, ConcatProperties DEF TypeOK
  <2>5. ASSUME NEW i \in 1..Len(accepted')
        PROVE  /\ i \in 1..Len(accepted) => accepted'[i] = accepted[i]
               /\ i \notin 1..Len(accepted) =>
                    accepted'[i] = <<header[s], i - Len(accepted)>> /\ i > Len(accepted)
    <3>1. CASE i <= Len(accepted)
      BY <2>4, <3>1
    <3>2. CASE i > Len(accepted)
      <4>1. i - Len(accepted) \in 1..Len(pct)
        BY <2>2, <2>4, <3>2
      <4> QED  BY <2>2, <2>3, <2>4, <3>2, <4>1
    <3> QED  BY <2>2, <3>1, <3>2
  <2>6. /\ header[s] < cipher
        /\ \A i \in 1..Len(accepted) : accepted[i][1] # header[s]
        /\ \A t \in Senders \ {s} : senderPc[t] = "encrypted" => header[t] # header[s]
    BY <2>1 DEF Whole
  <2>7. \A i, j \in 1..Len(accepted') :
          i < j /\ accepted'[i][1] = accepted'[j][1] => accepted'[j][2] - accepted'[i][2] = j - i
    <3> SUFFICES ASSUME NEW i \in 1..Len(accepted'), NEW j \in 1..Len(accepted'), i < j,
                        accepted'[i][1] = accepted'[j][1]
                 PROVE  accepted'[j][2] - accepted'[i][2] = j - i
      OBVIOUS
    <3>1. CASE j \in 1..Len(accepted)
      <4>1. i \in 1..Len(accepted)
        BY <2>2, <3>1
      <4>2. accepted'[i] = accepted[i] /\ accepted'[j] = accepted[j]
        BY <2>5, <3>1, <4>1
      <4> QED  BY <3>1, <4>1, <4>2 DEF Whole
    <3>2. CASE j \notin 1..Len(accepted)
      <4>1. accepted'[j] = <<header[s], j - Len(accepted)>>
        BY <2>5, <3>2
      <4>2. i \notin 1..Len(accepted)
        <5> SUFFICES ASSUME i \in 1..Len(accepted) PROVE FALSE
          OBVIOUS
        <5>1. accepted'[i] = accepted[i]
          BY <2>5
        <5> QED  BY <2>6, <4>1, <5>1
      <4>3. accepted'[i] = <<header[s], i - Len(accepted)>>
        BY <2>5, <4>2
      <4>4. accepted'[j][2] = j - Len(accepted) /\ accepted'[i][2] = i - Len(accepted)
        BY <4>1, <4>3
      <4>5. (j - Len(accepted)) - (i - Len(accepted)) = j - i
        BY <2>2, <2>4
      <4> QED  BY <4>4, <4>5
    <3> QED  BY <3>1, <3>2
  <2>8. \A i \in 1..Len(accepted') : accepted'[i][1] < cipher
    <3> SUFFICES ASSUME NEW i \in 1..Len(accepted') PROVE accepted'[i][1] < cipher
      OBVIOUS
    <3>1. CASE i \in 1..Len(accepted)
      BY <2>5, <3>1 DEF Whole
    <3>2. CASE i \notin 1..Len(accepted)
      <4>1. accepted'[i] = <<header[s], i - Len(accepted)>>
        BY <2>5, <3>2
      <4> QED  BY <2>6, <4>1
    <3> QED  BY <3>1, <3>2
  <2>9. ASSUME NEW r \in Senders, senderPc'[r] = "encrypted"
        PROVE  /\ header[r] < cipher
               /\ \A i \in 1..Len(accepted') : accepted'[i][1] # header[r]
               /\ \A t \in Senders \ {r} : senderPc'[t] = "encrypted" => header[t] # header[r]
    <3>1. r # s /\ senderPc[r] = "encrypted"
      BY <2>1, <2>9 DEF TypeOK
    <3>2. \A t \in Senders \ {r} : senderPc'[t] = "encrypted" => senderPc[t] = "encrypted"
      BY <2>1 DEF TypeOK
    <3>3. ASSUME NEW i \in 1..Len(accepted') PROVE accepted'[i][1] # header[r]
      <4>1. CASE i \in 1..Len(accepted)
        BY <2>5, <3>1, <4>1 DEF Whole
      <4>2. CASE i \notin 1..Len(accepted)
        <5>1. accepted'[i] = <<header[s], i - Len(accepted)>>
          BY <2>5, <4>2
        <5> QED  BY <2>6, <3>1, <5>1
      <4> QED  BY <4>1, <4>2
    <3> QED  BY <3>1, <3>2, <3>3 DEF Whole
  <2> QED  BY <2>1, <2>7, <2>8, <2>9 DEF Whole
<1>3. ASSUME NEW s \in Senders, NEW immediate \in BOOLEAN, Return(s, immediate) PROVE Whole'
  <2>1. /\ UNCHANGED <<accepted, cipher, header>>
        /\ \A t \in Senders : senderPc'[t] = "encrypted" => senderPc[t] = "encrypted"
    BY <1>3 DEF Return, TypeOK
  <2> QED  BY <2>1 DEF Whole
<1>4. CASE UNCHANGED <<accepted, cipher, senderPc, header>>
  BY <1>4 DEF Whole
<1>5. CASE Close \/ TimerExpires \/ WriteFails \/ \E n \in 1..inFlight : WriteSome(n)
  <2>1. UNCHANGED <<accepted, cipher, senderPc, header>>
    BY <1>5 DEF Close, TimerExpires, WriteFails, WriteSome, sending
  <2> QED  BY <1>4, <2>1
<1>6. CASE FlushOut \/ FlushOutLocked \/ OnWriteComplete \/ OnWriteCompleteLocked
  <2>1. UNCHANGED <<accepted, cipher, senderPc, header>>
    BY <1>6 DEF FlushOut, FlushOutLocked, OnWriteComplete, OnWriteCompleteLocked, sending
  <2> QED  BY <1>4, <2>1
<1>7. CASE UNCHANGED vars
  <2>1. UNCHANGED <<accepted, cipher, senderPc, header>>
    BY <1>7 DEF vars, sending
  <2> QED  BY <1>4, <2>1
<1> QED  BY <1>1, <1>2, <1>3, <1>5, <1>6, <1>7 DEF Next

\* However many threads send, and wherever a write stops short, the packets
\* on the wire do not run into each other and none is sent twice.
THEOREM PacketsStayWhole == Spec => []PacketsWhole
<1>1. Init => Whole
  <2>1. Len(<<>>) = 0
    BY EmptySeq
  <2> QED  BY <2>1 DEF Init, Whole
<1>2. IInv /\ Whole /\ [Next]_vars => Whole'
  BY WholeStep
<1>3. IInv /\ Whole => PacketsWhole
  <2> SUFFICES ASSUME IInv, Whole, ~garbled PROVE PacketsWhole
    BY DEF PacketsWhole
  <2>1. PICK rest \in Seq(Byte) : accepted = wire \o rest
    BY DEF IInv, NothingLost
  <2>2. /\ Len(wire) \in Nat /\ Len(rest) \in Nat
        /\ Len(accepted) = Len(wire) + Len(rest)
        /\ \A i \in 1..Len(wire) : accepted[i] = wire[i]
    BY <2>1, ConcatProperties, LenProperties DEF IInv, TypeOK
  <2> QED  BY <2>2 DEF Whole, PacketsWhole
<1> QED  BY <1>1, <1>2, <1>3, Invariance, PTL DEF Spec

-----------------------------------------------------------------------------
(* One sender: the packets in the order of their headers. *)

\* What Write took is in the order of encryption, and a header under way is
\* the latest of all.
CipherOrder ==
    /\ \A i, j \in 1..Len(accepted) : i < j => accepted[i][1] <= accepted[j][1]
    /\ \A i \in 1..Len(accepted) : accepted[i][1] < cipher
    /\ senderPc[NetThread] = "encrypted" =>
        /\ header[NetThread] + 1 = cipher
        /\ \A i \in 1..Len(accepted) : accepted[i][1] <= header[NetThread]

\* With one sender no header is encrypted between another's and its Write.
LEMMA CipherOrderStep ==
    ASSUME Senders = {NetThread}, IInv, CipherOrder, [Next]_vars
    PROVE  CipherOrder'
<1> USE DEF IInv
<1>1. ASSUME Encrypt(NetThread) PROVE CipherOrder'
  <2>1. /\ accepted' = accepted /\ cipher' = cipher + 1
        /\ header'[NetThread] = cipher
    BY <1>1, SendersAssumption DEF Encrypt, TypeOK
  <2>2. \A i \in 1..Len(accepted) : accepted[i][1] \in Nat /\ accepted[i][1] < cipher
    BY ElementOfSeq DEF TypeOK, Byte, CipherOrder
  <2>3. cipher \in Nat
    BY DEF TypeOK
  <2>4. \A i \in 1..Len(accepted) : accepted[i][1] < cipher + 1 /\ accepted[i][1] <= cipher
    BY <2>2, <2>3
  <2>5. \A i, j \in 1..Len(accepted) : i < j => accepted[i][1] <= accepted[j][1]
    BY DEF CipherOrder
  <2> QED  BY <2>1, <2>4, <2>5 DEF CipherOrder
<1>2. ASSUME NEW size \in 1..MaxBytes, Write(NetThread, size) PROVE CipherOrder'
  <2> DEFINE pct == Packet(header[NetThread], size)
  <2>1. /\ accepted' = accepted \o pct
        /\ senderPc[NetThread] = "encrypted" /\ senderPc'[NetThread] = "written"
        /\ header' = header /\ cipher' = cipher
    BY <1>2, SendersAssumption DEF Write, TypeOK
  <2>2. pct \in Seq(Byte) /\ Len(accepted) \in Nat /\ Len(pct) \in Nat
    BY SendersAssumption, PacketIsSeq, LenProperties DEF TypeOK
  <2>3. \A i \in 1..Len(pct) : pct[i][1] = header[NetThread]
    <3>1. size \in Nat /\ pct \in [1..size -> Byte]
      BY <2>2, BoundsAssumption, SendersAssumption DEF Packet, Byte, TypeOK
    <3>2. Len(pct) = size
      BY <2>2, <3>1, LenProperties
    <3> QED  BY <3>2 DEF Packet
  <2> HIDE DEF pct
  <2>4. /\ Len(accepted') = Len(accepted) + Len(pct)
        /\ \A i \in 1..Len(accepted') :
             accepted'[i] = IF i <= Len(accepted) THEN accepted[i] ELSE pct[i - Len(accepted)]
    BY <2>1, <2>2, ConcatProperties DEF TypeOK
  <2>5. ASSUME NEW i \in 1..Len(accepted')
        PROVE  \/ i \in 1..Len(accepted) /\ accepted'[i] = accepted[i]
               \/ i > Len(accepted) /\ accepted'[i][1] = header[NetThread]
    <3>1. CASE i <= Len(accepted)
      BY <2>4, <3>1
    <3>2. CASE i > Len(accepted)
      <4>1. i - Len(accepted) \in 1..Len(pct)
        BY <2>2, <2>4, <3>2
      <4> QED  BY <2>2, <2>3, <2>4, <3>2, <4>1
    <3> QED  BY <2>2, <3>1, <3>2
  <2>6. header[NetThread] \in Nat /\ header[NetThread] + 1 = cipher
    BY <2>1, SendersAssumption DEF CipherOrder, TypeOK
  <2>7. /\ \A i, j \in 1..Len(accepted) : i < j => accepted[i][1] <= accepted[j][1]
        /\ \A i \in 1..Len(accepted) :
             accepted[i][1] < cipher /\ accepted[i][1] <= header[NetThread]
    BY <2>1 DEF CipherOrder
  <2>8. \A i, j \in 1..Len(accepted') : i < j => accepted'[i][1] <= accepted'[j][1]
    <3> SUFFICES ASSUME NEW i \in 1..Len(accepted'), NEW j \in 1..Len(accepted'), i < j
                 PROVE  accepted'[i][1] <= accepted'[j][1]
      OBVIOUS
    <3>1. CASE j \in 1..Len(accepted)
      <4>1. i \in 1..Len(accepted)
        BY <2>2, <3>1
      <4>2. accepted'[i] = accepted[i] /\ accepted'[j] = accepted[j]
        BY <2>2, <2>5, <3>1, <4>1
      <4> QED  BY <2>7, <3>1, <4>1, <4>2
    <3>2. CASE j \notin 1..Len(accepted)
      <4>1. accepted'[j][1] = header[NetThread]
        BY <2>5, <3>2
      <4>2. CASE i \in 1..Len(accepted)
        <5>1. accepted'[i] = accepted[i]
          BY <2>2, <2>5, <4>2
        <5> QED  BY <2>7, <4>1, <4>2, <5>1
      <4>3. CASE i \notin 1..Len(accepted)
        <5>1. accepted'[i][1] = header[NetThread]
          BY <2>5, <4>3
        <5> QED  BY <2>6, <4>1, <5>1
      <4> QED  BY <4>2, <4>3
    <3> QED  BY <3>1, <3>2
  <2>9. \A i \in 1..Len(accepted') : accepted'[i][1] < cipher
    <3> SUFFICES ASSUME NEW i \in 1..Len(accepted') PROVE accepted'[i][1] < cipher
      OBVIOUS
    <3>1. CASE i \in 1..Len(accepted)
      <4>1. accepted'[i] = accepted[i]
        BY <2>2, <2>5, <3>1
      <4> QED  BY <2>7, <3>1, <4>1
    <3>2. CASE i \notin 1..Len(accepted)
      <4>1. accepted'[i][1] = header[NetThread]
        BY <2>5, <3>2
      <4> QED  BY <2>6, <4>1
    <3> QED  BY <3>1, <3>2
  <2> QED  BY <2>1, <2>8, <2>9 DEF CipherOrder
<1>3. ASSUME NEW immediate \in BOOLEAN, Return(NetThread, immediate) PROVE CipherOrder'
  BY <1>3, SendersAssumption DEF Return, CipherOrder, TypeOK
<1>4. CASE UNCHANGED <<accepted, cipher, senderPc, header>>
  BY <1>4 DEF CipherOrder
<1>5. CASE Close \/ TimerExpires \/ WriteFails \/ \E n \in 1..inFlight : WriteSome(n)
  <2>1. UNCHANGED <<accepted, cipher, senderPc, header>>
    BY <1>5 DEF Close, TimerExpires, WriteFails, WriteSome, sending
  <2> QED  BY <1>4, <2>1
<1>6. CASE FlushOut \/ FlushOutLocked \/ OnWriteComplete \/ OnWriteCompleteLocked
  <2>1. UNCHANGED <<accepted, cipher, senderPc, header>>
    BY <1>6 DEF FlushOut, FlushOutLocked, OnWriteComplete, OnWriteCompleteLocked, sending
  <2> QED  BY <1>4, <2>1
<1>7. CASE UNCHANGED vars
  <2>1. UNCHANGED <<accepted, cipher, senderPc, header>>
    BY <1>7 DEF vars, sending
  <2> QED  BY <1>4, <2>1
<1> QED  BY <1>1, <1>2, <1>3, <1>5, <1>6, <1>7 DEF Next

\* What HandleAuthSession's note assumes of the socket would be enough: when
\* one thread alone sends, packets reach the wire in the order their headers
\* were encrypted.  The run of WireInCipherOrder shows that it is not so when
\* a second thread sends.
THEOREM OneSenderInCipherOrder ==
    ASSUME Senders = {NetThread} PROVE Spec => []WireInCipherOrder
<1>1. Init => CipherOrder
  <2>1. Len(<<>>) = 0
    BY EmptySeq
  <2> QED  BY <2>1, SendersAssumption DEF Init, CipherOrder
<1>2. IInv /\ CipherOrder /\ [Next]_vars => CipherOrder'
  BY CipherOrderStep
<1>3. IInv /\ CipherOrder => WireInCipherOrder
  <2> SUFFICES ASSUME IInv, CipherOrder, ~garbled PROVE WireInCipherOrder
    BY DEF WireInCipherOrder
  <2>1. PICK rest \in Seq(Byte) : accepted = wire \o rest
    BY DEF IInv, NothingLost
  <2>2. /\ Len(wire) \in Nat /\ Len(rest) \in Nat
        /\ Len(accepted) = Len(wire) + Len(rest)
        /\ \A i \in 1..Len(wire) : accepted[i] = wire[i]
    BY <2>1, ConcatProperties, LenProperties DEF IInv, TypeOK
  <2> QED  BY <2>2 DEF CipherOrder, WireInCipherOrder
<1> QED  BY <1>1, <1>2, <1>3, Invariance, PTL DEF Spec
=============================================================================
