------------------------ MODULE TcpConnectionProofs ------------------------
(***************************************************************************)
(* Proofs about TcpConnection, for buffers and sends of any size: the      *)
(* stream is intact, POLLOUT is asked for while bytes wait, and the end of *)
(* the stream comes after its last byte.                                   *)
(***************************************************************************)
EXTENDS TcpConnection, SequenceTheorems, TLAPS

Stream == Seq(1..MaxBytes)

\* What holds of the flags: a closed channel asks for nothing and has lost its
\* peer, and only a connection that is being shut down has sent a FIN.
FlagsInv == /\ ~reading => ~writing /\ peer # "open" /\ state_ = "kDisconnected"
            /\ shutdownWrite => state_ # "kConnected"
            /\ gotFin => shutdownWrite
            /\ gotFin /\ peer = "open" => sndbuf = <<>>

\* The inductive invariant.
OutputInv == TypeOK /\ FlagsInv /\ StreamIntact /\ WritingIffWaiting /\ FinIsLast
-----------------------------------------------------------------------------
(* Facts about sequences. *)

\* write() takes the first bytes and leaves the others.
LEMMA SplitParts ==
    ASSUME NEW S, NEW s \in Seq(S), NEW k \in 0..Len(s)
    PROVE  /\ SubSeq(s, 1, k) \in Seq(S) /\ Len(SubSeq(s, 1, k)) = k
           /\ From(s, k) \in Seq(S) /\ Len(From(s, k)) = Len(s) - k
           /\ SubSeq(s, 1, k) \o From(s, k) = s
<1>1. SubSeq(s, 1, k) \in Seq(S) /\ Len(SubSeq(s, 1, k)) = k
  OBVIOUS
<1>2. From(s, k) \in Seq(S) /\ Len(From(s, k)) = Len(s) - k
  BY DEF From
<1>3. SubSeq(s, 1, k) \o From(s, k) = SubSeq(s, 1, Len(s))
  <2>1. 1 \in 1..(Len(s) + 1) /\ k \in (1 - 1)..Len(s) /\ Len(s) \in k..Len(s)
    OBVIOUS
  <2> QED
    BY <2>1, ConcatAdjacentSubSeq, Zenon DEF From
<1>4. SubSeq(s, 1, Len(s)) = s
  BY SubSeqFull
<1> QED
  BY <1>1, <1>2, <1>3, <1>4

\* Three parts make up the first n bytes of the stream.
Whole(a, b, c, n) == (a \o b) \o c = [i \in 1..n |-> i]

\* Bytes that move from the front of one part to the back of the part before
\* it leave the whole as it was.
LEMMA MoveBytes ==
    ASSUME NEW a \in Stream, NEW b \in Stream, NEW x \in Stream, NEW y \in Stream,
           NEW n, Whole(a, b, x \o y, n)
    PROVE  Whole(a, b \o x, y, n)
<1>1. (a \o (b \o x)) \o y = (a \o b) \o (x \o y)
  BY SMTT(60) DEF Stream
<1> QED
  BY <1>1, Zenon DEF Whole

\* Concatenation of streams is associative.
LEMMA Associative ==
    ASSUME NEW a \in Stream, NEW b \in Stream, NEW c \in Stream
    PROVE  (a \o b) \o c = a \o (b \o c)
BY SMTT(60) DEF Stream

\* A byte that the peer reads moves from the kernel's buffer to what it got.
LEMMA ReadByte ==
    ASSUME NEW S, NEW a \in Seq(S), NEW b \in Seq(S), b # <<>>
    PROVE  Append(a, Head(b)) \o Tail(b) = a \o b
BY SMT

\* The bytes of the next send() continue the stream.
LEMMA NextBytes ==
    ASSUME accepted \in Nat, NEW n \in Nat
    PROVE  [i \in 1..accepted |-> i] \o Bytes(n) = [i \in 1..(accepted + n) |-> i]
BY SMT DEF Bytes

\* write() takes at most what it is given, and at most what fits.
LEMMA WrittenBounds ==
    ASSUME TypeOK, NEW n \in Nat
    PROVE  /\ Written(n) \in 0..n
           /\ Len(sndbuf) + Written(n) <= SndBuf
<1> DEFINE m == SndBuf - Len(sndbuf)
<1>1. m \in Nat /\ Len(sndbuf) \in Nat /\ SndBuf \in Nat
  BY ConnectionAssumption DEF TypeOK
<1>2. \E x \in {n, m} : \A y \in {n, m} : x =< y
  BY <1>1
<1>3. Min({n, m}) \in {n, m} /\ \A y \in {n, m} : Min({n, m}) =< y
  BY <1>2 DEF Min
<1> QED
  BY <1>1, <1>3 DEF Written
-----------------------------------------------------------------------------
(* Each step preserves the invariant. *)

\* A new connection has nothing to write.
LEMMA InitOutput == Init => OutputInv
<1> SUFFICES ASSUME Init PROVE OutputInv
  OBVIOUS
<1>1. TypeOK
  <2>1. <<>> \in Seq(1..MaxBytes) /\ Len(<<>>) = 0
    BY EmptySeq
  <2>2. 0 <= SndBuf /\ 0 \in 0..MaxBytes
    BY ConnectionAssumption
  <2> QED
    BY <2>1, <2>2 DEF Init, TypeOK
<1>2. StreamIntact
  BY DEF Init, StreamIntact
<1> QED
  BY <1>1, <1>2 DEF Init, OutputInv, FlagsInv, WritingIffWaiting, FinIsLast

\* send: direct, partial, or all of it behind what waits.
LEMMA SendOutput ==
    ASSUME OutputInv, NEW n \in 1..MaxSend, Send(n)
    PROVE  OutputInv'
<1> DEFINE nwrote == IF ~writing /\ outputBuffer_ = <<>> THEN Written(n) ELSE 0
           data == Bytes(n)
<1> USE DEF OutputInv
<1>1. /\ n \in Nat /\ n > 0 /\ MaxBytes \in Nat /\ accepted \in Nat /\ accepted + n <= MaxBytes
      /\ got \in Stream /\ sndbuf \in Stream /\ outputBuffer_ \in Stream
  BY ConnectionAssumption DEF TypeOK, Send, Stream
<1>2. data \in Stream /\ Len(data) = n
  BY <1>1 DEF Bytes, Stream
<1>3. nwrote \in 0..n /\ Len(sndbuf) + nwrote <= SndBuf
  BY <1>1, WrittenBounds DEF TypeOK
<1>4. /\ sndbuf' = sndbuf \o SubSeq(data, 1, nwrote)
      /\ outputBuffer_' = outputBuffer_ \o From(data, nwrote)
      /\ writing' = (nwrote < n \/ writing)
      /\ accepted' = accepted + n
      /\ got' = got /\ gotFin' = gotFin /\ peer' = peer
      /\ state_' = state_ /\ reading' = reading /\ shutdownWrite' = shutdownWrite
      /\ state_ = "kConnected" /\ reading
  BY DEF Send, peerVars
<1>5. nwrote > 0 => outputBuffer_ = <<>>
  OBVIOUS
<1> HIDE DEF nwrote, data
<1>6. /\ SubSeq(data, 1, nwrote) \in Stream /\ Len(SubSeq(data, 1, nwrote)) = nwrote
      /\ From(data, nwrote) \in Stream /\ Len(From(data, nwrote)) = n - nwrote
      /\ SubSeq(data, 1, nwrote) \o From(data, nwrote) = data
  BY <1>2, <1>3, SplitParts DEF Stream
<1>7. sndbuf' \in Stream /\ Len(sndbuf') <= SndBuf /\ outputBuffer_' \in Stream
  BY <1>1, <1>3, <1>4, <1>6, ConcatProperties DEF Stream
<1>8. TypeOK'
  BY <1>1, <1>4, <1>7 DEF TypeOK, Stream
<1>9. Len(outputBuffer_') = Len(outputBuffer_) + n - nwrote
  BY <1>1, <1>4, <1>6, ConcatProperties DEF Stream
<1>10. WritingIffWaiting'
  <2>2. outputBuffer_' # <<>> <=> Len(outputBuffer_') # 0
    BY <1>7, EmptySeq DEF Stream
  <2>3. outputBuffer_ # <<>> <=> Len(outputBuffer_) # 0
    BY <1>1, EmptySeq DEF Stream
  <2>4. writing <=> outputBuffer_ # <<>>
    BY <1>4 DEF WritingIffWaiting
  <2>5. Len(outputBuffer_) \in Nat
    BY <1>1 DEF Stream
  <2>6. (nwrote < n \/ outputBuffer_ # <<>>) <=> Len(outputBuffer_') # 0
    BY <1>1, <1>3, <1>9, <2>3, <2>5
  <2> QED
    BY <1>4, <2>2, <2>4, <2>6 DEF WritingIffWaiting
<1>11. StreamIntact'
  <2> SUFFICES ASSUME peer = "open"
               PROVE  (got \o sndbuf') \o outputBuffer_' = [i \in 1..(accepted + n) |-> i]
    BY <1>4 DEF StreamIntact
  <2>1. (got \o sndbuf) \o outputBuffer_ = [i \in 1..accepted |-> i]
    BY DEF StreamIntact
  <2>2. ((got \o sndbuf) \o outputBuffer_) \o data = [i \in 1..(accepted + n) |-> i]
    BY <1>1, <2>1, NextBytes DEF data
  <2>3. got \o sndbuf \in Stream
    BY <1>1, ConcatProperties DEF Stream
  <2>4. CASE nwrote = 0
    <3>1. SubSeq(data, 1, nwrote) = <<>> /\ From(data, nwrote) = data
      BY <1>2, <2>4, SubSeqEmpty, SubSeqFull DEF From, Stream
    <3>2. sndbuf' = sndbuf /\ outputBuffer_' = outputBuffer_ \o data
      BY <1>1, <1>4, <3>1, ConcatEmptySeq DEF Stream
    <3>3. PICK front : front = got \o sndbuf
      OBVIOUS
    <3>4. (front \o outputBuffer_) \o data = front \o (outputBuffer_ \o data)
      BY <1>1, <1>2, <2>3, <3>3, Associative
    <3> QED
      BY <2>2, <3>2, <3>3, <3>4
  <2>5. CASE nwrote > 0
    <3>1. outputBuffer_ = <<>>
      BY <1>5, <2>5
    <3>2. outputBuffer_' = From(data, nwrote)
      BY <1>4, <1>6, <3>1, ConcatEmptySeq DEF Stream
    <3>3. (got \o sndbuf) \o outputBuffer_ = got \o sndbuf
      BY <2>3, <3>1, ConcatEmptySeq DEF Stream
    <3>4. Whole(got, sndbuf, data, accepted + n)
      BY <2>2, <3>3 DEF Whole
    <3>5. Whole(got, sndbuf', outputBuffer_', accepted + n)
      <4> DEFINE x == SubSeq(data, 1, nwrote)
                 y == From(data, nwrote)
                 total == accepted + n
      <4>1. x \in Stream /\ y \in Stream /\ x \o y = data
        BY <1>6
      <4>2. sndbuf' = sndbuf \o x /\ outputBuffer_' = y
        BY <1>4, <3>2
      <4> HIDE DEF x, y
      <4>3. Whole(got, sndbuf, x \o y, total)
        BY <3>4, <4>1, Zenon
      <4> HIDE DEF total
      <4>4. Whole(got, sndbuf \o x, y, total)
        BY <1>1, <4>1, <4>3, MoveBytes
      <4> QED
        BY <4>2, <4>4, Zenon DEF total
    <3> QED
      BY <3>5 DEF Whole
  <2> QED
    BY <1>3, <2>4, <2>5
<1>12. FlagsInv' /\ FinIsLast'
  BY <1>4 DEF FlagsInv, FinIsLast
<1> QED
  BY <1>8, <1>10, <1>11, <1>12

\* handleWrite: as much as the kernel takes.
LEMMA HandleWriteOutput ==
    ASSUME OutputInv, HandleWrite
    PROVE  OutputInv'
<1> DEFINE n == Written(Len(outputBuffer_))
<1> USE DEF OutputInv
<1>1. got \in Stream /\ sndbuf \in Stream /\ outputBuffer_ \in Stream /\ Len(outputBuffer_) \in Nat
  BY DEF TypeOK, Stream
<1>2. n \in 0..Len(outputBuffer_) /\ Len(sndbuf) + n <= SndBuf
  BY <1>1, WrittenBounds
<1>3. /\ sndbuf' = sndbuf \o SubSeq(outputBuffer_, 1, n)
      /\ outputBuffer_' = From(outputBuffer_, n)
      /\ writing' = (outputBuffer_' # <<>>)
      /\ shutdownWrite' = (shutdownWrite \/ (~writing' /\ state_ = "kDisconnecting"))
      /\ state_' = state_ /\ reading' = reading /\ accepted' = accepted
      /\ got' = got /\ gotFin' = gotFin /\ peer' = peer
      /\ writing
  BY DEF HandleWrite, peerVars
<1> HIDE DEF n
<1>4. SubSeq(outputBuffer_, 1, n) \in Stream /\ Len(SubSeq(outputBuffer_, 1, n)) = n
      /\ outputBuffer_' \in Stream
  BY <1>1, <1>2, <1>3, SplitParts DEF Stream
<1>5. sndbuf' \in Stream /\ Len(sndbuf') <= SndBuf
  BY <1>1, <1>2, <1>3, <1>4, ConcatProperties DEF Stream
<1>6. reading
  BY <1>3 DEF FlagsInv, TypeOK
<1>7. outputBuffer_ # <<>>
  BY <1>3, <1>6 DEF WritingIffWaiting
<1>8. shutdownWrite => peer # "open"
  BY <1>7 DEF FinIsLast
<1>9. TypeOK'
  BY <1>3, <1>4, <1>5 DEF TypeOK, Stream
<1>10. StreamIntact'
  <2> DEFINE x == SubSeq(outputBuffer_, 1, n)
  <2>1. x \in Stream /\ x \o outputBuffer_' = outputBuffer_
    BY <1>1, <1>2, <1>3, SplitParts DEF Stream
  <2>2. sndbuf' = sndbuf \o x
    BY <1>3
  <2> HIDE DEF x
  <2> SUFFICES ASSUME peer = "open" PROVE Whole(got, sndbuf', outputBuffer_', accepted)
    BY <1>3 DEF StreamIntact, Whole
  <2>3. Whole(got, sndbuf, outputBuffer_, accepted)
    BY DEF StreamIntact, Whole
  <2>4. Whole(got, sndbuf, x \o outputBuffer_', accepted)
    BY <2>1, <2>3, Zenon
  <2>5. Whole(got, sndbuf \o x, outputBuffer_', accepted)
    BY <1>1, <1>4, <2>1, <2>4, MoveBytes
  <2> QED
    BY <2>2, <2>5, Zenon
<1>11. WritingIffWaiting'
  BY <1>3 DEF WritingIffWaiting
<1>12. FlagsInv'
  BY <1>3, <1>6, <1>8 DEF FlagsInv
<1>13. FinIsLast'
  BY <1>3, <1>8 DEF FinIsLast, FlagsInv
<1> QED
  BY <1>9, <1>10, <1>11, <1>12, <1>13

\* The peer reads a byte, or the end of the stream.
LEMMA PeerOutput ==
    ASSUME OutputInv, PeerReads \/ PeerReadsFin
    PROVE  OutputInv'
<1> USE DEF OutputInv
<1>1. got \in Stream /\ sndbuf \in Stream /\ outputBuffer_ \in Stream /\ accepted \in Nat
  BY DEF TypeOK, Stream
<1>2. CASE PeerReads
  <2>1. /\ got' = Append(got, Head(sndbuf)) /\ sndbuf' = Tail(sndbuf) /\ sndbuf # <<>>
        /\ UNCHANGED <<state_, reading, writing, outputBuffer_, shutdownWrite, gotFin, accepted, peer>>
        /\ peer = "open"
    BY <1>2 DEF PeerReads
  <2>2. got' \in Stream /\ sndbuf' \in Stream /\ Len(sndbuf') = Len(sndbuf) - 1
    BY <1>1, <2>1, HeadTailProperties, AppendProperties DEF Stream
  <2>3. TypeOK'
    BY <1>1, <2>1, <2>2, ConnectionAssumption DEF TypeOK, Stream
  <2>4. got' \o sndbuf' = got \o sndbuf
    BY <1>1, <2>1, ReadByte DEF Stream
  <2>5. StreamIntact'
    BY <2>1, <2>4 DEF StreamIntact
  <2>6. ~gotFin
    BY <2>1 DEF FlagsInv
  <2> QED
    BY <2>1, <2>3, <2>5, <2>6 DEF FlagsInv, FinIsLast, WritingIffWaiting
<1>3. CASE PeerReadsFin
  <2>1. /\ peer = "open" /\ sndbuf = <<>> /\ shutdownWrite /\ gotFin' = TRUE
        /\ UNCHANGED <<state_, reading, writing, outputBuffer_, sndbuf, shutdownWrite, got, accepted, peer>>
    BY <1>3 DEF PeerReadsFin
  <2>2. outputBuffer_ = <<>>
    BY <2>1 DEF FinIsLast
  <2>3. got = [i \in 1..accepted |-> i]
    BY <1>1, <2>1, <2>2, ConcatEmptySeq DEF StreamIntact, Stream
  <2>4. Len(got) = accepted
    BY <1>1, <2>3
  <2>5. TypeOK'
    BY <2>1 DEF TypeOK
  <2> QED
    BY <2>1, <2>2, <2>4, <2>5 DEF FlagsInv, FinIsLast, WritingIffWaiting, StreamIntact
<1> QED
  BY <1>2, <1>3

\* Every step of the connection, the kernel and the other end keeps the invariant.
LEMMA NextOutput == OutputInv /\ [Next]_vars => OutputInv'
<1> SUFFICES ASSUME OutputInv, [Next]_vars PROVE OutputInv'
  OBVIOUS
<1> USE DEF OutputInv
<1>1. ASSUME NEW n \in 1..MaxSend, Send(n) PROVE OutputInv'
  BY <1>1, SendOutput
<1>2. CASE Shutdown
  <2>1. /\ state_' = "kDisconnecting" /\ shutdownWrite' = ~writing /\ state_ = "kConnected" /\ reading
        /\ UNCHANGED <<reading, writing, outputBuffer_, sndbuf, accepted, got, gotFin, peer>>
    BY <1>2 DEF Shutdown, peerVars
  <2>2. TypeOK'
    BY <2>1 DEF TypeOK
  <2>3. ~gotFin
    BY <2>1 DEF FlagsInv
  <2> QED
    BY <2>1, <2>2, <2>3 DEF FlagsInv, FinIsLast, WritingIffWaiting, StreamIntact
<1>3. CASE HandleWrite
  BY <1>3, HandleWriteOutput
<1>4. CASE HandleClose
  <2>1. /\ state_' = "kDisconnected" /\ reading' = FALSE /\ writing' = FALSE /\ peer # "open"
        /\ UNCHANGED <<outputBuffer_, sndbuf, shutdownWrite, accepted, got, gotFin, peer>>
    BY <1>4 DEF HandleClose, peerVars
  <2>2. TypeOK'
    BY <2>1 DEF TypeOK
  <2> QED
    BY <2>1, <2>2 DEF FlagsInv, FinIsLast, WritingIffWaiting, StreamIntact
<1>5. CASE PeerReads \/ PeerReadsFin
  BY <1>5, PeerOutput
<1>6. ASSUME NEW how \in {"closed", "reset"}, PeerGoes(how) PROVE OutputInv'
  <2>1. /\ peer' = how /\ peer' # "open" /\ sndbuf' = IF how = "reset" THEN <<>> ELSE sndbuf
        /\ peer = "open"
        /\ UNCHANGED <<state_, reading, writing, outputBuffer_, shutdownWrite, got, gotFin, accepted>>
    BY <1>6 DEF PeerGoes
  <2>2. sndbuf' \in Seq(1..MaxBytes) /\ Len(sndbuf') <= SndBuf
    <3>1. <<>> \in Seq(1..MaxBytes) /\ Len(<<>>) = 0 /\ 0 <= SndBuf
      BY EmptySeq, ConnectionAssumption
    <3> QED
      BY <2>1, <3>1 DEF TypeOK
  <2>3. TypeOK'
    BY <2>1, <2>2 DEF TypeOK
  <2> QED
    BY <2>1, <2>3 DEF FlagsInv, FinIsLast, WritingIffWaiting, StreamIntact
<1>7. CASE UNCHANGED vars
  BY <1>7 DEF vars, TypeOK, FlagsInv, FinIsLast, WritingIffWaiting, StreamIntact
<1> QED
  BY <1>1, <1>2, <1>3, <1>4, <1>5, <1>6, <1>7 DEF Next
-----------------------------------------------------------------------------
\* The invariant of the output path holds throughout.
LEMMA OutputInvariant == Spec => []OutputInv
BY InitOutput, NextOutput, PTL DEF Spec

\* TcpConnection keeps its types.
THEOREM OutputTypeCorrect == Spec => []TypeOK
<1>1. OutputInv => TypeOK
  BY DEF OutputInv
<1> QED
  BY <1>1, OutputInvariant, PTL

\* sendInLoop, handleWrite: whatever write() takes of a message, no byte is
\* lost, repeated or overtaken on its way to an open peer.
THEOREM StreamStaysIntact == Spec => []StreamIntact
<1>1. OutputInv => StreamIntact
  BY DEF OutputInv
<1> QED
  BY <1>1, OutputInvariant, PTL

\* sendInLoop, handleWrite: POLLOUT is asked for exactly while bytes wait.
THEOREM WritesWhileWaiting == Spec => []WritingIffWaiting
<1>1. OutputInv => WritingIffWaiting
  BY DEF OutputInv
<1> QED
  BY <1>1, OutputInvariant, PTL

\* shutdownInLoop, handleWrite: the end of the stream follows its last byte.
THEOREM FinComesLast == Spec => []FinIsLast
<1>1. OutputInv => FinIsLast
  BY DEF OutputInv
<1> QED
  BY <1>1, OutputInvariant, PTL
=============================================================================
