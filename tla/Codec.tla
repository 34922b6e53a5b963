------------------------------- MODULE Codec -------------------------------
(***************************************************************************)
(* One direction of a connection: the other end, which frames messages     *)
(* with LengthHeaderCodec's send at any time; the byte stream, cut         *)
(* anywhere by the network; and the receiving TcpConnection's handleRead   *)
(* with LengthHeaderCodec::onMessage.                                      *)
(*                                                                         *)
(* Byte j of the header and of the body of message m are <<"h", m, j>> and *)
(* <<"b", m, j>>; be32toh of four header bytes of message m in order is    *)
(* its length, which the other end may have made illegal.                  *)
(***************************************************************************)
EXTENDS Buffer, Integers

CONSTANTS kHeaderLen,    \* 4
          MaxLen,        \* 65536
          Lengths,       \* lengths a header can announce
          NumMessages    \* bound on the messages in one behaviour

ASSUME CodecAssumption == /\ kHeaderLen \in Nat \ {0} /\ kHeaderLen <= kCheapPrepend
                          /\ MaxLen \in Nat /\ Lengths \subseteq Int
                          /\ NumMessages \in Nat

Legal(len) == len <= MaxLen /\ len >= 0

VARIABLES announced,     \* the length each message's header announces, in order
          stream,        \* the bytes the other end has sent
          ends,          \* where in the stream each message ends
          received,      \* bytes of the stream read so far
          inputBuffer_,
          delivered,     \* bodies handed to messageCallback_
          state_,        \* TcpConnection::state_
          pc             \* "poll", or "onMessage" in its while loop

sendVars == <<announced, stream, ends>>
vars == <<sendVars, received, inputBuffer_, delivered, state_, pc>>

Header(m) == [j \in 1..kHeaderLen |-> <<"h", m, j>>]

\* A body is as long as announced; an illegal length has some bytes after it.
BodyLen(len) == IF Legal(len) THEN len ELSE 1

Body(m, len) == [j \in 1..BodyLen(len) |-> <<"b", m, j>>]

\* LengthHeaderCodec::send: the bytes conn->send takes from the buffer.
send(m, len) == Content(prepend(append(NewBuffer, Body(m, len)), Header(m)))

\* be32toh of the first bytes; no other bytes are ever looked at as a header.
be32toh(bytes) ==
    IF \E m \in 1..Len(announced) : bytes = Header(m) THEN announced[bytes[1][2]] ELSE -1

Init == /\ announced = <<>> /\ stream = <<>> /\ ends = <<>>
        /\ received = 0
        /\ inputBuffer_ = NewBuffer
        /\ delivered = <<>>
        /\ state_ = "kConnected" /\ pc = "poll"
-----------------------------------------------------------------------------
\* The other end sends a message.
Send(len) ==
    /\ Len(announced) < NumMessages
    /\ announced' = Append(announced, len)
    /\ stream' = stream \o send(Len(announced) + 1, len)
    /\ ends' = Append(ends, Len(stream'))
    /\ UNCHANGED <<received, inputBuffer_, delivered, state_, pc>>

\* TcpConnection::handleRead: one readv() of n bytes, then messageCallback_.
HandleRead(n) ==
    /\ pc = "poll" /\ received + n <= Len(stream)
    /\ n <= writableBytes(inputBuffer_) + ExtraBuf
    /\ inputBuffer_' = readFd(inputBuffer_, SubSeq(stream, received + 1, received + n))
    /\ received' = received + n
    /\ pc' = "onMessage"
    /\ UNCHANGED <<sendVars, delivered, state_>>

HasHeader == readableBytes(inputBuffer_) >= kHeaderLen

MutantFrameLen == be32toh(peek(inputBuffer_, kHeaderLen)) - 1

\* const int32_t len
FrameLen == be32toh(peek(inputBuffer_, kHeaderLen))

MutantIllegalLength == /\ pc = "onMessage" /\ HasHeader /\ ~Legal(FrameLen)
                       /\ pc' = "poll"
                       /\ UNCHANGED <<sendVars, received, inputBuffer_, delivered, state_>>

\* "can't read"
IllegalLength == /\ pc = "onMessage" /\ HasHeader /\ ~Legal(FrameLen)
                 /\ state_' = "kDisconnecting"
                 /\ pc' = "poll"
                 /\ UNCHANGED <<sendVars, received, inputBuffer_, delivered>>

MutantDeliver == /\ pc = "onMessage" /\ HasHeader /\ Legal(FrameLen)
                 /\ readableBytes(inputBuffer_) >= FrameLen + kHeaderLen
                 /\ LET body == retrieve(inputBuffer_, kHeaderLen)
                    IN  /\ delivered' = Append(delivered, peek(body, FrameLen))
                        /\ inputBuffer_' = retrieve(body, FrameLen)
                 /\ pc' = "poll"
                 /\ UNCHANGED <<sendVars, received, state_>>

\* A whole message is there.
Deliver == /\ pc = "onMessage" /\ HasHeader /\ Legal(FrameLen)
           /\ readableBytes(inputBuffer_) >= FrameLen + kHeaderLen
           /\ LET body == retrieve(inputBuffer_, kHeaderLen)
              IN  /\ delivered' = Append(delivered, peek(body, FrameLen))
                  /\ inputBuffer_' = retrieve(body, FrameLen)
           /\ UNCHANGED <<sendVars, received, state_, pc>>

\* Not yet.
Incomplete == /\ pc = "onMessage"
              /\ HasHeader => /\ Legal(FrameLen)
                              /\ readableBytes(inputBuffer_) < FrameLen + kHeaderLen
              /\ pc' = "poll"
              /\ UNCHANGED <<sendVars, received, inputBuffer_, delivered, state_>>

Next == \/ \E len \in Lengths : Send(len)
        \/ \E n \in 1..Len(stream) : HandleRead(n)
        \/ IllegalLength \/ Deliver \/ Incomplete

Spec == Init /\ [][Next]_vars
-----------------------------------------------------------------------------
(* Properties. *)

\* The variables keep their types, and the input buffer its indexes.
TypeOK == /\ announced \in Seq(Lengths) /\ Len(announced) <= NumMessages
          /\ ends \in Seq(Nat) /\ Len(ends) = Len(announced)
          /\ received \in 0..Len(stream)
          /\ IndexesOK(inputBuffer_)
          /\ Len(delivered) \in 0..NumMessages
          /\ state_ \in {"kConnected", "kDisconnecting"}
          /\ pc \in {"poll", "onMessage"}

\* onMessage: however the stream is cut, the messages handed over are those
\* sent, whole, once each and in order.
DeliveredAsSent == /\ Len(delivered) <= Len(announced)
                   /\ \A m \in 1..Len(delivered) : delivered[m] = Body(m, announced[m])

\* The bytes of the stream up to the end of message m.
EndOf(m) == IF m = 0 THEN 0 ELSE ends[m]

\* Buffer's append, readFd, makeSpace and retrieve: whatever is moved or grown,
\* the input buffer holds the bytes read and not handed over yet, in order; and
\* the asserts of the next write hold, whatever its length.
BufferHoldsTheRest ==
    /\ Content(inputBuffer_) = SubSeq(stream, EndOf(Len(delivered)) + 1, received)
    /\ \A len \in 0..ExtraBuf : RoomFor(inputBuffer_, len)

\* Messages that can be told apart: those before an illegal length.
Readable == {m \in 1..Len(announced) : \A k \in 1..m : Legal(announced[k])}

\* onMessage: when it returns, no message that has arrived completely is left
\* in the buffer, where it would wait for more input that may never come.
NothingLeftBehind ==
    pc = "poll" => \A m \in Readable : received >= EndOf(m) => Len(delivered) >= m

\* onMessage, IllegalLength: the connection is shut down exactly when the
\* header of a message with an illegal length has arrived; as it is only half
\* closed reading goes on, but nothing from there on is taken for a message.
ShutdownOnIllegal ==
    /\ pc = "poll" => (state_ = "kDisconnecting" <=>
          \E m \in 1..Len(announced) :
             /\ ~Legal(announced[m]) /\ m - 1 \in Readable \cup {0}
             /\ received >= EndOf(m - 1) + kHeaderLen)
    /\ Len(delivered) \in Readable \cup {0}
=============================================================================
