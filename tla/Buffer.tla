------------------------------- MODULE Buffer -------------------------------
(***************************************************************************)
(* Buffer (base/inc/Buffer.h, base/src/Buffer.cpp), a vector with a reader *)
(* and a writer index, as operators on records: the input and the output   *)
(* buffer of a TcpConnection, and the one LengthHeaderCodec::send builds a *)
(* message in.                                                             *)
(***************************************************************************)
EXTENDS Naturals, Sequences

CONSTANTS kCheapPrepend,   \* 8
          kInitialSize,    \* 1024
          ExtraBuf,        \* readFd's second buffer, 65536
          Fill             \* what a byte holds before it is written

ASSUME BufferAssumption == kCheapPrepend \in Nat /\ kInitialSize \in Nat /\ ExtraBuf \in Nat

\* The vector is a function from 0..size-1.
NewBuffer == [buffer_ |-> [i \in 0..(kCheapPrepend + kInitialSize - 1) |-> Fill],
              size |-> kCheapPrepend + kInitialSize,
              readerIndex_ |-> kCheapPrepend,
              writerIndex_ |-> kCheapPrepend]

readableBytes(b) == b.writerIndex_ - b.readerIndex_

writableBytes(b) == b.size - b.writerIndex_

prependableBytes(b) == b.readerIndex_

\* The n bytes from peek() on.
peek(b, n) == [i \in 1..n |-> b.buffer_[b.readerIndex_ + i - 1]]

Content(b) == peek(b, readableBytes(b))

\* std::copy of the bytes to an index of the vector.
Copied(f, data, at) ==
    [i \in DOMAIN f |-> IF i >= at /\ i < at + Len(data) THEN data[i - at + 1] ELSE f[i]]
-----------------------------------------------------------------------------
MutantRetrieveAll(b) == [b EXCEPT !.writerIndex_ = kCheapPrepend]

retrieveAll(b) == [b EXCEPT !.readerIndex_ = kCheapPrepend, !.writerIndex_ = kCheapPrepend]

retrieve(b, len) == IF len < readableBytes(b) THEN [b EXCEPT !.readerIndex_ = @ + len]
                                              ELSE retrieveAll(b)

\* Grow the vector, or move the content down to where it started.
makeSpace(b, len) ==
    IF writableBytes(b) + prependableBytes(b) < len + kCheapPrepend
    THEN [b EXCEPT !.size = b.writerIndex_ + len,
                   !.buffer_ = [i \in 0..(b.writerIndex_ + len - 1) |->
                                   IF i < b.size THEN b.buffer_[i] ELSE Fill]]
    ELSE [b EXCEPT !.buffer_ = Copied(b.buffer_, Content(b), kCheapPrepend),
                   !.readerIndex_ = kCheapPrepend,
                   !.writerIndex_ = kCheapPrepend + readableBytes(b)]

ensureWritableBytes(b, len) == IF writableBytes(b) < len THEN makeSpace(b, len) ELSE b

append(b, data) ==
    LET room == ensureWritableBytes(b, Len(data))
    IN  [room EXCEPT !.buffer_ = Copied(@, data, room.writerIndex_),
                     !.writerIndex_ = @ + Len(data)]

prepend(b, data) ==
    [b EXCEPT !.buffer_ = Copied(@, data, b.readerIndex_ - Len(data)),
              !.readerIndex_ = @ - Len(data)]

MutantReadFd(b, data) ==
    LET n == writableBytes(b)
    IN  IF Len(data) <= n
        THEN [b EXCEPT !.buffer_ = Copied(@, data, b.writerIndex_),
                       !.writerIndex_ = @ + Len(data)]
        ELSE append([b EXCEPT !.buffer_ = Copied(@, data, b.writerIndex_)],
                    SubSeq(data, n + 1, Len(data)))

\* readv() put the data in the writable bytes and, past them, in extrabuf.
readFd(b, data) ==
    LET n == writableBytes(b)
    IN  IF Len(data) <= n
        THEN [b EXCEPT !.buffer_ = Copied(@, data, b.writerIndex_),
                       !.writerIndex_ = @ + Len(data)]
        ELSE append([b EXCEPT !.buffer_ = Copied(@, data, b.writerIndex_),
                              !.writerIndex_ = b.size],
                    SubSeq(data, n + 1, Len(data)))
-----------------------------------------------------------------------------
(* Properties of a buffer. *)

\* The indexes stay in order and inside the vector.
IndexesOK(b) == /\ DOMAIN b.buffer_ = 0..(b.size - 1)
                /\ b.readerIndex_ <= b.writerIndex_ /\ b.writerIndex_ <= b.size

\* The asserts of ensureWritableBytes and makeSpace, for a write of len bytes:
\* content is moved down only if it does move, and there is room afterwards.
RoomFor(b, len) ==
    /\ writableBytes(b) < len /\ writableBytes(b) + prependableBytes(b) >= len + kCheapPrepend
          => kCheapPrepend < b.readerIndex_
    /\ writableBytes(ensureWritableBytes(b, len)) >= len
=============================================================================
