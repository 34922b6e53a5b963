---------------------------- MODULE CodecProofs ----------------------------
(***************************************************************************)
(* Theorems about Buffer and Codec, for every size of the buffer and of    *)
(* the second buffer of readFd, every limit on a message's length, any     *)
(* messages and any cuts of the stream.                                    *)
(***************************************************************************)
EXTENDS Codec, SequenceTheorems, TLAPS

-----------------------------------------------------------------------------
(* Sequences. *)

\* A function on the first n numbers is a sequence of length n.
LEMMA FunctionIsSeq ==
    ASSUME NEW S, NEW n \in Nat, NEW f \in [1..n -> S]
    PROVE  f \in Seq(S) /\ Len(f) = n /\ DOMAIN f = 1..n
<1>1. f \in Seq(S)
  BY SeqDef
<1>2. Len(f) \in Nat /\ DOMAIN f = 1..Len(f)
  BY <1>1, LenProperties
<1>3. 1..Len(f) = 1..n
  BY <1>2
<1>4. Len(f) = n
  BY <1>2, <1>3
<1> QED
  BY <1>1, <1>3, <1>4

\* The bytes of a concatenation.
LEMMA ConcatBytes ==
    ASSUME NEW S, NEW s \in Seq(S), NEW t \in Seq(S)
    PROVE  /\ s \o t \in Seq(S)
           /\ Len(s \o t) = Len(s) + Len(t)
           /\ \A i \in 1..Len(s) : (s \o t)[i] = s[i]
           /\ \A i \in 1..Len(t) : (s \o t)[Len(s) + i] = t[i]
<1>1. /\ s \o t \in Seq(S)
      /\ Len(s \o t) = Len(s) + Len(t)
      /\ \A i \in 1..(Len(s) + Len(t)) :
            (s \o t)[i] = IF i <= Len(s) THEN s[i] ELSE t[i - Len(s)]
  BY ConcatProperties
<1>2. Len(s) \in Nat /\ Len(t) \in Nat
  BY LenProperties
<1>3. ASSUME NEW i \in 1..Len(t) PROVE (s \o t)[Len(s) + i] = t[i]
  <2> DEFINE j == Len(s) + i
  <2>1. j \in 1..(Len(s) + Len(t)) /\ ~(j <= Len(s)) /\ j - Len(s) = i
    BY <1>2
  <2> QED
    BY <1>1, <2>1
<1>4. ASSUME NEW i \in 1..Len(s) PROVE (s \o t)[i] = s[i]
  BY <1>1, <1>2
<1> QED
  BY <1>1, <1>3, <1>4
-----------------------------------------------------------------------------
(* Buffer. *)

\* A buffer of values of S, with its indexes in order.
TypedBuffer(b, S) ==
    /\ b \in [buffer_ : [0..(b.size - 1) -> S], size : Nat, readerIndex_ : Nat,
              writerIndex_ : Nat]
    /\ b.readerIndex_ <= b.writerIndex_ /\ b.writerIndex_ <= b.size

\* A buffer between two calls of its user, who never prepends.
InputBuffer(b, S) == TypedBuffer(b, S) /\ kCheapPrepend <= b.readerIndex_

\* A buffer of given parts.
Made(f, size, r, w) ==
    [buffer_ |-> f, size |-> size, readerIndex_ |-> r, writerIndex_ |-> w]

\* What the record of a buffer holds.
LEMMA MadeTyped ==
    ASSUME NEW S, NEW size \in Nat, NEW f \in [0..(size - 1) -> S], NEW r \in Nat,
           NEW w \in Nat, r <= w, w <= size
    PROVE  TypedBuffer(Made(f, size, r, w), S)
BY DEF TypedBuffer, Made

\* A buffer is its four parts.
LEMMA BufferParts ==
    ASSUME NEW S, NEW b, TypedBuffer(b, S)
    PROVE  /\ b = Made(b.buffer_, b.size, b.readerIndex_, b.writerIndex_)
           /\ b.size \in Nat /\ b.readerIndex_ \in Nat /\ b.writerIndex_ \in Nat
           /\ b.buffer_ \in [0..(b.size - 1) -> S]
           /\ b.readerIndex_ <= b.writerIndex_ /\ b.writerIndex_ <= b.size
BY DEF TypedBuffer, Made

\* readableBytes, peek: the content is the bytes between the indexes.
LEMMA ContentProperties ==
    ASSUME NEW S, NEW b, TypedBuffer(b, S)
    PROVE  /\ Content(b) \in Seq(S)
           /\ Len(Content(b)) = b.writerIndex_ - b.readerIndex_
           /\ Len(Content(b)) = readableBytes(b)
           /\ \A i \in 1..Len(Content(b)) : Content(b)[i] = b.buffer_[b.readerIndex_ + i - 1]
<1> DEFINE n == b.writerIndex_ - b.readerIndex_
           r == b.readerIndex_
<1>0. b.size \in Nat /\ r \in Nat /\ n \in Nat /\ r + n <= b.size
  BY BufferParts
<1>1. Content(b) = [i \in 1..n |-> b.buffer_[r + i - 1]]
  BY DEF Content, peek, readableBytes
<1>2. ASSUME NEW i \in 1..n PROVE b.buffer_[r + i - 1] \in S
  <2>1. r + i - 1 \in 0..(b.size - 1)
    BY <1>0
  <2> QED
    BY <2>1, BufferParts
<1>3. Content(b) \in [1..n -> S]
  BY <1>1, <1>2
<1>4. Content(b) \in Seq(S) /\ Len(Content(b)) = n
  BY <1>0, <1>3, FunctionIsSeq
<1> QED
  BY <1>1, <1>4 DEF readableBytes

\* peek: what is looked at is the front of the content.
LEMMA PeekIsFront ==
    ASSUME NEW S, NEW b, TypedBuffer(b, S), NEW n \in Nat, n <= Len(Content(b))
    PROVE  peek(b, n) = [i \in 1..n |-> Content(b)[i]]
<1>1. Len(Content(b)) \in Nat
  BY ContentProperties, LenProperties
<1>2. \A i \in 1..n : Content(b)[i] = b.buffer_[b.readerIndex_ + i - 1]
  BY <1>1, ContentProperties
<1> QED
  BY <1>2 DEF peek

\* std::copy: the values of the vector after it.
LEMMA CopiedProperties ==
    ASSUME NEW S, NEW size \in Nat, NEW f \in [0..(size - 1) -> S],
           NEW data \in Seq(S), NEW at \in Nat
    PROVE  /\ Copied(f, data, at) \in [0..(size - 1) -> S]
           /\ \A i \in 0..(size - 1) :
                 (i < at \/ i >= at + Len(data)) => Copied(f, data, at)[i] = f[i]
           /\ \A j \in 1..Len(data) :
                 at + j <= size => Copied(f, data, at)[at + j - 1] = data[j]
<1> DEFINE g == Copied(f, data, at)
<1>0. Len(data) \in Nat /\ DOMAIN f = 0..(size - 1)
  BY LenProperties
<1>1. g = [i \in 0..(size - 1) |->
             IF i >= at /\ i < at + Len(data) THEN data[i - at + 1] ELSE f[i]]
  BY <1>0 DEF Copied
<1>2. ASSUME NEW i \in 0..(size - 1), i >= at, i < at + Len(data)
      PROVE  data[i - at + 1] \in S
  <2>1. i - at + 1 \in 1..Len(data)
    BY <1>0, <1>2
  <2> QED
    BY <2>1, ElementOfSeq
<1>3. g \in [0..(size - 1) -> S]
  BY <1>1, <1>2
<1>4. ASSUME NEW i \in 0..(size - 1), i < at \/ i >= at + Len(data)
      PROVE  g[i] = f[i]
  BY <1>0, <1>1, <1>4
<1>5. ASSUME NEW j \in 1..Len(data), at + j <= size
      PROVE  g[at + j - 1] = data[j]
  <2> DEFINE i == at + j - 1
  <2>1. i \in 0..(size - 1) /\ i >= at /\ i < at + Len(data) /\ i - at + 1 = j
    BY <1>0, <1>5
  <2> QED
    BY <1>1, <2>1
<1> QED
  BY <1>3, <1>4, <1>5

\* Content is equal when its length and its bytes are.
LEMMA SameContent ==
    ASSUME NEW S, NEW b, TypedBuffer(b, S), NEW s \in Seq(S),
           b.writerIndex_ - b.readerIndex_ = Len(s),
           \A i \in 1..Len(s) : b.buffer_[b.readerIndex_ + i - 1] = s[i]
    PROVE  Content(b) = s
<1>1. /\ Content(b) \in Seq(S) /\ Len(Content(b)) = Len(s)
      /\ \A i \in 1..Len(s) : Content(b)[i] = s[i]
  BY ContentProperties
<1> QED
  BY <1>1, SeqEqual

\* std::copy behind the content, in a vector with room for it.
LEMMA WriteBehind ==
    ASSUME NEW S, NEW b, TypedBuffer(b, S), NEW data \in Seq(S),
           b.writerIndex_ + Len(data) <= b.size
    PROVE  LET c == [b EXCEPT !.buffer_ = Copied(@, data, b.writerIndex_),
                              !.writerIndex_ = @ + Len(data)]
           IN  /\ TypedBuffer(c, S) /\ Content(c) = Content(b) \o data
               /\ c.readerIndex_ = b.readerIndex_ /\ c.size = b.size
<1>1. PICK v, size, r, w : /\ v = b.buffer_ /\ size = b.size
                           /\ r = b.readerIndex_ /\ w = b.writerIndex_
  OBVIOUS
<1>2. /\ b = Made(v, size, r, w)
      /\ size \in Nat /\ r \in Nat /\ w \in Nat /\ v \in [0..(size - 1) -> S]
      /\ r <= w /\ w + Len(data) <= size
  BY <1>1, BufferParts
<1>3. PICK n \in Nat : n = Len(data)
  BY LenProperties
<1>4. PICK f : f = Copied(v, data, w)
  OBVIOUS
<1>5. /\ f \in [0..(size - 1) -> S]
      /\ \A i \in 0..(size - 1) : i < w => f[i] = v[i]
      /\ \A j \in 1..n : w + j <= size => f[w + j - 1] = data[j]
  <2>1. /\ Copied(v, data, w) \in [0..(size - 1) -> S]
        /\ \A i \in 0..(size - 1) :
              (i < w \/ i >= w + Len(data)) => Copied(v, data, w)[i] = v[i]
        /\ \A j \in 1..Len(data) :
              w + j <= size => Copied(v, data, w)[w + j - 1] = data[j]
    BY <1>2, CopiedProperties
  <2> QED
    BY <1>3, <1>4, <2>1
<1>6. PICK c : c = Made(f, size, r, w + n)
  OBVIOUS
<1>7. [b EXCEPT !.buffer_ = Copied(@, data, b.writerIndex_), !.writerIndex_ = @ + Len(data)] = c
  <2>1. Copied(b.buffer_, data, b.writerIndex_) = f /\ b.writerIndex_ + Len(data) = w + n
    BY <1>1, <1>3, <1>4
  <2>2. [b EXCEPT !.buffer_ = f, !.writerIndex_ = w + n] = c
    <3>1. PICK d : d = [b EXCEPT !.buffer_ = f]
      OBVIOUS
    <3>2. d = Made(f, size, r, w)
      BY <1>2, <3>1 DEF Made
    <3>3. [d EXCEPT !.writerIndex_ = w + n] = c
      BY <1>6, <3>2 DEF Made
    <3> QED
      BY <3>1, <3>3
  <2>3. [b EXCEPT !.buffer_ = Copied(@, data, b.writerIndex_), !.writerIndex_ = @ + Len(data)]
          = [b EXCEPT !.buffer_ = f, !.writerIndex_ = w + n]
    BY <2>1, Zenon
  <2> QED
    BY <2>2, <2>3
<1>8. TypedBuffer(c, S)
  BY <1>2, <1>3, <1>5, <1>6, MadeTyped
<1>9. c.readerIndex_ = r /\ c.writerIndex_ = w + n /\ c.buffer_ = f /\ c.size = size
  BY <1>6 DEF Made
<1>10. PICK s \in Seq(S) : s = Content(b) \o data
  BY ContentProperties, ConcatBytes
<1>11. /\ Len(s) = (w - r) + n
       /\ \A i \in 1..(w - r) : s[i] = v[r + i - 1]
       /\ \A i \in 1..n : s[(w - r) + i] = data[i]
  <2>1. PICK t \in Seq(S) : t = Content(b)
    BY ContentProperties
  <2>2. Len(t) = w - r /\ \A i \in 1..(w - r) : t[i] = v[r + i - 1]
    BY <1>1, <2>1, ContentProperties
  <2>3. /\ Len(s) = Len(t) + Len(data)
        /\ \A i \in 1..Len(t) : s[i] = t[i]
        /\ \A i \in 1..Len(data) : s[Len(t) + i] = data[i]
    BY <1>10, <2>1, ConcatBytes
  <2> QED
    BY <1>3, <2>2, <2>3
<1>12. ASSUME NEW i \in 1..((w - r) + n) PROVE f[r + i - 1] = s[i]
  <2>1. CASE i <= w - r
    <3>1. i \in 1..(w - r) /\ r + i - 1 \in 0..(size - 1) /\ r + i - 1 < w
      BY <1>2, <1>3, <2>1
    <3> QED
      BY <1>5, <1>11, <3>1
  <2>2. CASE i > w - r
    <3>1. PICK j \in 1..n : i = (w - r) + j
      <4>1. i - (w - r) \in 1..n /\ i = (w - r) + (i - (w - r))
        BY <1>2, <1>3, <2>2
      <4> QED
        BY <4>1
    <3>2. w + j <= size /\ w + j - 1 = r + i - 1
      BY <1>2, <1>3, <3>1
    <3> QED
      BY <1>5, <1>11, <3>1, <3>2
  <2> QED
    BY <1>2, <2>1, <2>2
<1>13. Content(c) = s
  <2>1. c.writerIndex_ - c.readerIndex_ = Len(s)
    BY <1>2, <1>3, <1>9, <1>11
  <2>2. \A i \in 1..Len(s) : c.buffer_[c.readerIndex_ + i - 1] = s[i]
    BY <1>9, <1>11, <1>12
  <2> QED
    BY <1>8, <2>1, <2>2, SameContent
<1> QED
  BY <1>1, <1>7, <1>8, <1>9, <1>10, <1>13

\* makeSpace: the vector grows, or the content moves down to where it started;
\* the content is the same, and there is room for len bytes behind it.
LEMMA SpaceMade ==
    ASSUME NEW S, Fill \in S, NEW b, InputBuffer(b, S), NEW len \in Nat
    PROVE  /\ InputBuffer(ensureWritableBytes(b, len), S)
           /\ Content(ensureWritableBytes(b, len)) = Content(b)
           /\ writableBytes(ensureWritableBytes(b, len)) >= len
<1>1. PICK v, size, r, w : /\ v = b.buffer_ /\ size = b.size
                           /\ r = b.readerIndex_ /\ w = b.writerIndex_
  OBVIOUS
<1>2. /\ b = Made(v, size, r, w)
      /\ size \in Nat /\ r \in Nat /\ w \in Nat /\ v \in [0..(size - 1) -> S]
      /\ r <= w /\ w <= size /\ kCheapPrepend <= r /\ kCheapPrepend \in Nat
  BY <1>1, BufferParts, BufferAssumption DEF InputBuffer
<1>3. PICK s \in Seq(S) : s = Content(b)
  BY ContentProperties DEF InputBuffer
<1>4. Len(s) = w - r /\ \A i \in 1..(w - r) : s[i] = v[r + i - 1]
  BY <1>1, <1>3, ContentProperties DEF InputBuffer
<1>5. writableBytes(b) = size - w /\ prependableBytes(b) = r /\ readableBytes(b) = w - r
  BY <1>1 DEF writableBytes, prependableBytes, readableBytes
<1>6. PICK c : c = ensureWritableBytes(b, len)
  OBVIOUS
<1>7. SUFFICES InputBuffer(c, S) /\ Content(c) = s /\ writableBytes(c) >= len
  BY <1>3, <1>6
<1>8. CASE size - w >= len
  <2>1. c = b
    BY <1>2, <1>5, <1>6, <1>8 DEF ensureWritableBytes
  <2> QED
    BY <1>3, <1>5, <1>8, <2>1
<1>9. CASE size - w < len /\ (size - w) + r < len + kCheapPrepend
  <2>1. PICK f : f = [i \in 0..(w + len - 1) |-> IF i < size THEN v[i] ELSE Fill]
    OBVIOUS
  <2>2. c = Made(f, w + len, r, w)
    BY <1>2, <1>5, <1>6, <1>9, <2>1 DEF ensureWritableBytes, makeSpace, Made
  <2>3. f \in [0..(w + len - 1) -> S]
    BY <1>2, <2>1
  <2>4. TypedBuffer(c, S)
    BY <1>2, <2>2, <2>3, MadeTyped
  <2>5. c.readerIndex_ = r /\ c.writerIndex_ = w /\ c.buffer_ = f /\ c.size = w + len
    BY <2>2 DEF Made
  <2>6. ASSUME NEW i \in 1..(w - r) PROVE f[r + i - 1] = s[i]
    <3>1. r + i - 1 \in 0..(w + len - 1) /\ r + i - 1 < size
      BY <1>2
    <3> QED
      BY <1>4, <2>1, <3>1
  <2>7. Content(c) = s
    BY <1>4, <2>4, <2>5, <2>6, SameContent
  <2>8. writableBytes(c) >= len
    BY <1>2, <2>5 DEF writableBytes
  <2> QED
    BY <1>2, <2>4, <2>5, <2>7, <2>8 DEF InputBuffer
<1>10. CASE size - w < len /\ ~((size - w) + r < len + kCheapPrepend)
  <2>1. PICK f, n : f = Copied(v, s, kCheapPrepend) /\ n = w - r
    OBVIOUS
  <2>2. c = Made(f, size, kCheapPrepend, kCheapPrepend + n)
    BY <1>2, <1>3, <1>5, <1>6, <1>10, <2>1 DEF ensureWritableBytes, makeSpace, Made
  <2>3. n \in Nat /\ kCheapPrepend + n <= size
    BY <1>2, <2>1
  <2>4. /\ f \in [0..(size - 1) -> S]
        /\ \A j \in 1..n : kCheapPrepend + j <= size => f[kCheapPrepend + j - 1] = s[j]
    <3>1. /\ Copied(v, s, kCheapPrepend) \in [0..(size - 1) -> S]
          /\ \A j \in 1..Len(s) :
                kCheapPrepend + j <= size =>
                   Copied(v, s, kCheapPrepend)[kCheapPrepend + j - 1] = s[j]
      BY <1>2, CopiedProperties
    <3> QED
      BY <1>4, <2>1, <3>1
  <2>5. TypedBuffer(c, S)
    BY <1>2, <2>2, <2>3, <2>4, MadeTyped
  <2>6. /\ c.readerIndex_ = kCheapPrepend /\ c.writerIndex_ = kCheapPrepend + n
        /\ c.buffer_ = f /\ c.size = size
    BY <2>2 DEF Made
  <2>7. \A i \in 1..n : f[kCheapPrepend + i - 1] = s[i]
    BY <1>2, <2>3, <2>4
  <2>8. Content(c) = s
    <3>1. c.writerIndex_ - c.readerIndex_ = Len(s)
      BY <1>2, <1>4, <2>1, <2>6
    <3> QED
      BY <1>4, <2>1, <2>5, <2>6, <2>7, <3>1, SameContent
  <2>9. writableBytes(c) >= len
    BY <1>2, <1>10, <2>1, <2>6 DEF writableBytes
  <2> QED
    BY <1>2, <2>5, <2>6, <2>8, <2>9 DEF InputBuffer
<1> QED
  BY <1>2, <1>8, <1>9, <1>10

\* append: the data is behind the content, whatever had to be grown or moved.
LEMMA AppendContent ==
    ASSUME NEW S, Fill \in S, NEW b, InputBuffer(b, S), NEW data \in Seq(S)
    PROVE  InputBuffer(append(b, data), S) /\ Content(append(b, data)) = Content(b) \o data
<1>1. PICK room : room = ensureWritableBytes(b, Len(data))
  OBVIOUS
<1>2. /\ InputBuffer(room, S) /\ Content(room) = Content(b)
      /\ writableBytes(room) >= Len(data) /\ Len(data) \in Nat
  BY <1>1, SpaceMade, LenProperties
<1>3. room.writerIndex_ + Len(data) <= room.size
  BY <1>2, BufferParts DEF InputBuffer, writableBytes
<1>4. PICK c : c = [room EXCEPT !.buffer_ = Copied(@, data, room.writerIndex_),
                                !.writerIndex_ = @ + Len(data)]
  OBVIOUS
<1>5. /\ TypedBuffer(c, S) /\ Content(c) = Content(room) \o data
      /\ c.readerIndex_ = room.readerIndex_
  BY <1>2, <1>3, <1>4, WriteBehind DEF InputBuffer
<1>6. append(b, data) = c
  BY <1>1, <1>4 DEF append
<1> QED
  BY <1>2, <1>5, <1>6 DEF InputBuffer

\* Part of a sequence, perhaps empty.
LEMMA SubSeqBytes ==
    ASSUME NEW S, NEW s \in Seq(S), NEW m \in Nat, NEW n \in Nat, m <= n, n <= Len(s)
    PROVE  /\ SubSeq(s, m + 1, n) \in Seq(S)
           /\ Len(SubSeq(s, m + 1, n)) = n - m
           /\ \A i \in 1..(n - m) : SubSeq(s, m + 1, n)[i] = s[m + i]
<1>1. PICK k \in Int : k = m + 1
  OBVIOUS
<1>2. Len(s) \in Nat
  BY LenProperties
<1>3. \A i \in k..n : i \in 1..Len(s)
  BY <1>1, <1>2
<1>4. \A i \in k..n : s[i] \in S
  BY <1>3, ElementOfSeq
<1>5. /\ SubSeq(s, k, n) \in Seq(S)
      /\ Len(SubSeq(s, k, n)) = IF k <= n THEN n - k + 1 ELSE 0
      /\ \A i \in 1..(n - k + 1) : SubSeq(s, k, n)[i] = s[k + i - 1]
  BY <1>4, SubSeqProperties
<1>6. /\ Len(SubSeq(s, k, n)) = n - m
      /\ n - k + 1 = n - m
      /\ \A i \in 1..(n - m) : k + i - 1 = m + i
  BY <1>1, <1>5
<1>7. \A i \in 1..(n - m) : SubSeq(s, k, n)[i] = s[m + i]
  BY <1>5, <1>6
<1> QED
  BY <1>1, <1>5, <1>6, <1>7

\* Two parts of a sequence, one behind the other, perhaps empty.
LEMMA SubSeqAdjacent ==
    ASSUME NEW S, NEW s \in Seq(S), NEW l \in Nat, NEW m \in Nat, NEW n \in Nat,
           l <= m, m <= n, n <= Len(s)
    PROVE  SubSeq(s, l + 1, m) \o SubSeq(s, m + 1, n) = SubSeq(s, l + 1, n)
<1>1. PICK k : k = l + 1
  OBVIOUS
<1>2. /\ Len(s) \in Nat
      /\ k \in 1..(Len(s) + 1) /\ m \in (k - 1)..Len(s) /\ n \in m..Len(s)
  BY <1>1, LenProperties
<1>3. SubSeq(s, k, m) \o SubSeq(s, m + 1, n) = SubSeq(s, k, n)
  BY <1>2, ConcatAdjacentSubSeq
<1> QED
  BY <1>1, <1>3

\* The front and the rest of a sequence make it.
LEMMA SplitSeq ==
    ASSUME NEW S, NEW s \in Seq(S), NEW n \in Nat, n <= Len(s)
    PROVE  SubSeq(s, 1, n) \o SubSeq(s, n + 1, Len(s)) = s
<1>1. PICK z \in Nat : z = 0
  OBVIOUS
<1>2. Len(s) \in Nat /\ z <= n /\ z + 1 = 1 /\ Len(s) <= Len(s)
  BY <1>1, LenProperties
<1>3. SubSeq(s, z + 1, n) \o SubSeq(s, n + 1, Len(s)) = SubSeq(s, z + 1, Len(s))
  BY <1>2, SubSeqAdjacent
<1>4. SubSeq(s, 1, Len(s)) = s
  BY SubSeqFull
<1> QED
  BY <1>2, <1>3, <1>4

\* readFd: what does not fit is appended from the second buffer, and the
\* content ends with all the bytes read.
LEMMA ReadContent ==
    ASSUME NEW S, Fill \in S, NEW b, InputBuffer(b, S), NEW data \in Seq(S)
    PROVE  InputBuffer(readFd(b, data), S) /\ Content(readFd(b, data)) = Content(b) \o data
<1>1. PICK v, size, r, w : /\ v = b.buffer_ /\ size = b.size
                           /\ r = b.readerIndex_ /\ w = b.writerIndex_
  OBVIOUS
<1>2. /\ size \in Nat /\ r \in Nat /\ w \in Nat /\ v \in [0..(size - 1) -> S]
      /\ r <= w /\ w <= size
  BY <1>1, BufferParts DEF InputBuffer
<1>3. PICK n \in Nat : n = size - w
  BY <1>2
<1>4. writableBytes(b) = n /\ Len(data) \in Nat
  BY <1>1, <1>3, LenProperties DEF writableBytes
<1>5. CASE Len(data) <= n
  <2>1. PICK c : c = [b EXCEPT !.buffer_ = Copied(@, data, b.writerIndex_),
                               !.writerIndex_ = @ + Len(data)]
    OBVIOUS
  <2>2. /\ TypedBuffer(c, S) /\ Content(c) = Content(b) \o data
        /\ c.readerIndex_ = b.readerIndex_
    <3>1. b.writerIndex_ + Len(data) <= b.size
      BY <1>1, <1>2, <1>3, <1>4, <1>5
    <3> QED
      BY <2>1, <3>1, WriteBehind DEF InputBuffer
  <2>3. readFd(b, data) = c
    BY <1>4, <1>5, <2>1 DEF readFd
  <2> QED
    BY <2>2, <2>3 DEF InputBuffer
<1>6. CASE n < Len(data)
  <2>1. PICK front, rest : front = SubSeq(data, 1, n) /\ rest = SubSeq(data, n + 1, Len(data))
    OBVIOUS
  <2>2. /\ front \in Seq(S) /\ Len(front) = n /\ rest \in Seq(S) /\ front \o rest = data
        /\ \A i \in 1..n : front[i] = data[i]
    <3>0. PICK z \in Nat : z = 0
      OBVIOUS
    <3>1. n <= Len(data) /\ z <= n /\ Len(data) <= Len(data) /\ z + 1 = 1 /\ n - z = n
      BY <1>4, <1>6, <3>0
    <3>2. front \o rest = data
      BY <2>1, <3>1, SplitSeq
    <3>3. rest \in Seq(S)
      BY <1>4, <2>1, <3>1, SubSeqBytes
    <3>4. /\ SubSeq(data, z + 1, n) \in Seq(S)
          /\ Len(SubSeq(data, z + 1, n)) = n - z
          /\ \A i \in 1..(n - z) : SubSeq(data, z + 1, n)[i] = data[z + i]
      BY <3>1, SubSeqBytes
    <3>5. \A i \in 1..n : z + i = i
      BY <3>0
    <3> QED
      BY <2>1, <3>1, <3>2, <3>3, <3>4, <3>5
  <2>3. Copied(v, data, w) = Copied(v, front, w)
    <3>1. ASSUME NEW i \in 0..(size - 1)
          PROVE  (IF i >= w /\ i < w + Len(data) THEN data[i - w + 1] ELSE v[i])
                   = (IF i >= w /\ i < w + n THEN front[i - w + 1] ELSE v[i])
      <4>1. i < w + n /\ i < w + Len(data)
        BY <1>2, <1>3, <1>4, <1>6
      <4>2. CASE i >= w
        <5>1. i - w + 1 \in 1..n
          BY <1>2, <4>1, <4>2
        <5> QED
          BY <2>2, <4>1, <4>2, <5>1
      <4> QED
        BY <4>1, <4>2
    <3>2. DOMAIN v = 0..(size - 1)
      BY <1>2
    <3> QED
      BY <2>2, <3>1, <3>2 DEF Copied
  <2>4. PICK c : c = [b EXCEPT !.buffer_ = Copied(@, front, b.writerIndex_),
                               !.writerIndex_ = @ + Len(front)]
    OBVIOUS
  <2>5. /\ TypedBuffer(c, S) /\ Content(c) = Content(b) \o front
        /\ c.readerIndex_ = b.readerIndex_
    <3>1. b.writerIndex_ + Len(front) <= b.size
      BY <1>1, <1>2, <1>3, <2>2
    <3>2. front \in Seq(S) /\ TypedBuffer(b, S)
      BY <2>2 DEF InputBuffer
    <3> QED
      BY <2>4, <3>1, <3>2, WriteBehind
  <2>6. InputBuffer(c, S)
    BY <2>5 DEF InputBuffer
  <2>7. c = [b EXCEPT !.buffer_ = Copied(@, data, b.writerIndex_), !.writerIndex_ = b.size]
    <3>1. /\ Copied(b.buffer_, front, b.writerIndex_) = Copied(b.buffer_, data, b.writerIndex_)
          /\ b.writerIndex_ + Len(front) = b.size
      BY <1>1, <1>2, <1>3, <2>2, <2>3
    <3> QED
      BY <2>4, <3>1, Zenon
  <2>8. readFd(b, data) = append(c, rest)
    <3>1. ~(Len(data) <= n)
      BY <1>4, <1>6
    <3> QED
      BY <1>4, <2>1, <2>7, <3>1 DEF readFd
  <2>9. /\ InputBuffer(append(c, rest), S)
        /\ Content(append(c, rest)) = (Content(b) \o front) \o rest
    BY <2>2, <2>5, <2>6, AppendContent
  <2>10. (Content(b) \o front) \o rest = Content(b) \o data
    <3>1. PICK s \in Seq(S) : s = Content(b)
      BY ContentProperties DEF InputBuffer
    <3>2. \A t, u \in Seq(S) : (s \o t) \o u = s \o (t \o u)
      BY ConcatAssociative
    <3> QED
      BY <2>2, <3>1, <3>2
  <2> QED
    BY <2>8, <2>9, <2>10
<1> QED
  BY <1>4, <1>5, <1>6

\* A new buffer is empty.
LEMMA NewBufferEmpty ==
    ASSUME NEW S, Fill \in S
    PROVE  /\ InputBuffer(NewBuffer, S) /\ Content(NewBuffer) = <<>>
           /\ NewBuffer.readerIndex_ = kCheapPrepend
<1>1. PICK size, f : /\ size = kCheapPrepend + kInitialSize
                     /\ f = [i \in 0..(kCheapPrepend + kInitialSize - 1) |-> Fill]
  OBVIOUS
<1>2. /\ size \in Nat /\ kCheapPrepend \in Nat /\ kCheapPrepend <= size
      /\ kCheapPrepend + kInitialSize - 1 = size - 1
  BY <1>1, BufferAssumption
<1>3. f \in [0..(size - 1) -> S]
  <2>1. f = [i \in 0..(size - 1) |-> Fill]
    BY <1>1, <1>2, Zenon
  <2> QED
    BY <2>1
<1>4. NewBuffer = Made(f, size, kCheapPrepend, kCheapPrepend)
  BY <1>1, Zenon DEF NewBuffer, Made
<1>5. TypedBuffer(NewBuffer, S)
  BY <1>2, <1>3, <1>4, MadeTyped
<1>6. NewBuffer.readerIndex_ = kCheapPrepend /\ NewBuffer.writerIndex_ = kCheapPrepend
  BY <1>4 DEF Made
<1>7. Content(NewBuffer) \in Seq(S) /\ Len(Content(NewBuffer)) = kCheapPrepend - kCheapPrepend
  BY <1>5, <1>6, ContentProperties
<1>8. Content(NewBuffer) = <<>>
  BY <1>2, <1>7, EmptySeq
<1> QED
  BY <1>2, <1>5, <1>6, <1>8 DEF InputBuffer

\* retrieve: the first len bytes are gone, the others stay.
LEMMA RetrieveContent ==
    ASSUME NEW S, NEW b, InputBuffer(b, S), NEW len \in Nat, len <= Len(Content(b))
    PROVE  /\ InputBuffer(retrieve(b, len), S)
           /\ Content(retrieve(b, len)) = SubSeq(Content(b), len + 1, Len(Content(b)))
<1>1. PICK v, size, r, w : /\ v = b.buffer_ /\ size = b.size
                           /\ r = b.readerIndex_ /\ w = b.writerIndex_
  OBVIOUS
<1>2. /\ b = Made(v, size, r, w)
      /\ size \in Nat /\ r \in Nat /\ w \in Nat /\ v \in [0..(size - 1) -> S]
      /\ r <= w /\ w <= size /\ kCheapPrepend <= r /\ kCheapPrepend \in Nat
  BY <1>1, BufferParts, BufferAssumption DEF InputBuffer
<1>3. PICK s \in Seq(S) : s = Content(b)
  BY ContentProperties DEF InputBuffer
<1>4. Len(s) = w - r /\ Len(s) = readableBytes(b) /\ \A i \in 1..(w - r) : s[i] = v[r + i - 1]
  BY <1>1, <1>3, ContentProperties DEF InputBuffer
<1>5. PICK n \in Nat : n = Len(s) /\ n = w - r /\ len <= n
  BY <1>2, <1>3, <1>4
<1>6. PICK t : t = SubSeq(s, len + 1, n)
  OBVIOUS
<1>7. t \in Seq(S) /\ Len(t) = n - len /\ \A i \in 1..(n - len) : t[i] = s[len + i]
  <2>1. n <= Len(s)
    BY <1>5
  <2> QED
    BY <1>5, <1>6, <2>1, SubSeqBytes
<1>8. PICK c : c = retrieve(b, len)
  OBVIOUS
<1>9. SUFFICES InputBuffer(c, S) /\ Content(c) = t
  BY <1>3, <1>5, <1>6, <1>8
<1>10. CASE len < n
  <2>1. c = Made(v, size, r + len, w)
    <3>1. c = [b EXCEPT !.readerIndex_ = @ + len]
      BY <1>4, <1>5, <1>8, <1>10 DEF retrieve
    <3> QED
      BY <1>2, <3>1 DEF Made
  <2>2. r + len \in Nat /\ r + len <= w /\ kCheapPrepend <= r + len
    BY <1>2, <1>5
  <2>3. TypedBuffer(c, S)
    BY <1>2, <2>1, <2>2, MadeTyped
  <2>4. c.readerIndex_ = r + len /\ c.writerIndex_ = w /\ c.buffer_ = v
    BY <2>1 DEF Made
  <2>5. ASSUME NEW i \in 1..Len(t) PROVE v[r + len + i - 1] = t[i]
    <3>1. PICK j \in 1..n : j = len + i
      BY <1>5, <1>7
    <3>2. r + j - 1 = r + len + i - 1
      BY <1>2, <3>1
    <3>3. t[i] = s[j] /\ s[j] = v[r + j - 1]
      BY <1>4, <1>5, <1>7, <3>1
    <3> QED
      BY <3>2, <3>3
  <2>6. c.writerIndex_ - c.readerIndex_ = Len(t)
    BY <1>2, <1>5, <1>7, <2>4
  <2>7. \A i \in 1..Len(t) : c.buffer_[c.readerIndex_ + i - 1] = t[i]
    BY <2>4, <2>5
  <2> QED
    BY <1>7, <2>2, <2>3, <2>4, <2>6, <2>7, SameContent DEF InputBuffer
<1>11. CASE len = n
  <2>1. c = Made(v, size, kCheapPrepend, kCheapPrepend)
    <3>0. ~(len < readableBytes(b))
      BY <1>4, <1>5, <1>11
    <3>1. c = [b EXCEPT !.readerIndex_ = kCheapPrepend, !.writerIndex_ = kCheapPrepend]
      BY <1>8, <3>0, Zenon DEF retrieve, retrieveAll
    <3>2. PICK d : d = [b EXCEPT !.readerIndex_ = kCheapPrepend]
      OBVIOUS
    <3>3. d = Made(v, size, kCheapPrepend, w)
      BY <1>2, <3>2 DEF Made
    <3>4. c = [d EXCEPT !.writerIndex_ = kCheapPrepend]
      BY <3>1, <3>2
    <3> QED
      BY <3>3, <3>4 DEF Made
  <2>2. TypedBuffer(c, S)
    BY <1>2, <2>1, MadeTyped
  <2>3. c.readerIndex_ = kCheapPrepend /\ c.writerIndex_ = kCheapPrepend
    BY <2>1 DEF Made
  <2>4. Len(t) = 0
    BY <1>5, <1>7, <1>11
  <2>5. c.writerIndex_ - c.readerIndex_ = Len(t)
    BY <1>2, <2>3, <2>4
  <2>6. \A i \in 1..Len(t) : c.buffer_[c.readerIndex_ + i - 1] = t[i]
    BY <2>4
  <2> QED
    BY <1>2, <2>2, <2>3, <2>5, <2>6, SameContent DEF InputBuffer
<1> QED
  BY <1>5, <1>10, <1>11

\* prepend: the data is in front of the content, if it fits there.
LEMMA PrependContent ==
    ASSUME NEW S, NEW b, TypedBuffer(b, S), NEW data \in Seq(S), Len(data) <= b.readerIndex_
    PROVE  Content(prepend(b, data)) = data \o Content(b)
<1>1. PICK v, size, r, w : /\ v = b.buffer_ /\ size = b.size
                           /\ r = b.readerIndex_ /\ w = b.writerIndex_
  OBVIOUS
<1>2. /\ b = Made(v, size, r, w)
      /\ size \in Nat /\ r \in Nat /\ w \in Nat /\ v \in [0..(size - 1) -> S]
      /\ r <= w /\ w <= size
  BY <1>1, BufferParts
<1>3. PICK n \in Nat : n = Len(data)
  BY LenProperties
<1>4. PICK at \in Nat : at = r - n
  BY <1>1, <1>2, <1>3
<1>5. PICK f : f = Copied(v, data, at)
  OBVIOUS
<1>6. /\ f \in [0..(size - 1) -> S]
      /\ \A i \in 0..(size - 1) : i >= at + n => f[i] = v[i]
      /\ \A j \in 1..n : at + j <= size => f[at + j - 1] = data[j]
  <2>1. /\ Copied(v, data, at) \in [0..(size - 1) -> S]
        /\ \A i \in 0..(size - 1) :
              (i < at \/ i >= at + Len(data)) => Copied(v, data, at)[i] = v[i]
        /\ \A j \in 1..Len(data) :
              at + j <= size => Copied(v, data, at)[at + j - 1] = data[j]
    <3>1. size \in Nat /\ v \in [0..(size - 1) -> S]
      BY <1>2
    <3> QED
      BY <3>1, CopiedProperties, SMTT(30)
  <2> QED
    BY <1>3, <1>5, <2>1
<1>7. PICK c : c = prepend(b, data)
  OBVIOUS
<1>8. c = Made(f, size, at, w)
  <2>1. c = [b EXCEPT !.buffer_ = f, !.readerIndex_ = at]
    <3>1. /\ Copied(b.buffer_, data, b.readerIndex_ - Len(data)) = f
          /\ b.readerIndex_ - Len(data) = at
      BY <1>1, <1>3, <1>4, <1>5
    <3> QED
      BY <1>7, <3>1, Zenon DEF prepend
  <2>2. PICK d : d = [b EXCEPT !.buffer_ = f]
    OBVIOUS
  <2>3. d = Made(f, size, r, w)
    BY <1>2, <2>2 DEF Made
  <2>4. c = [d EXCEPT !.readerIndex_ = at]
    BY <2>1, <2>2
  <2> QED
    BY <2>3, <2>4 DEF Made
<1>9. TypedBuffer(c, S)
  BY <1>2, <1>3, <1>4, <1>6, <1>8, MadeTyped
<1>10. c.readerIndex_ = at /\ c.writerIndex_ = w /\ c.buffer_ = f
  BY <1>8 DEF Made
<1>11. PICK t \in Seq(S) : t = Content(b)
  BY ContentProperties
<1>12. Len(t) = w - r /\ \A i \in 1..(w - r) : t[i] = v[r + i - 1]
  BY <1>1, <1>11, ContentProperties
<1>13. PICK s \in Seq(S) : s = data \o t
  BY ConcatBytes
<1>14. /\ Len(s) = n + (w - r)
       /\ \A i \in 1..n : s[i] = data[i]
       /\ \A i \in 1..(w - r) : s[n + i] = v[r + i - 1]
  <2>1. /\ Len(s) = Len(data) + Len(t)
        /\ \A i \in 1..Len(data) : s[i] = data[i]
        /\ \A i \in 1..Len(t) : s[Len(data) + i] = t[i]
    BY <1>13, ConcatBytes
  <2> QED
    BY <1>3, <1>12, <2>1
<1>15. ASSUME NEW i \in 1..(n + (w - r)) PROVE f[at + i - 1] = s[i]
  <2>1. CASE i <= n
    <3>1. i \in 1..n /\ at + i <= size
      BY <1>2, <1>3, <1>4, <2>1
    <3> QED
      BY <1>6, <1>14, <3>1
  <2>2. CASE i > n
    <3>1. PICK j \in 1..(w - r) : i = n + j
      <4>1. i - n \in 1..(w - r) /\ i = n + (i - n)
        BY <1>2, <1>3, <2>2
      <4> QED
        BY <4>1
    <3>2. /\ at + i - 1 \in 0..(size - 1) /\ at + i - 1 >= at + n
          /\ at + i - 1 = r + j - 1
      BY <1>2, <1>3, <1>4, <3>1
    <3>3. f[at + i - 1] = v[at + i - 1]
      BY <1>6, <3>2
    <3> QED
      BY <1>14, <3>1, <3>2, <3>3
  <2> QED
    BY <1>3, <2>1, <2>2
<1>16. c.writerIndex_ - c.readerIndex_ = Len(s)
  BY <1>2, <1>3, <1>4, <1>10, <1>14
<1>17. \A i \in 1..Len(s) : c.buffer_[c.readerIndex_ + i - 1] = s[i]
  BY <1>10, <1>14, <1>15
<1>18. Content(c) = s
  BY <1>9, <1>16, <1>17, SameContent
<1> QED
  BY <1>7, <1>11, <1>13, <1>18

\* ensureWritableBytes, makeSpace: their asserts hold for a write of any length.
LEMMA AssertsHold ==
    ASSUME NEW S, Fill \in S, NEW b, InputBuffer(b, S), NEW len \in Nat
    PROVE  RoomFor(b, len)
<1>1. writableBytes(ensureWritableBytes(b, len)) >= len
  BY SpaceMade
<1>2. /\ b.size \in Nat /\ b.readerIndex_ \in Nat /\ b.writerIndex_ \in Nat
      /\ kCheapPrepend \in Nat
  BY BufferParts, BufferAssumption DEF InputBuffer
<1>3. ASSUME writableBytes(b) < len,
             writableBytes(b) + prependableBytes(b) >= len + kCheapPrepend
      PROVE  kCheapPrepend < b.readerIndex_
  BY <1>2, <1>3 DEF writableBytes, prependableBytes
<1> QED
  BY <1>1, <1>3 DEF RoomFor
-----------------------------------------------------------------------------
(* The inductive invariant of the codec. *)

\* What a byte of the vector can hold.
Cell == ({"h", "b"} \X Nat \X Nat) \cup {Fill}

\* The types of all variables, the buffer's contents included.
Types == /\ announced \in Seq(Lengths) /\ Len(announced) <= NumMessages
         /\ stream \in Seq(Cell)
         /\ ends \in Seq(Nat) /\ Len(ends) = Len(announced)
         /\ received \in Nat /\ received <= Len(stream)
         /\ InputBuffer(inputBuffer_, Cell)
         /\ delivered \in Seq(Seq(Cell))
         /\ state_ \in {"kConnected", "kDisconnecting"}
         /\ pc \in {"poll", "onMessage"}

\* Message m is in the stream behind message m - 1, its header first.
Framed(m) ==
    /\ EndOf(m) = EndOf(m - 1) + kHeaderLen + BodyLen(announced[m])
    /\ \A j \in 1..kHeaderLen : stream[EndOf(m - 1) + j] = <<"h", m, j>>
    /\ \A j \in 1..BodyLen(announced[m]) :
          stream[EndOf(m - 1) + kHeaderLen + j] = <<"b", m, j>>

\* The stream is one frame after the other.
StreamFramed ==
    /\ Len(stream) = EndOf(Len(announced))
    /\ \A m \in 1..Len(announced) : Framed(m)
    /\ \A m \in 0..Len(announced) : EndOf(m) \in Nat
    /\ \A k, m \in 0..Len(announced) : k <= m => EndOf(k) <= EndOf(m)

\* Messages handed over are the first ones, all legal, and the buffer starts
\* where the last of them ends.
HandedOver ==
    /\ Len(delivered) <= Len(announced) /\ EndOf(Len(delivered)) <= received
    /\ Content(inputBuffer_) = SubSeq(stream, EndOf(Len(delivered)) + 1, received)
    /\ \A m \in 1..Len(delivered) : /\ Legal(announced[m])
                                    /\ delivered[m] = Body(m, announced[m])

\* The front message is illegal, and its header is there.
FrontIllegal ==
    /\ Len(delivered) < Len(announced) /\ ~Legal(announced[Len(delivered) + 1])
    /\ received >= EndOf(Len(delivered)) + kHeaderLen

\* The front message is not complete.
FrontWaits ==
    \/ received < EndOf(Len(delivered)) + kHeaderLen
    \/ /\ Len(delivered) < Len(announced) /\ Legal(announced[Len(delivered) + 1])
       /\ received < EndOf(Len(delivered) + 1)

\* Only an illegal length shuts down, and onMessage returns with nothing to do.
Settled ==
    /\ state_ = "kDisconnecting" => FrontIllegal
    /\ pc = "poll" => FrontWaits \/ (FrontIllegal /\ state_ = "kDisconnecting")

CodecInv == Types /\ StreamFramed /\ HandedOver /\ Settled
-----------------------------------------------------------------------------
(* The other end. *)

\* The bounds of the code, as the steps below need them.
LEMMA HeaderFits == /\ kHeaderLen \in Nat /\ kHeaderLen >= 1 /\ kHeaderLen <= kCheapPrepend
                    /\ MaxLen \in Nat /\ NumMessages \in Nat
                    /\ \A len \in Lengths : len \in Int /\ BodyLen(len) \in Nat
                    /\ \A len \in Int : Legal(len) => BodyLen(len) = len /\ len \in Nat
BY CodecAssumption, BufferAssumption DEF BodyLen, Legal

\* Header and body of a message are sequences of bytes.
LEMMA PartsAreBytes ==
    ASSUME NEW m \in Nat, NEW len \in Lengths
    PROVE  /\ Header(m) \in Seq(Cell) /\ Len(Header(m)) = kHeaderLen
           /\ \A j \in 1..kHeaderLen : Header(m)[j] = <<"h", m, j>>
           /\ Body(m, len) \in Seq(Cell) /\ Len(Body(m, len)) = BodyLen(len)
           /\ \A j \in 1..BodyLen(len) : Body(m, len)[j] = <<"b", m, j>>
<1>1. PICK n \in Nat : n = BodyLen(len)
  BY HeaderFits
<1>2. \A j \in Nat : <<"h", m, j>> \in Cell /\ <<"b", m, j>> \in Cell
  BY DEF Cell
<1>3. Header(m) \in [1..kHeaderLen -> Cell] /\ Body(m, len) \in [1..n -> Cell]
  <2>1. \A j \in 1..kHeaderLen : j \in Nat
    BY HeaderFits
  <2>2. \A j \in 1..n : j \in Nat
    OBVIOUS
  <2>3. Header(m) \in [1..kHeaderLen -> Cell]
    BY <1>2, <2>1 DEF Header
  <2>4. Body(m, len) \in [1..n -> Cell]
    BY <1>1, <1>2, <2>2 DEF Body
  <2> QED
    BY <2>3, <2>4
<1>4. Header(m) \in Seq(Cell) /\ Len(Header(m)) = kHeaderLen
  BY <1>3, HeaderFits, FunctionIsSeq
<1>5. Body(m, len) \in Seq(Cell) /\ Len(Body(m, len)) = n
  BY <1>3, FunctionIsSeq
<1>6. \A j \in 1..kHeaderLen : Header(m)[j] = <<"h", m, j>>
  BY DEF Header
<1>7. \A j \in 1..n : Body(m, len)[j] = <<"b", m, j>>
  BY <1>1 DEF Body
<1> QED
  BY <1>1, <1>4, <1>5, <1>6, <1>7

\* LengthHeaderCodec::send: what goes out is the header, then the body, also
\* when the body is longer than a new buffer.
LEMMA FrameSent ==
    ASSUME NEW m \in Nat, NEW len \in Lengths
    PROVE  /\ send(m, len) \in Seq(Cell)
           /\ Len(send(m, len)) = kHeaderLen + BodyLen(len)
           /\ \A j \in 1..kHeaderLen : send(m, len)[j] = <<"h", m, j>>
           /\ \A j \in 1..BodyLen(len) : send(m, len)[kHeaderLen + j] = <<"b", m, j>>
<1>1. PICK h \in Seq(Cell), t \in Seq(Cell) : h = Header(m) /\ t = Body(m, len)
  BY PartsAreBytes
<1>2. /\ Len(h) = kHeaderLen /\ \A j \in 1..kHeaderLen : h[j] = <<"h", m, j>>
      /\ Len(t) = BodyLen(len) /\ \A j \in 1..BodyLen(len) : t[j] = <<"b", m, j>>
  BY <1>1, PartsAreBytes
<1>3. Fill \in Cell
  BY DEF Cell
<1>4. PICK b : b = append(NewBuffer, t)
  OBVIOUS
<1>5. InputBuffer(b, Cell) /\ Content(b) = <<>> \o t
  BY <1>3, <1>4, NewBufferEmpty, AppendContent
<1>6. TypedBuffer(b, Cell) /\ Len(h) <= b.readerIndex_
  <2>1. kCheapPrepend \in Nat /\ b.readerIndex_ \in Nat /\ kCheapPrepend <= b.readerIndex_
    BY <1>5, BufferParts, BufferAssumption DEF InputBuffer
  <2> QED
    BY <1>2, <1>5, <2>1, HeaderFits DEF InputBuffer
<1>7. send(m, len) = h \o (<<>> \o t)
  BY <1>1, <1>4, <1>5, <1>6, PrependContent DEF send
<1>8. send(m, len) = h \o t
  BY <1>7, ConcatProperties
<1>9. /\ h \o t \in Seq(Cell)
      /\ Len(h \o t) = Len(h) + Len(t)
      /\ \A i \in 1..Len(h) : (h \o t)[i] = h[i]
      /\ \A i \in 1..Len(t) : (h \o t)[Len(h) + i] = t[i]
  BY ConcatBytes
<1> QED
  BY <1>2, <1>8, <1>9

\* Sending changes none of the positions there were, and adds one.
LEMMA SendExtends ==
    ASSUME CodecInv, NEW len \in Lengths, Send(len)
    PROVE  \E frame \in Seq(Cell), n \in Nat :
             /\ n = Len(announced) + 1 /\ n <= NumMessages
             /\ frame = send(n, len)
             /\ announced' = Append(announced, len) /\ stream' = stream \o frame
             /\ announced' \in Seq(Lengths) /\ Len(announced') = n /\ announced'[n] = len
             /\ \A m \in 1..Len(announced) : announced'[m] = announced[m]
             /\ stream' \in Seq(Cell) /\ Len(stream') = Len(stream) + kHeaderLen + BodyLen(len)
             /\ \A i \in 1..Len(stream) : stream'[i] = stream[i]
             /\ \A i \in 1..Len(frame) : stream'[Len(stream) + i] = frame[i]
             /\ ends' \in Seq(Nat) /\ Len(ends') = n /\ EndOf(n)' = Len(stream')
             /\ \A m \in 0..Len(announced) : EndOf(m)' = EndOf(m)
<1>1. /\ announced \in Seq(Lengths) /\ stream \in Seq(Cell) /\ ends \in Seq(Nat)
      /\ Len(ends) = Len(announced) /\ Len(announced) \in Nat /\ Len(stream) \in Nat
  BY LenProperties DEF CodecInv, Types
<1>2. PICK n \in Nat : n = Len(announced) + 1
  BY <1>1
<1>3. PICK frame \in Seq(Cell) : frame = send(n, len)
  BY FrameSent
<1>4. /\ announced' = Append(announced, len) /\ stream' = stream \o frame
      /\ ends' = Append(ends, Len(stream')) /\ n <= NumMessages
  BY <1>1, <1>2, <1>3, HeaderFits DEF Send
<1>5. /\ announced' \in Seq(Lengths) /\ Len(announced') = n /\ announced'[n] = len
      /\ \A m \in 1..Len(announced) : announced'[m] = announced[m]
  BY <1>1, <1>2, <1>4, AppendProperties
<1>6. /\ stream' \in Seq(Cell) /\ Len(stream') = Len(stream) + Len(frame)
      /\ \A i \in 1..Len(stream) : stream'[i] = stream[i]
      /\ \A i \in 1..Len(frame) : stream'[Len(stream) + i] = frame[i]
  BY <1>1, <1>4, ConcatBytes
<1>7. Len(frame) = kHeaderLen + BodyLen(len)
  BY <1>3, FrameSent
<1>8. Len(stream') \in Nat
  BY <1>6, LenProperties
<1>9. /\ ends' \in Seq(Nat) /\ Len(ends') = n /\ ends'[n] = Len(stream')
      /\ \A m \in 1..Len(announced) : ends'[m] = ends[m]
  BY <1>1, <1>2, <1>4, <1>8, AppendProperties
<1>10. EndOf(n)' = Len(stream')
  BY <1>1, <1>2, <1>9 DEF EndOf
<1>11. ASSUME NEW m \in 0..Len(announced) PROVE EndOf(m)' = EndOf(m)
  BY <1>1, <1>9 DEF EndOf
<1>12. Len(stream') = Len(stream) + kHeaderLen + BodyLen(len)
  <2>1. kHeaderLen \in Nat /\ BodyLen(len) \in Nat
    BY HeaderFits
  <2> QED
    BY <1>1, <1>6, <1>7, <2>1
<1> QED
  BY <1>2, <1>3, <1>4, <1>5, <1>6, <1>9, <1>10, <1>11, <1>12

\* A frame is inside the stream.
LEMMA FrameInside ==
    ASSUME CodecInv, NEW m \in 1..Len(announced)
    PROVE  /\ EndOf(m - 1) \in Nat /\ EndOf(m) \in Nat /\ BodyLen(announced[m]) \in Nat
           /\ announced[m] \in Lengths
           /\ EndOf(m) = EndOf(m - 1) + kHeaderLen + BodyLen(announced[m])
           /\ EndOf(m) <= Len(stream)
           /\ \A j \in 1..kHeaderLen : EndOf(m - 1) + j \in 1..Len(stream)
           /\ \A j \in 1..BodyLen(announced[m]) :
                 EndOf(m - 1) + kHeaderLen + j \in 1..Len(stream)
<1>1. Len(announced) \in Nat /\ Len(stream) \in Nat /\ announced[m] \in Lengths
  BY LenProperties, ElementOfSeq DEF CodecInv, Types
<1>2. m - 1 \in 0..Len(announced) /\ m \in 0..Len(announced) /\ m <= Len(announced)
      /\ Len(announced) \in 0..Len(announced)
  BY <1>1
<1>3. /\ EndOf(m - 1) \in Nat /\ EndOf(m) \in Nat
      /\ EndOf(m) = EndOf(m - 1) + kHeaderLen + BodyLen(announced[m])
      /\ EndOf(m) <= Len(stream)
  BY <1>2 DEF CodecInv, StreamFramed, Framed
<1>4. kHeaderLen \in Nat /\ BodyLen(announced[m]) \in Nat
  BY <1>1, HeaderFits
<1>5. PICK e \in Nat, k \in Nat : e = EndOf(m - 1) /\ k = BodyLen(announced[m])
  BY <1>3, <1>4
<1>6. e + kHeaderLen + k <= Len(stream)
  BY <1>3, <1>5
<1>7. /\ \A j \in 1..kHeaderLen : e + j \in 1..Len(stream)
      /\ \A j \in 1..k : e + kHeaderLen + j \in 1..Len(stream)
  BY <1>1, <1>4, <1>6
<1> QED
  BY <1>1, <1>3, <1>4, <1>5, <1>7

\* send: the stream stays framed.
LEMMA SendStream ==
    ASSUME CodecInv, NEW len \in Lengths, Send(len)
    PROVE  StreamFramed'
<1>1. PICK frame \in Seq(Cell), n \in Nat :
             /\ n = Len(announced) + 1 /\ frame = send(n, len)
             /\ Len(announced') = n /\ announced'[n] = len
             /\ \A m \in 1..Len(announced) : announced'[m] = announced[m]
             /\ stream' \in Seq(Cell) /\ Len(stream') = Len(stream) + kHeaderLen + BodyLen(len)
             /\ \A i \in 1..Len(stream) : stream'[i] = stream[i]
             /\ \A i \in 1..Len(frame) : stream'[Len(stream) + i] = frame[i]
             /\ EndOf(n)' = Len(stream')
             /\ \A m \in 0..Len(announced) : EndOf(m)' = EndOf(m)
  BY SendExtends
<1>2. Len(announced) \in Nat /\ Len(stream) \in Nat /\ Len(stream') \in Nat
  BY <1>1, LenProperties DEF CodecInv, Types
<1>3. /\ Len(stream) = EndOf(Len(announced))
      /\ \A m \in 1..Len(announced) : Framed(m)
      /\ \A m \in 0..Len(announced) : EndOf(m) \in Nat
      /\ \A k, m \in 0..Len(announced) : k <= m => EndOf(k) <= EndOf(m)
  BY DEF CodecInv, StreamFramed
<1>4. kHeaderLen \in Nat /\ BodyLen(len) \in Nat
  BY HeaderFits
<1>5. ASSUME NEW m \in 1..Len(announced) PROVE Framed(m)'
  <2>1. m - 1 \in 0..Len(announced) /\ m \in 0..Len(announced)
    BY <1>2
  <2>2. EndOf(m)' = EndOf(m) /\ EndOf(m - 1)' = EndOf(m - 1) /\ announced'[m] = announced[m]
    BY <1>1, <2>1
  <2>3. Framed(m)
    BY <1>3
  <2>4. /\ \A j \in 1..kHeaderLen : stream'[EndOf(m - 1) + j] = stream[EndOf(m - 1) + j]
        /\ \A j \in 1..BodyLen(announced[m]) :
              stream'[EndOf(m - 1) + kHeaderLen + j] = stream[EndOf(m - 1) + kHeaderLen + j]
    BY <1>1, FrameInside
  <2>5. BodyLen(announced[m])' = BodyLen(announced[m])
    BY <2>2 DEF BodyLen, Legal
  <2> QED
    BY <2>2, <2>3, <2>4, <2>5 DEF Framed
<1>6. Framed(n)'
  <2>1. n - 1 = Len(announced) /\ Len(announced) \in 0..Len(announced)
    BY <1>1, <1>2
  <2>2. EndOf(n - 1)' = Len(stream)
    BY <1>1, <1>3, <2>1
  <2>3. BodyLen(announced[n])' = BodyLen(len)
    BY <1>1 DEF BodyLen, Legal
  <2>4. /\ Len(frame) = kHeaderLen + BodyLen(len)
        /\ \A j \in 1..kHeaderLen : frame[j] = <<"h", n, j>>
        /\ \A j \in 1..BodyLen(len) : frame[kHeaderLen + j] = <<"b", n, j>>
    BY <1>1, FrameSent
  <2>5. ASSUME NEW j \in 1..kHeaderLen PROVE stream'[Len(stream) + j] = <<"h", n, j>>
    <3>1. j \in 1..Len(frame)
      BY <1>4, <2>4
    <3> QED
      BY <1>1, <2>4, <3>1
  <2>6. ASSUME NEW j \in 1..BodyLen(len)
        PROVE  stream'[Len(stream) + kHeaderLen + j] = <<"b", n, j>>
    <3>1. PICK i \in 1..Len(frame) : i = kHeaderLen + j
      BY <1>4, <2>4
    <3>2. Len(stream) + i = Len(stream) + kHeaderLen + j
      BY <1>2, <1>4, <3>1
    <3>3. stream'[Len(stream) + i] = frame[i] /\ frame[i] = <<"b", n, j>>
      BY <1>1, <2>4, <3>1
    <3> QED
      BY <3>2, <3>3
  <2> QED
    BY <1>1, <2>2, <2>3, <2>5, <2>6 DEF Framed
<1>7. Len(stream) <= Len(stream')
  BY <1>1, <1>2, <1>4
<1>8. \A m \in 0..n : m = n \/ m \in 0..Len(announced)
  BY <1>1, <1>2
<1>9. \A m \in 0..n : EndOf(m)' \in Nat /\ EndOf(m)' <= Len(stream')
  <2>1. \A m \in 0..Len(announced) : EndOf(m) \in Nat /\ EndOf(m) <= Len(stream)
    BY <1>2, <1>3
  <2>2. \A m \in 0..Len(announced) : EndOf(m)' \in Nat /\ EndOf(m)' <= Len(stream')
    BY <1>1, <1>2, <1>7, <2>1
  <2> QED
    BY <1>1, <1>2, <1>8, <2>2
<1>10. ASSUME NEW k \in 0..n, NEW m \in 0..n, k <= m PROVE EndOf(k)' <= EndOf(m)'
  <2>1. CASE m = n
    BY <1>1, <1>9, <2>1
  <2>2. CASE m \in 0..Len(announced)
    <3>1. k \in 0..Len(announced)
      BY <1>2, <1>10, <2>2
    <3> QED
      BY <1>1, <1>3, <1>10, <2>2, <3>1
  <2> QED
    BY <1>8, <2>1, <2>2
<1>11. \A m \in 1..n : Framed(m)'
  BY <1>1, <1>2, <1>5, <1>6
<1> QED
  BY <1>1, <1>9, <1>10, <1>11 DEF StreamFramed

\* send: the receiver's side of the invariant does not notice.
LEMMA SendKeeps ==
    ASSUME CodecInv, NEW len \in Lengths, Send(len)
    PROVE  CodecInv'
<1>1. PICK frame \in Seq(Cell), n \in Nat :
             /\ n = Len(announced) + 1 /\ n <= NumMessages
             /\ announced' \in Seq(Lengths) /\ Len(announced') = n
             /\ \A m \in 1..Len(announced) : announced'[m] = announced[m]
             /\ stream' = stream \o frame
             /\ stream' \in Seq(Cell) /\ Len(stream') = Len(stream) + kHeaderLen + BodyLen(len)
             /\ \A i \in 1..Len(stream) : stream'[i] = stream[i]
             /\ ends' \in Seq(Nat) /\ Len(ends') = n
             /\ \A m \in 0..Len(announced) : EndOf(m)' = EndOf(m)
  BY SendExtends
<1>2. /\ Len(announced) \in Nat /\ Len(stream) \in Nat /\ Len(stream') \in Nat
      /\ Len(delivered) \in Nat
  BY <1>1, LenProperties DEF CodecInv, Types
<1>3. UNCHANGED <<received, inputBuffer_, delivered, state_, pc>>
  BY DEF Send
<1>4. kHeaderLen \in Nat /\ BodyLen(len) \in Nat
  BY HeaderFits
<1>5. Types'
  <2>1. received' \in Nat /\ received' <= Len(stream')
    BY <1>1, <1>2, <1>3, <1>4 DEF CodecInv, Types
  <2> QED
    BY <1>1, <1>3, <2>1 DEF CodecInv, Types, InputBuffer, TypedBuffer
<1>6. PICK d \in 0..Len(announced) : d = Len(delivered)
  BY <1>2, <1>3 DEF CodecInv, HandedOver
<1>7. EndOf(d)' = EndOf(d) /\ EndOf(d) \in Nat /\ EndOf(d) <= received
  BY <1>1, <1>6 DEF CodecInv, HandedOver, StreamFramed
<1>8. SubSeq(stream', EndOf(d) + 1, received) = SubSeq(stream, EndOf(d) + 1, received)
  <2>1. PICK e \in Nat, r \in Nat : e = EndOf(d) /\ r = received
    BY <1>7 DEF CodecInv, Types
  <2>2. e <= r /\ r <= Len(stream) /\ r <= Len(stream')
    BY <1>1, <1>2, <1>4, <1>7, <2>1 DEF CodecInv, Types
  <2>3. PICK s, t : s = SubSeq(stream, e + 1, r) /\ t = SubSeq(stream', e + 1, r)
    OBVIOUS
  <2>4. /\ s \in Seq(Cell) /\ Len(s) = r - e /\ \A i \in 1..(r - e) : s[i] = stream[e + i]
        /\ t \in Seq(Cell) /\ Len(t) = r - e /\ \A i \in 1..(r - e) : t[i] = stream'[e + i]
    <3>1. PICK p \in Seq(Cell), q \in Seq(Cell) : p = stream /\ q = stream'
      BY <1>1 DEF CodecInv, Types
    <3>2. \A z \in Seq(Cell) : r <= Len(z) =>
             /\ SubSeq(z, e + 1, r) \in Seq(Cell) /\ Len(SubSeq(z, e + 1, r)) = r - e
             /\ \A i \in 1..(r - e) : SubSeq(z, e + 1, r)[i] = z[e + i]
      BY <2>2, SubSeqBytes
    <3> QED
      BY <2>2, <2>3, <3>1, <3>2
  <2>5. \A i \in 1..(r - e) : e + i \in 1..Len(stream)
    BY <1>2, <2>2
  <2>6. s = t
    <3>1. \A i \in 1..(r - e) : s[i] = t[i]
      BY <1>1, <2>4, <2>5
    <3>2. Len(s) = Len(t) /\ \A i \in 1..Len(s) : s[i] = t[i]
      BY <2>4, <3>1
    <3> QED
      BY <2>4, <3>2, SeqEqual
  <2> QED
    BY <2>1, <2>3, <2>6
<1>9. \A m \in 1..d : announced'[m] = announced[m]
  BY <1>1, <1>2, <1>6
<1>10. HandedOver'
  <2>1. d <= Len(announced')
    BY <1>1, <1>2, <1>6
  <2>2. /\ Content(inputBuffer_) = SubSeq(stream, EndOf(d) + 1, received)
        /\ \A m \in 1..d : Legal(announced[m]) /\ delivered[m] = Body(m, announced[m])
    BY <1>6 DEF CodecInv, HandedOver
  <2>3. Content(inputBuffer_)' = SubSeq(stream', EndOf(d)' + 1, received')
    <3>1. Content(inputBuffer_)' = Content(inputBuffer_)
      BY <1>3 DEF Content, peek, readableBytes
    <3> QED
      BY <1>3, <1>7, <1>8, <2>2, <3>1
  <2>4. \A m \in 1..d : Legal(announced'[m]) /\ delivered'[m] = Body(m, announced'[m])
    BY <1>3, <1>9, <2>2
  <2>5. EndOf(d)' <= received'
    BY <1>3, <1>7
  <2>6. Len(delivered') = d
    BY <1>3, <1>6
  <2> QED
    BY <2>1, <2>3, <2>4, <2>5, <2>6 DEF HandedOver
<1>11. FrontIllegal => FrontIllegal'
  <2> SUFFICES ASSUME FrontIllegal PROVE FrontIllegal'
    OBVIOUS
  <2>1. d + 1 \in 1..Len(announced) /\ d + 1 <= Len(announced')
    BY <1>1, <1>2, <1>6 DEF FrontIllegal
  <2>2. announced'[d + 1] = announced[d + 1]
    BY <1>1, <2>1
  <2>3. Len(delivered') = d /\ d < Len(announced')
    BY <1>1, <1>2, <1>3, <1>6
  <2> QED
    BY <1>3, <1>6, <1>7, <2>2, <2>3 DEF FrontIllegal
<1>12. FrontWaits => FrontWaits'
  <2> SUFFICES ASSUME FrontWaits PROVE FrontWaits'
    OBVIOUS
  <2>1. Len(delivered') = d
    BY <1>3, <1>6
  <2>2. CASE received < EndOf(d) + kHeaderLen
    BY <1>3, <1>7, <2>1, <2>2 DEF FrontWaits
  <2>3. CASE /\ d < Len(announced) /\ Legal(announced[d + 1])
             /\ received < EndOf(d + 1)
    <3>1. /\ d + 1 \in 1..Len(announced) /\ d + 1 \in 0..Len(announced)
          /\ d < Len(announced')
      BY <1>1, <1>2, <2>3
    <3>2. announced'[d + 1] = announced[d + 1] /\ EndOf(d + 1)' = EndOf(d + 1)
      BY <1>1, <3>1
    <3> QED
      BY <1>3, <2>1, <2>3, <3>1, <3>2 DEF FrontWaits
  <2> QED
    BY <1>6, <2>2, <2>3 DEF FrontWaits
<1>13. Settled'
  BY <1>3, <1>11, <1>12 DEF CodecInv, Settled
<1> QED
  BY <1>5, <1>10, <1>13, SendStream DEF CodecInv
-----------------------------------------------------------------------------
(* The receiver. *)

\* What the buffer holds, in terms of the stream.
LEMMA RestOfStream ==
    ASSUME CodecInv
    PROVE  /\ Len(delivered) \in 0..Len(announced)
           /\ EndOf(Len(delivered)) \in Nat /\ EndOf(Len(delivered)) <= received
           /\ Content(inputBuffer_) \in Seq(Cell)
           /\ Len(Content(inputBuffer_)) = received - EndOf(Len(delivered))
           /\ readableBytes(inputBuffer_) = received - EndOf(Len(delivered))
           /\ \A i \in 1..(received - EndOf(Len(delivered))) :
                 Content(inputBuffer_)[i] = stream[EndOf(Len(delivered)) + i]
<1>1. /\ Len(announced) \in Nat /\ Len(delivered) \in Nat /\ received \in Nat
      /\ received <= Len(stream) /\ stream \in Seq(Cell) /\ Len(stream) \in Nat
  BY LenProperties DEF CodecInv, Types
<1>2. PICK d \in 0..Len(announced) : d = Len(delivered)
  BY <1>1 DEF CodecInv, HandedOver
<1>3. PICK e \in Nat : e = EndOf(d) /\ e <= received
  BY <1>2 DEF CodecInv, HandedOver, StreamFramed
<1>4. Content(inputBuffer_) = SubSeq(stream, e + 1, received)
  BY <1>2, <1>3 DEF CodecInv, HandedOver
<1>5. /\ Content(inputBuffer_) \in Seq(Cell) /\ Len(Content(inputBuffer_)) = received - e
      /\ \A i \in 1..(received - e) : Content(inputBuffer_)[i] = stream[e + i]
  <2>1. PICK r \in Nat, s \in Seq(Cell) : r = received /\ s = stream
    BY <1>1
  <2>2. e <= r /\ r <= Len(s)
    BY <1>1, <1>3, <2>1
  <2>3. /\ SubSeq(s, e + 1, r) \in Seq(Cell) /\ Len(SubSeq(s, e + 1, r)) = r - e
        /\ \A i \in 1..(r - e) : SubSeq(s, e + 1, r)[i] = s[e + i]
    BY <2>2, SubSeqBytes
  <2> QED
    BY <1>4, <2>1, <2>3
<1>6. Len(Content(inputBuffer_)) = readableBytes(inputBuffer_)
  BY ContentProperties DEF CodecInv, Types, InputBuffer
<1> QED
  BY <1>2, <1>3, <1>5, <1>6

\* The buffer holds as many bytes as are read and not handed over.
RestCounted == readableBytes(inputBuffer_) = received - EndOf(Len(delivered))

\* It does in the state after a step, too.
LEMMA RestCountedNext == CodecInv' => RestCounted'
<1>1. CodecInv => RestCounted
  BY RestOfStream DEF RestCounted
<1> QED
  BY <1>1, PTL

\* onMessage reads a header only at the front of a message, and gets the length
\* announced for it.
LEMMA FrameRead ==
    ASSUME CodecInv, HasHeader
    PROVE  /\ Len(delivered) + 1 \in 1..Len(announced)
           /\ FrameLen = announced[Len(delivered) + 1]
           /\ received >= EndOf(Len(delivered)) + kHeaderLen
<1>1. PICK d \in 0..Len(announced) : d = Len(delivered)
  BY RestOfStream
<1>2. PICK e \in Nat : e = EndOf(d)
  BY <1>1, RestOfStream
<1>3. /\ Len(announced) \in Nat /\ received \in Nat /\ received <= Len(stream)
      /\ Len(stream) \in Nat
  BY LenProperties DEF CodecInv, Types
<1>4. received - e >= kHeaderLen /\ kHeaderLen \in Nat /\ kHeaderLen >= 1
  BY <1>1, <1>2, RestOfStream, HeaderFits DEF HasHeader
<1>5. d # Len(announced)
  <2>1. ASSUME d = Len(announced) PROVE FALSE
    <3>1. e = Len(stream)
      BY <1>2, <2>1 DEF CodecInv, StreamFramed
    <3> QED
      BY <1>2, <1>3, <1>4, <3>1
  <2> QED
    BY <2>1
<1>6. PICK m \in 1..Len(announced) : m = d + 1
  BY <1>1, <1>3, <1>5
<1>7. m - 1 = d /\ m \in Nat
  BY <1>1, <1>3, <1>6
<1>8. \A j \in 1..kHeaderLen : stream[e + j] = <<"h", m, j>>
  BY <1>2, <1>6, <1>7 DEF CodecInv, StreamFramed, Framed
<1>9. PICK c : c = Content(inputBuffer_)
  OBVIOUS
<1>10. Len(c) = received - e /\ \A j \in 1..(received - e) : c[j] = stream[e + j]
  BY <1>1, <1>2, <1>9, RestOfStream
<1>11. \A j \in 1..kHeaderLen : j \in 1..(received - e)
  BY <1>2, <1>3, <1>4
<1>12. \A j \in 1..kHeaderLen : c[j] = <<"h", m, j>>
  BY <1>8, <1>10, <1>11
<1>13. peek(inputBuffer_, kHeaderLen) = [j \in 1..kHeaderLen |-> c[j]]
  <2>1. kHeaderLen <= Len(Content(inputBuffer_))
    BY <1>4, <1>9, <1>10
  <2> QED
    BY <1>4, <1>9, <2>1, PeekIsFront DEF CodecInv, Types, InputBuffer
<1>14. peek(inputBuffer_, kHeaderLen) = Header(m)
  BY <1>12, <1>13 DEF Header
<1>15. Header(m)[1][2] = m
  <2>1. 1 \in 1..kHeaderLen
    BY <1>4
  <2>2. Header(m)[1] = <<"h", m, 1>>
    BY <2>1 DEF Header
  <2> QED
    BY <2>2
<1>16. FrameLen = announced[m]
  BY <1>6, <1>14, <1>15 DEF FrameLen, be32toh
<1>17. received >= EndOf(Len(delivered)) + kHeaderLen
  BY <1>1, <1>2, <1>3, <1>4
<1> QED
  BY <1>1, <1>6, <1>16, <1>17

\* handleRead: the bytes read are behind those that were there.
LEMMA HandleReadKeeps ==
    ASSUME CodecInv, NEW n \in 1..Len(stream), HandleRead(n)
    PROVE  CodecInv'
<1>1. PICK d \in 0..Len(announced), e \in Nat : d = Len(delivered) /\ e = EndOf(d) /\ e <= received
  BY RestOfStream
<1>2. /\ Len(announced) \in Nat /\ received \in Nat /\ Len(stream) \in Nat
      /\ stream \in Seq(Cell) /\ n \in Nat /\ Fill \in Cell
  BY LenProperties DEF CodecInv, Types, Cell
<1>3. PICK r \in Nat : r = received + n
  BY <1>2
<1>4. /\ received' = r /\ r <= Len(stream) /\ received <= r /\ pc' = "onMessage"
      /\ UNCHANGED <<announced, stream, ends, delivered, state_>>
      /\ inputBuffer_' = readFd(inputBuffer_, SubSeq(stream, received + 1, r))
  BY <1>2, <1>3 DEF HandleRead, sendVars
<1>5. PICK data \in Seq(Cell) : data = SubSeq(stream, received + 1, r)
  BY <1>2, <1>4, SubSeqBytes
<1>6. /\ InputBuffer(inputBuffer_', Cell)
      /\ Content(inputBuffer_') = Content(inputBuffer_) \o data
  BY <1>2, <1>4, <1>5, ReadContent DEF CodecInv, Types
<1>7. Content(inputBuffer_') = SubSeq(stream, e + 1, r)
  <2>1. Content(inputBuffer_) = SubSeq(stream, e + 1, received)
    BY <1>1 DEF CodecInv, HandedOver
  <2>2. SubSeq(stream, e + 1, received) \o SubSeq(stream, received + 1, r)
          = SubSeq(stream, e + 1, r)
    <3>1. PICK q \in Nat, s \in Seq(Cell) : q = received /\ s = stream
      BY <1>2
    <3>2. e <= q /\ q <= r /\ r <= Len(s)
      BY <1>1, <1>4, <3>1
    <3>3. SubSeq(s, e + 1, q) \o SubSeq(s, q + 1, r) = SubSeq(s, e + 1, r)
      BY <3>2, SubSeqAdjacent
    <3> QED
      BY <3>1, <3>3
  <2> QED
    BY <1>5, <1>6, <2>1, <2>2
<1>8. \A m : EndOf(m)' = EndOf(m)
  BY <1>4 DEF EndOf
<1>9. Types'
  BY <1>3, <1>4, <1>6 DEF CodecInv, Types
<1>10. StreamFramed'
  BY <1>4, <1>8, Zenon DEF CodecInv, StreamFramed, Framed
<1>11. HandedOver'
  <2>1. e <= r
    BY <1>1, <1>2, <1>4
  <2> QED
    BY <1>1, <1>4, <1>7, <1>8, <2>1 DEF CodecInv, HandedOver
<1>12. Settled'
  <2>1. ASSUME FrontIllegal PROVE FrontIllegal'
    <3>1. e + kHeaderLen <= received /\ kHeaderLen \in Nat
      BY <1>1, <2>1, HeaderFits DEF FrontIllegal
    <3>2. e + kHeaderLen <= r
      BY <1>1, <1>2, <1>4, <3>1
    <3> QED
      BY <1>1, <1>4, <1>8, <2>1, <3>2 DEF FrontIllegal
  <2> QED
    BY <1>4, <2>1 DEF CodecInv, Settled
<1> QED
  BY <1>9, <1>10, <1>11, <1>12 DEF CodecInv

\* onMessage, a length out of range: the connection is shut down because of the
\* message at the front.
LEMMA IllegalLengthKeeps ==
    ASSUME CodecInv, IllegalLength
    PROVE  CodecInv'
<1>1. /\ HasHeader /\ ~Legal(FrameLen) /\ state_' = "kDisconnecting" /\ pc' = "poll"
      /\ UNCHANGED <<announced, stream, ends, received, inputBuffer_, delivered>>
  BY DEF IllegalLength, sendVars
<1>2. FrontIllegal
  <2>1. Len(delivered) < Len(announced)
    <3>1. Len(delivered) \in Nat /\ Len(announced) \in Nat
      BY LenProperties DEF CodecInv, Types
    <3> QED
      BY <1>1, <3>1, FrameRead
  <2> QED
    BY <1>1, <2>1, FrameRead DEF FrontIllegal
<1>3. Types'
  BY <1>1 DEF CodecInv, Types
<1>4. \A m : EndOf(m)' = EndOf(m)
  BY <1>1 DEF EndOf
<1>5. StreamFramed'
  BY <1>1, <1>4, Zenon DEF CodecInv, StreamFramed, Framed
<1>6. HandedOver'
  BY <1>1, <1>4 DEF CodecInv, HandedOver
<1>7. Settled'
  BY <1>1, <1>2, <1>4 DEF Settled, FrontIllegal
<1> QED
  BY <1>3, <1>5, <1>6, <1>7 DEF CodecInv

\* onMessage returns for want of bytes: the front message is not complete.
LEMMA IncompleteKeeps ==
    ASSUME CodecInv, Incomplete
    PROVE  CodecInv'
<1>1. /\ HasHeader => Legal(FrameLen) /\ readableBytes(inputBuffer_) < FrameLen + kHeaderLen
      /\ pc' = "poll"
      /\ UNCHANGED <<announced, stream, ends, received, inputBuffer_, delivered, state_>>
  BY DEF Incomplete, sendVars
<1>2. PICK d \in 0..Len(announced), e \in Nat :
         /\ d = Len(delivered) /\ e = EndOf(d)
         /\ readableBytes(inputBuffer_) = received - e
  BY RestOfStream
<1>3. received \in Nat /\ kHeaderLen \in Nat /\ Len(announced) \in Nat
  BY HeaderFits, LenProperties DEF CodecInv, Types
<1>4. FrontWaits
  <2>1. CASE ~HasHeader
    BY <1>2, <1>3, <2>1 DEF HasHeader, FrontWaits
  <2>2. CASE HasHeader
    <3>1. PICK m \in 1..Len(announced) : m = d + 1 /\ FrameLen = announced[m]
      BY <1>2, <2>2, FrameRead
    <3>2. m - 1 = d
      BY <1>2, <1>3, <3>1
    <3>3. EndOf(m) = e + kHeaderLen + BodyLen(announced[m]) /\ announced[m] \in Lengths
      BY <1>2, <3>2, FrameInside
    <3>4. PICK len \in Nat : len = announced[m] /\ BodyLen(announced[m]) = len
      BY <1>1, <2>2, <3>1, <3>3, HeaderFits
    <3>5. received < EndOf(m)
      <4>1. received - e < len + kHeaderLen
        BY <1>1, <1>2, <2>2, <3>1, <3>4
      <4>2. EndOf(m) = e + kHeaderLen + len
        BY <3>3, <3>4
      <4> QED
        BY <1>3, <4>1, <4>2
    <3>6. d < Len(announced)
      BY <1>2, <1>3, <3>1
    <3> QED
      BY <1>1, <1>2, <2>2, <3>1, <3>5, <3>6 DEF FrontWaits
  <2> QED
    BY <2>1, <2>2
<1>5. Types'
  BY <1>1 DEF CodecInv, Types
<1>6. \A m : EndOf(m)' = EndOf(m)
  BY <1>1 DEF EndOf
<1>7. StreamFramed'
  BY <1>1, <1>6, Zenon DEF CodecInv, StreamFramed, Framed
<1>8. HandedOver'
  BY <1>1, <1>6 DEF CodecInv, HandedOver
<1>9. Settled'
  BY <1>1, <1>4, <1>6 DEF CodecInv, Settled, FrontIllegal, FrontWaits
<1> QED
  BY <1>5, <1>7, <1>8, <1>9 DEF CodecInv

\* Taking bytes off the front of a part of the stream.
LEMMA DropFront ==
    ASSUME NEW S, NEW s \in Seq(S), NEW e \in Nat, NEW r \in Nat, e <= r, r <= Len(s),
           NEW k \in Nat, e + k <= r
    PROVE  SubSeq(SubSeq(s, e + 1, r), k + 1, r - e) = SubSeq(s, e + k + 1, r)
<1>1. PICK t : t = SubSeq(s, e + 1, r)
  OBVIOUS
<1>2. t \in Seq(S) /\ Len(t) = r - e /\ \A i \in 1..(r - e) : t[i] = s[e + i]
  BY <1>1, SubSeqBytes
<1>3. PICK n \in Nat, f \in Nat : n = r - e /\ f = e + k /\ k <= n /\ n <= Len(t) /\ f <= r
  BY <1>2
<1>4. PICK u, v : u = SubSeq(t, k + 1, n) /\ v = SubSeq(s, f + 1, r)
  OBVIOUS
<1>5. u \in Seq(S) /\ Len(u) = n - k /\ \A i \in 1..(n - k) : u[i] = t[k + i]
  BY <1>2, <1>3, <1>4, SubSeqBytes
<1>6. v \in Seq(S) /\ Len(v) = r - f /\ \A i \in 1..(r - f) : v[i] = s[f + i]
  BY <1>3, <1>4, SubSeqBytes
<1>7. n - k = r - f
  BY <1>3
<1>8. ASSUME NEW i \in 1..(n - k) PROVE u[i] = v[i]
  <2>1. PICK j \in 1..(r - e) : j = k + i
    BY <1>3
  <2>2. e + j = f + i
    BY <1>3, <2>1
  <2>3. u[i] = t[j] /\ t[j] = s[e + j] /\ v[i] = s[f + i]
    BY <1>2, <1>5, <1>6, <1>7, <2>1
  <2> QED
    BY <2>2, <2>3
<1>9. u = v
  BY <1>5, <1>6, <1>7, <1>8, SeqEqual
<1> QED
  BY <1>1, <1>3, <1>4, <1>9

\* onMessage: the message handed over is the one sent, and the buffer is left at
\* the front of the next.
LEMMA DeliverKeeps ==
    ASSUME CodecInv, Deliver
    PROVE  CodecInv'
<1>1. /\ pc = "onMessage" /\ HasHeader /\ Legal(FrameLen)
      /\ readableBytes(inputBuffer_) >= FrameLen + kHeaderLen
      /\ delivered' = Append(delivered, peek(retrieve(inputBuffer_, kHeaderLen), FrameLen))
      /\ inputBuffer_' = retrieve(retrieve(inputBuffer_, kHeaderLen), FrameLen)
      /\ UNCHANGED <<announced, stream, ends, received, state_, pc>>
  BY DEF Deliver, sendVars
<1>2. PICK d \in 0..Len(announced), e \in Nat :
         /\ d = Len(delivered) /\ e = EndOf(d) /\ e <= received
         /\ readableBytes(inputBuffer_) = received - e
         /\ Len(Content(inputBuffer_)) = received - e
  BY RestOfStream
<1>3. PICK r \in Nat, s \in Seq(Cell) : r = received /\ s = stream /\ r <= Len(s)
  BY DEF CodecInv, Types
<1>4. /\ kHeaderLen \in Nat /\ Len(announced) \in Nat /\ Len(s) \in Nat
      /\ delivered \in Seq(Seq(Cell))
  BY HeaderFits, LenProperties DEF CodecInv, Types
<1>5. PICK m \in 1..Len(announced) : m = d + 1 /\ FrameLen = announced[m]
  BY <1>1, <1>2, FrameRead
<1>6. m - 1 = d /\ m \in Nat
  BY <1>2, <1>4, <1>5
<1>7. announced[m] \in Lengths /\ EndOf(m) = e + kHeaderLen + BodyLen(announced[m])
  BY <1>2, <1>6, FrameInside
<1>8. PICK len \in Nat : len = announced[m] /\ BodyLen(announced[m]) = len /\ FrameLen = len
  BY <1>1, <1>5, <1>7, HeaderFits
<1>9. PICK h \in Nat, end \in Nat : h = e + kHeaderLen /\ end = h + len /\ end = EndOf(m)
  BY <1>4, <1>7, <1>8
<1>10. e <= h /\ h <= r /\ h <= end /\ end <= r /\ kHeaderLen <= r - e /\ len <= r - h
  <2>1. r - e >= len + kHeaderLen
    BY <1>1, <1>2, <1>3, <1>8
  <2>2. h = e + kHeaderLen /\ end = h + len /\ kHeaderLen \in Nat
    BY <1>4, <1>9
  <2> QED
    BY <2>1, <2>2
<1>11. PICK body : body = retrieve(inputBuffer_, kHeaderLen)
  OBVIOUS
<1>12. InputBuffer(body, Cell) /\ Content(body) = SubSeq(s, h + 1, r)
  <2>1. Content(inputBuffer_) = SubSeq(s, e + 1, r)
    BY <1>2, <1>3 DEF CodecInv, HandedOver
  <2>2. /\ InputBuffer(body, Cell)
        /\ Content(body) = SubSeq(Content(inputBuffer_), kHeaderLen + 1, Len(Content(inputBuffer_)))
    <3>1. kHeaderLen <= Len(Content(inputBuffer_))
      BY <1>2, <1>3, <1>10
    <3> QED
      BY <1>4, <1>11, <3>1, RetrieveContent DEF CodecInv, Types
  <2>3. SubSeq(SubSeq(s, e + 1, r), kHeaderLen + 1, r - e) = SubSeq(s, e + kHeaderLen + 1, r)
    <3>1. e <= r /\ e + kHeaderLen <= r
      BY <1>9, <1>10
    <3> QED
      BY <1>3, <1>4, <3>1, DropFront
  <2> QED
    BY <1>2, <1>3, <1>9, <2>1, <2>2, <2>3
<1>13. /\ Content(body) \in Seq(Cell) /\ Len(Content(body)) = r - h
       /\ \A i \in 1..(r - h) : Content(body)[i] = s[h + i]
  <2>1. /\ SubSeq(s, h + 1, r) \in Seq(Cell) /\ Len(SubSeq(s, h + 1, r)) = r - h
        /\ \A i \in 1..(r - h) : SubSeq(s, h + 1, r)[i] = s[h + i]
    BY <1>3, <1>10, SubSeqBytes
  <2> QED
    BY <1>12, <2>1
<1>14. peek(body, len) = Body(m, len)
  <2>1. len <= Len(Content(body))
    BY <1>10, <1>13
  <2>2. peek(body, len) = [i \in 1..len |-> Content(body)[i]]
    BY <1>12, <2>1, PeekIsFront DEF InputBuffer
  <2>3. \A i \in 1..len : Content(body)[i] = s[h + i]
    <3>1. \A i \in 1..len : i \in 1..(r - h)
      BY <1>10
    <3> QED
      BY <1>13, <3>1
  <2>4. \A i \in 1..len : stream[EndOf(m - 1) + kHeaderLen + i] = <<"b", m, i>>
    BY <1>8 DEF CodecInv, StreamFramed, Framed
  <2>5. \A i \in 1..len : Content(body)[i] = <<"b", m, i>>
    BY <1>2, <1>3, <1>6, <1>9, <2>3, <2>4
  <2> QED
    BY <1>8, <2>2, <2>5 DEF Body
<1>15. InputBuffer(inputBuffer_', Cell) /\ Content(inputBuffer_') = SubSeq(s, end + 1, r)
  <2>1. inputBuffer_' = retrieve(body, len)
    BY <1>1, <1>8, <1>11
  <2>2. /\ InputBuffer(retrieve(body, len), Cell)
        /\ Content(retrieve(body, len)) = SubSeq(Content(body), len + 1, Len(Content(body)))
    <3>1. len <= Len(Content(body))
      BY <1>10, <1>13
    <3> QED
      BY <1>12, <3>1, RetrieveContent
  <2>3. SubSeq(SubSeq(s, h + 1, r), len + 1, r - h) = SubSeq(s, h + len + 1, r)
    <3>1. h + len <= r
      BY <1>9, <1>10
    <3> QED
      BY <1>3, <1>10, <3>1, DropFront
  <2> QED
    BY <1>9, <1>12, <1>13, <2>1, <2>2, <2>3
<1>16. PICK x \in Seq(Cell) : x = Body(m, len)
  BY <1>6, <1>7, <1>8, PartsAreBytes
<1>17. delivered' = Append(delivered, x)
  BY <1>1, <1>8, <1>11, <1>14, <1>16
<1>18. /\ delivered' \in Seq(Seq(Cell)) /\ Len(delivered') = m /\ delivered'[m] = x
       /\ \A i \in 1..d : delivered'[i] = delivered[i]
  <2>1. \A q \in Seq(Seq(Cell)), y \in Seq(Cell) :
           /\ Append(q, y) \in Seq(Seq(Cell)) /\ Len(Append(q, y)) = Len(q) + 1
           /\ \A i \in 1..Len(q) : Append(q, y)[i] = q[i]
           /\ Append(q, y)[Len(q) + 1] = y
    BY AppendProperties
  <2> QED
    BY <1>2, <1>4, <1>5, <1>17, <2>1
<1>19. \A i : EndOf(i)' = EndOf(i)
  BY <1>1 DEF EndOf
<1>20. Types'
  BY <1>1, <1>15, <1>18 DEF CodecInv, Types
<1>21. StreamFramed'
  BY <1>1, <1>19, Zenon DEF CodecInv, StreamFramed, Framed
<1>22. HandedOver'
  <2>1. \A i \in 1..m : i = m \/ i \in 1..d
    BY <1>2, <1>5
  <2>2. \A i \in 1..d : Legal(announced[i]) /\ delivered[i] = Body(i, announced[i])
    BY <1>2 DEF CodecInv, HandedOver
  <2>3. \A i \in 1..m : Legal(announced[i]) /\ delivered'[i] = Body(i, announced[i])
    BY <1>1, <1>5, <1>8, <1>16, <1>18, <2>1, <2>2
  <2>4. m <= Len(announced)
    BY <1>4
  <2>5. EndOf(m)' <= received' /\ Content(inputBuffer_') = SubSeq(stream', EndOf(m)' + 1, received')
    BY <1>1, <1>3, <1>9, <1>10, <1>15, <1>19
  <2> QED
    BY <1>1, <1>18, <2>3, <2>4, <2>5 DEF HandedOver
<1>23. Settled'
  <2>1. ~FrontIllegal
    BY <1>1, <1>2, <1>5 DEF FrontIllegal
  <2> QED
    BY <1>1, <2>1 DEF CodecInv, Settled
<1> QED
  BY <1>20, <1>21, <1>22, <1>23 DEF CodecInv
-----------------------------------------------------------------------------
(* The theorems. *)

\* The invariant holds of a connection that has just been made.
LEMMA InitCodec == Init => CodecInv
<1> SUFFICES ASSUME Init PROVE CodecInv
  OBVIOUS
<1>1. /\ announced = <<>> /\ stream = <<>> /\ ends = <<>> /\ received = 0
      /\ inputBuffer_ = NewBuffer /\ delivered = <<>> /\ state_ = "kConnected" /\ pc = "poll"
  BY DEF Init
<1>2. Fill \in Cell
  BY DEF Cell
<1>3. InputBuffer(inputBuffer_, Cell) /\ Content(inputBuffer_) = <<>>
  BY <1>1, <1>2, NewBufferEmpty
<1>4. EndOf(0) = 0
  BY DEF EndOf
<1>5. Types
  BY <1>1, <1>3, HeaderFits DEF Types
<1>6. StreamFramed
  BY <1>1, <1>4 DEF StreamFramed
<1>7. HandedOver
  BY <1>1, <1>3, <1>4 DEF HandedOver
<1>8. Settled
  BY <1>1, <1>4, HeaderFits DEF Settled, FrontWaits
<1> QED
  BY <1>5, <1>6, <1>7, <1>8 DEF CodecInv

\* Every step of either end keeps it.
LEMMA NextCodec == CodecInv /\ [Next]_vars => CodecInv'
<1> SUFFICES ASSUME CodecInv, [Next]_vars PROVE CodecInv'
  OBVIOUS
<1>1. ASSUME NEW len \in Lengths, Send(len) PROVE CodecInv'
  BY <1>1, SendKeeps
<1>2. ASSUME NEW n \in 1..Len(stream), HandleRead(n) PROVE CodecInv'
  BY <1>2, HandleReadKeeps
<1>3. CASE IllegalLength
  BY <1>3, IllegalLengthKeeps
<1>4. CASE Deliver
  BY <1>4, DeliverKeeps
<1>5. CASE Incomplete
  BY <1>5, IncompleteKeeps
<1>6. CASE UNCHANGED vars
  <2>1. UNCHANGED <<announced, stream, ends, received, inputBuffer_, delivered, state_, pc>>
    BY <1>6 DEF vars, sendVars
  <2>2. \A m : EndOf(m)' = EndOf(m)
    BY <2>1 DEF EndOf
  <2>3. Types'
    BY <2>1 DEF CodecInv, Types
  <2>4. StreamFramed'
    BY <2>1, <2>2, Zenon DEF CodecInv, StreamFramed, Framed
  <2>5. HandedOver'
    BY <2>1, <2>2 DEF CodecInv, HandedOver
  <2>6. Settled'
    BY <2>1, <2>2 DEF CodecInv, Settled, FrontIllegal, FrontWaits
  <2> QED
    BY <2>3, <2>4, <2>5, <2>6 DEF CodecInv
<1> QED
  BY <1>1, <1>2, <1>3, <1>4, <1>5, <1>6 DEF Next

\* The codec's inductive invariant holds in every reachable state.
THEOREM Invariance == Spec => []CodecInv
BY InitCodec, NextCodec, PTL DEF Spec

\* The types, and the order of the input buffer's indexes.
THEOREM TypeCorrect == Spec => []TypeOK
<1>1. CodecInv => TypeOK
  <2> SUFFICES ASSUME CodecInv PROVE TypeOK
    OBVIOUS
  <2>1. IndexesOK(inputBuffer_)
    BY BufferParts DEF CodecInv, Types, InputBuffer, IndexesOK
  <2>2. Len(delivered) \in 0..NumMessages
    <3>1. Len(announced) \in Nat /\ Len(announced) <= NumMessages
      BY LenProperties DEF CodecInv, Types
    <3> QED
      BY <3>1, RestOfStream, HeaderFits
  <2>3. received \in 0..Len(stream)
    <3>1. Len(stream) \in Nat
      BY LenProperties DEF CodecInv, Types
    <3> QED
      BY <3>1 DEF CodecInv, Types
  <2> QED
    BY <2>1, <2>2, <2>3 DEF CodecInv, Types, TypeOK
<1> QED
  BY <1>1, Invariance, PTL

\* Buffer: through every growth, move and second buffer, the input buffer holds
\* the bytes read and not handed over, and the asserts of the next write hold.
THEOREM BufferKeepsTheRest == Spec => []BufferHoldsTheRest
<1>1. CodecInv => BufferHoldsTheRest
  <2> SUFFICES ASSUME CodecInv PROVE BufferHoldsTheRest
    OBVIOUS
  <2>1. Fill \in Cell
    BY DEF Cell
  <2>2. \A len \in Nat : RoomFor(inputBuffer_, len)
    BY <2>1, AssertsHold DEF CodecInv, Types
  <2>3. \A len \in 0..ExtraBuf : len \in Nat
    BY BufferAssumption
  <2> QED
    BY <2>2, <2>3 DEF CodecInv, HandedOver, BufferHoldsTheRest
<1> QED
  BY <1>1, Invariance, PTL

\* LengthHeaderCodec: what is handed over is what was sent, whole, once and in
\* order, however the stream is cut.
THEOREM MessagesDeliveredAsSent == Spec => []DeliveredAsSent
<1>1. CodecInv => DeliveredAsSent
  BY DEF CodecInv, HandedOver, DeliveredAsSent
<1> QED
  BY <1>1, Invariance, PTL

\* onMessage: no complete message is left in the buffer when it returns.
THEOREM CompleteIsHandedOver == Spec => []NothingLeftBehind
<1>1. CodecInv => NothingLeftBehind
  <2> SUFFICES ASSUME CodecInv, pc = "poll", NEW m \in Readable, received >= EndOf(m),
                      ~(Len(delivered) >= m)
               PROVE  FALSE
    BY DEF NothingLeftBehind
  <2>1. /\ Len(announced) \in Nat /\ received \in Nat /\ m \in 1..Len(announced)
        /\ \A k \in 1..m : Legal(announced[k])
    BY LenProperties DEF CodecInv, Types, Readable
  <2>2. PICK d \in 0..Len(announced) : d = Len(delivered) /\ d < m
    BY <2>1, RestOfStream
  <2>3. PICK n \in 1..m : n = d + 1 /\ n - 1 = d
    BY <2>1, <2>2
  <2>4. /\ n \in 0..Len(announced) /\ m \in 0..Len(announced) /\ n <= m
        /\ n \in 1..Len(announced)
    BY <2>1, <2>3
  <2>5. Legal(announced[n]) /\ ~FrontIllegal
    BY <2>1, <2>2, <2>3 DEF FrontIllegal
  <2>6. EndOf(n) \in Nat /\ EndOf(m) \in Nat /\ EndOf(n) <= EndOf(m)
    BY <2>4 DEF CodecInv, StreamFramed
  <2>7. EndOf(n) <= received
    BY <2>1, <2>6
  <2>8. /\ EndOf(d) \in Nat /\ BodyLen(announced[n]) \in Nat
        /\ EndOf(n) = EndOf(d) + kHeaderLen + BodyLen(announced[n])
    BY <2>3, <2>4, FrameInside
  <2>9. ~FrontWaits
    BY <2>1, <2>2, <2>3, <2>7, <2>8, HeaderFits DEF FrontWaits
  <2> QED
    BY <2>5, <2>9 DEF CodecInv, Settled
<1> QED
  BY <1>1, Invariance, PTL

\* onMessage: the connection is shut down exactly when the header of the first
\* message with an illegal length has arrived, and nothing from there on is
\* taken for a message.
THEOREM IllegalIsShutDown == Spec => []ShutdownOnIllegal
<1>1. CodecInv => ShutdownOnIllegal
  <2> SUFFICES ASSUME CodecInv
               PROVE  ShutdownOnIllegal
    OBVIOUS
  <2>1. PICK d \in 0..Len(announced) : d = Len(delivered)
    BY RestOfStream
  <2>2. Len(announced) \in Nat /\ received \in Nat /\ kHeaderLen \in Nat
    BY LenProperties, HeaderFits DEF CodecInv, Types
  <2>3. \A k \in 1..d : Legal(announced[k])
    BY <2>1 DEF CodecInv, HandedOver
  <2>4. d \in Readable \cup {0}
    <3>1. CASE d # 0
      BY <2>1, <2>2, <2>3, <3>1 DEF Readable
    <3> QED
      BY <3>1
  <2>5. ASSUME state_ = "kDisconnecting"
        PROVE  \E m \in 1..Len(announced) :
                 /\ ~Legal(announced[m]) /\ m - 1 \in Readable \cup {0}
                 /\ received >= EndOf(m - 1) + kHeaderLen
    <3>1. FrontIllegal
      BY <2>5 DEF CodecInv, Settled
    <3>2. PICK m \in 1..Len(announced) : m = d + 1 /\ m - 1 = d
      BY <2>1, <2>2, <3>1 DEF FrontIllegal
    <3> QED
      BY <2>1, <2>4, <3>1, <3>2 DEF FrontIllegal
  <2>6. ASSUME pc = "poll", NEW m \in 1..Len(announced), ~Legal(announced[m]),
               m - 1 \in Readable \cup {0}, received >= EndOf(m - 1) + kHeaderLen
        PROVE  state_ = "kDisconnecting"
    <3>1. \A k \in 1..(m - 1) : Legal(announced[k])
      BY <2>2, <2>6 DEF Readable
    <3>2. ~(m <= d)
      BY <2>1, <2>2, <2>3, <2>6
    <3>3. PICK n \in 1..Len(announced) : n = d + 1 /\ n - 1 = d /\ n <= m
      BY <2>1, <2>2, <3>2
    <3>4. /\ EndOf(d) \in Nat /\ EndOf(n) \in Nat /\ BodyLen(announced[n]) \in Nat
          /\ EndOf(n) = EndOf(d) + kHeaderLen + BodyLen(announced[n])
      BY <3>3, FrameInside
    <3>5. CASE n = m
      <4>1. received >= EndOf(d) + kHeaderLen
        BY <2>6, <3>3, <3>5
      <4>2. ~FrontWaits
        BY <2>1, <2>2, <2>6, <3>3, <3>4, <3>5, <4>1 DEF FrontWaits
      <4> QED
        BY <2>6, <4>2 DEF CodecInv, Settled
    <3>6. CASE n # m
      <4>1. n \in 0..Len(announced) /\ m - 1 \in 0..Len(announced) /\ n <= m - 1
        BY <2>2, <3>3, <3>6
      <4>2. Legal(announced[n])
        BY <2>1, <3>1, <3>3, <4>1
      <4>3. EndOf(n) <= EndOf(m - 1) /\ EndOf(m - 1) \in Nat
        BY <4>1 DEF CodecInv, StreamFramed
      <4>4. received >= EndOf(n)
        BY <2>2, <2>6, <3>4, <4>3
      <4>5. ~FrontWaits /\ ~FrontIllegal
        BY <2>1, <2>2, <3>3, <3>4, <4>2, <4>4 DEF FrontWaits, FrontIllegal
      <4> QED
        BY <2>6, <4>5 DEF CodecInv, Settled
    <3> QED
      BY <3>5, <3>6
  <2> QED
    BY <2>1, <2>4, <2>5, <2>6 DEF ShutdownOnIllegal
<1> QED
  BY <1>1, Invariance, PTL

\* After an illegal length the connection is only half closed: nothing is handed
\* over any more, and what the other end goes on sending piles up in the buffer.
PilesUpAfterIllegal ==
    [][state_ = "kDisconnecting" =>
         /\ UNCHANGED <<delivered, state_>>
         /\ readableBytes(inputBuffer_)' >= readableBytes(inputBuffer_)]_vars

\* onMessage never gets past an illegal length ("FIXME: disable reading"): from
\* then on no step hands anything over or takes anything off the buffer.
THEOREM NothingAfterIllegal == Spec => PilesUpAfterIllegal
<1>1. CodecInv /\ CodecInv' /\ [Next]_vars =>
        [state_ = "kDisconnecting" =>
           /\ UNCHANGED <<delivered, state_>>
           /\ readableBytes(inputBuffer_)' >= readableBytes(inputBuffer_)]_vars
  <2> SUFFICES ASSUME CodecInv, CodecInv', Next, state_ = "kDisconnecting"
               PROVE  /\ UNCHANGED <<delivered, state_>>
                      /\ readableBytes(inputBuffer_)' >= readableBytes(inputBuffer_)
    OBVIOUS
  <2>1. FrontIllegal
    BY DEF CodecInv, Settled
  <2>2. received \in Nat /\ EndOf(Len(delivered)) \in Nat /\ Len(announced) \in Nat
        /\ readableBytes(inputBuffer_) = received - EndOf(Len(delivered))
    BY RestOfStream, LenProperties DEF CodecInv, Types
  <2>3. ~Deliver
    BY <2>1, FrameRead DEF Deliver, FrontIllegal
  <2>4. ASSUME NEW len \in Lengths, Send(len)
        PROVE  UNCHANGED <<received, inputBuffer_, delivered, state_>>
    BY <2>4 DEF Send
  <2>5. ASSUME IllegalLength \/ Incomplete
        PROVE  UNCHANGED <<received, inputBuffer_, delivered, state_>>
    BY <2>5 DEF IllegalLength, Incomplete
  <2>6. ASSUME UNCHANGED <<received, inputBuffer_, delivered, state_>>
        PROVE  /\ UNCHANGED <<delivered, state_>>
               /\ readableBytes(inputBuffer_)' >= readableBytes(inputBuffer_)
    <3>1. readableBytes(inputBuffer_)' = readableBytes(inputBuffer_)
      BY <2>6 DEF readableBytes
    <3> QED
      BY <2>2, <2>6, <3>1
  <2>7. ASSUME NEW n \in 1..Len(stream), HandleRead(n)
        PROVE  /\ UNCHANGED <<delivered, state_>>
               /\ readableBytes(inputBuffer_)' >= readableBytes(inputBuffer_)
    <3>1. /\ UNCHANGED <<ends, delivered, state_>> /\ received' = received + n
          /\ n \in Nat
      BY <2>7 DEF HandleRead, sendVars
    <3>2. EndOf(Len(delivered))' = EndOf(Len(delivered))
      BY <3>1 DEF EndOf
    <3>3. readableBytes(inputBuffer_)' = received' - EndOf(Len(delivered))'
      BY RestCountedNext DEF RestCounted
    <3> QED
      BY <2>2, <3>1, <3>2, <3>3
  <2> QED
    BY <2>3, <2>4, <2>5, <2>6, <2>7 DEF Next
<1> QED
  BY <1>1, Invariance, PTL DEF Spec, PilesUpAfterIllegal
=============================================================================
