--------------------------- MODULE TcpConnection ---------------------------
(***************************************************************************)
(* The sending side of one TcpConnection (base/src/TcpConnection.cpp): the *)
(* direct write, the output buffer behind it, the interest in POLLOUT that *)
(* empties it, and shutdown(), which must wait for it.  The kernel takes   *)
(* what fits in its buffer; the other process reads, closes or vanishes.   *)
(*                                                                         *)
(* All calls come from callbacks of the connection's own loop, as they do  *)
(* in the servers and the client.  writeCompleteCallback_ and              *)
(* highWaterMarkCallback_ are never set.  A byte is its number in the      *)
(* order of the calls to send().                                           *)
(***************************************************************************)
EXTENDS Naturals, Sequences, FiniteSetsExt

CONSTANTS SndBuf,      \* the kernel's buffer for the socket
          MaxSend,     \* bound on the bytes of one send()
          MaxBytes     \* bound on the bytes sent in one behaviour

ASSUME ConnectionAssumption == {SndBuf, MaxSend, MaxBytes} \subseteq Nat \ {0}

VARIABLES state_,
          reading, writing,   \* events enabled in the channel
          outputBuffer_,
          sndbuf,             \* bytes the kernel has taken
          shutdownWrite,      \* the FIN follows the bytes of sndbuf
          got,                \* bytes the other process has read
          gotFin,             \* it has read the end of the stream
          accepted,           \* bytes send() did not refuse
          peer                \* "open", "closed" or "reset"

vars == <<state_, reading, writing, outputBuffer_, sndbuf, shutdownWrite, got,
          gotFin, accepted, peer>>
peerVars == <<got, gotFin, peer>>

Init == /\ state_ = "kConnected" /\ reading = TRUE /\ writing = FALSE
        /\ outputBuffer_ = <<>> /\ sndbuf = <<>> /\ shutdownWrite = FALSE
        /\ got = <<>> /\ gotFin = FALSE /\ accepted = 0 /\ peer = "open"
-----------------------------------------------------------------------------
\* What write() takes of n bytes: nothing when it fails, for want of room
\* (EWOULDBLOCK) or because the connection is gone (EPIPE, ECONNRESET).
Written(n) == IF peer = "reset" THEN 0 ELSE Min({n, SndBuf - Len(sndbuf)})

From(s, k) == SubSeq(s, k + 1, Len(s))

MutantBytes(n) == [i \in 1..n |-> accepted + i + 1]

\* The n bytes of data.
Bytes(n) == [i \in 1..n |-> accepted + i]

MutantSend(n) ==
    /\ state_ = "kConnected" /\ reading /\ accepted + n <= MaxBytes
    /\ LET nwrote == IF writing THEN 0 ELSE Written(n)
       IN  /\ sndbuf' = sndbuf \o SubSeq(Bytes(n), 1, nwrote)
           /\ outputBuffer_' = outputBuffer_ \o Bytes(n)
           /\ writing' = (nwrote < n \/ writing)
    /\ accepted' = accepted + n
    /\ UNCHANGED <<state_, reading, shutdownWrite, peerVars>>

MutantSendDirect(n) ==
    /\ state_ = "kConnected" /\ reading /\ accepted + n <= MaxBytes
    /\ LET nwrote == Written(n)
       IN  /\ sndbuf' = sndbuf \o SubSeq(Bytes(n), 1, nwrote)
           /\ outputBuffer_' = outputBuffer_ \o From(Bytes(n), nwrote)
           /\ writing' = (nwrote < n \/ writing)
    /\ accepted' = accepted + n
    /\ UNCHANGED <<state_, reading, shutdownWrite, peerVars>>

\* send and sendInLoop: write directly if nothing waits, keep the rest.
Send(n) ==
    /\ state_ = "kConnected" /\ reading /\ accepted + n <= MaxBytes
    /\ LET nwrote == IF ~writing /\ outputBuffer_ = <<>> THEN Written(n) ELSE 0
       IN  /\ sndbuf' = sndbuf \o SubSeq(Bytes(n), 1, nwrote)
           /\ outputBuffer_' = outputBuffer_ \o From(Bytes(n), nwrote)
           /\ writing' = (nwrote < n \/ writing)
    /\ accepted' = accepted + n
    /\ UNCHANGED <<state_, reading, shutdownWrite, peerVars>>

MutantShutdown == /\ state_ = "kConnected" /\ reading
                  /\ state_' = "kDisconnecting"
                  /\ shutdownWrite' = TRUE
                  /\ UNCHANGED <<reading, writing, outputBuffer_, sndbuf, accepted, peerVars>>

\* shutdown and shutdownInLoop.
Shutdown == /\ state_ = "kConnected" /\ reading
            /\ state_' = "kDisconnecting"
            /\ shutdownWrite' = ~writing
            /\ UNCHANGED <<reading, writing, outputBuffer_, sndbuf, accepted, peerVars>>

MutantHandleWrite ==
    /\ writing /\ (Len(sndbuf) < SndBuf \/ peer = "reset")
    /\ LET n == Written(Len(outputBuffer_))
       IN  /\ sndbuf' = sndbuf \o SubSeq(outputBuffer_, 1, n)
           /\ outputBuffer_' = From(outputBuffer_, n)
           /\ writing' = (outputBuffer_' # <<>>)
    /\ UNCHANGED <<state_, reading, accepted, shutdownWrite, peerVars>>

\* handleWrite: when the last byte is out, a shutdown that waits is done.
HandleWrite ==
    /\ writing /\ (Len(sndbuf) < SndBuf \/ peer = "reset")
    /\ LET n == Written(Len(outputBuffer_))
       IN  /\ sndbuf' = sndbuf \o SubSeq(outputBuffer_, 1, n)
           /\ outputBuffer_' = From(outputBuffer_, n)
           /\ writing' = (outputBuffer_' # <<>>)
           /\ shutdownWrite' = (shutdownWrite \/ (~writing' /\ state_ = "kDisconnecting"))
    /\ UNCHANGED <<state_, reading, accepted, peerVars>>

\* handleRead with 0 bytes, or POLLHUP: handleClose disables both events.
HandleClose == /\ reading /\ peer # "open"
               /\ state_' = "kDisconnected"
               /\ reading' = FALSE /\ writing' = FALSE
               /\ UNCHANGED <<outputBuffer_, sndbuf, shutdownWrite, accepted, peerVars>>
-----------------------------------------------------------------------------
(* The kernel and the other process. *)

PeerReads == /\ peer = "open" /\ sndbuf # <<>>
             /\ got' = Append(got, Head(sndbuf))
             /\ sndbuf' = Tail(sndbuf)
             /\ UNCHANGED <<state_, reading, writing, outputBuffer_, shutdownWrite,
                            gotFin, accepted, peer>>

PeerReadsFin == /\ peer = "open" /\ sndbuf = <<>> /\ shutdownWrite /\ ~gotFin
                /\ gotFin' = TRUE
                /\ UNCHANGED <<state_, reading, writing, outputBuffer_, sndbuf,
                               shutdownWrite, got, accepted, peer>>

\* It closes in good order, or vanishes with what was on its way.
PeerGoes(how) == /\ peer = "open"
                 /\ peer' = how
                 /\ sndbuf' = IF how = "reset" THEN <<>> ELSE sndbuf
                 /\ UNCHANGED <<state_, reading, writing, outputBuffer_, shutdownWrite,
                                got, gotFin, accepted>>

Next == \/ \E n \in 1..MaxSend : Send(n)
        \/ Shutdown \/ HandleWrite \/ HandleClose
        \/ PeerReads \/ PeerReadsFin \/ \E how \in {"closed", "reset"} : PeerGoes(how)

Spec == Init /\ [][Next]_vars

\* The loop handles what poll() reports; an open peer keeps reading.
Fairness == /\ WF_vars(HandleWrite) /\ WF_vars(HandleClose)
            /\ WF_vars(PeerReads) /\ WF_vars(PeerReadsFin)

FairSpec == Spec /\ Fairness
-----------------------------------------------------------------------------
(* Properties. *)

\* The variables keep their types.
TypeOK == /\ state_ \in {"kConnected", "kDisconnecting", "kDisconnected"}
          /\ {reading, writing, shutdownWrite, gotFin} \subseteq BOOLEAN
          /\ outputBuffer_ \in Seq(1..MaxBytes) /\ got \in Seq(1..MaxBytes)
          /\ sndbuf \in Seq(1..MaxBytes) /\ Len(sndbuf) <= SndBuf
          /\ accepted \in 0..MaxBytes
          /\ peer \in {"open", "closed", "reset"}

\* sendInLoop, handleWrite: no byte is lost, repeated or overtaken between
\* the caller, the output buffer, the kernel and an open peer.
StreamIntact == peer = "open" => got \o sndbuf \o outputBuffer_ = [i \in 1..accepted |-> i]

\* sendInLoop, handleWrite: POLLOUT is asked for exactly as long as bytes
\* wait, so that they leave, and the loop does not spin.
WritingIffWaiting == reading => (writing <=> outputBuffer_ # <<>>)

\* shutdownInLoop: "we are not writing": the end of the stream is sent after
\* every byte the caller has sent, and nothing after it.
FinIsLast == shutdownWrite /\ peer = "open" => /\ outputBuffer_ = <<>>
                                               /\ gotFin => Len(got) = accepted

\* shutdown, handleWrite: an open peer reads everything and then the end.
ShutdownCompletes ==
    state_ = "kDisconnecting" ~> (gotFin /\ Len(got) = accepted) \/ peer # "open"
=============================================================================
