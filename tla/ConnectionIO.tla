---------------------------- MODULE ConnectionIO ----------------------------
(***************************************************************************)
(* The bytes of one TcpConnection (src/src/TcpConnection.cc): what         *)
(* handleRead puts into inputBuffer_ and the application takes out, and    *)
(* what send and sendFile write to the socket or leave in outputBuffer_    *)
(* for handleWrite.                                                        *)
(*                                                                         *)
(* Everything that touches the buffers runs on the loop's thread, as an    *)
(* event handler or as a functor; functors run in the order they were      *)
(* queued (TaskQueue), and a handler may run between any two of them.      *)
(* Bytes are numbered in the order in which sendInLoop and sendFileInLoop  *)
(* take them; a queued send reads its bytes when it runs, through the      *)
(* caller's c_str().  The application has set every callback.  The race on *)
(* state_ in shutdown() is in TcpServer.                                   *)
(***************************************************************************)
EXTENDS Buffer

CONSTANTS Lens,             \* lengths of messages, files and reads
          HighWaterMark,    \* highWaterMark_
          MaxSend,          \* bound on the bytes the application sends
          MaxReceive        \* bound on the bytes the peer sends

ASSUME LensAssumption == Lens \subseteq Nat \ {0}
ASSUME BoundsAssumption ==
  HighWaterMark \in Nat /\ MaxSend \in Nat /\ MaxReceive \in Nat

VARIABLES
  state_,
  writing,          \* channel_->isWriting()
  inputBuffer_, outputBuffer_,
  functors,         \* the connection's functors in its loop's queue
  peer,             \* open, fin (it has closed) or rst (it has reset)
  finSent,          \* shutdownWrite() has been called
  closing,          \* no, removing: closeCallback_ has been called, queued:
                    \* connectDestroyed is in the queue, destroyed: it has run
  asked,            \* bytes passed to send and sendFile (for the bound)
  taken,            \* history: bytes that were written or buffered
  wire,             \* history: what the kernel has taken, in order
  received,         \* history: bytes the kernel has handed to readFd
  consumed          \* history: what the application has retrieved, in order

outVars == <<writing, outputBuffer_, taken, wire>>
inVars  == <<inputBuffer_, received, consumed>>
connVars == <<state_, peer, finSent, closing>>
vars == <<outVars, inVars, connVars, functors, asked>>

\* A functor and the number of bytes it carries.
Functor(op, len) == [op |-> op, len |-> len]
Functors == [op : {"send", "sendFile", "shutdown", "writeComplete", "highWater", "destroyed"},
             len : Nat]

Init ==
  /\ state_ = "kConnected"
  /\ writing = FALSE
  /\ inputBuffer_ = NewBuffer
  /\ outputBuffer_ = NewBuffer
  /\ functors = <<>>
  /\ peer = "open"
  /\ finSent = FALSE
  /\ closing = "no"
  /\ asked = 0
  /\ taken = 0
  /\ wire = <<>>
  /\ received = 0
  /\ consumed = <<>>

-----------------------------------------------------------------------------
(* The socket (external).                                                  *)

\* What write and sendfile return: the number of bytes taken, 0 standing for
\* EWOULDBLOCK too, or Broken for EPIPE and ECONNRESET.
Broken == -1
WriteResults(len) == IF peer = "rst" \/ finSent THEN {Broken} ELSE 0 .. len

PeerCloses(how) ==
  /\ peer = "open" \/ (peer = "fin" /\ how = "rst")
  /\ peer' = how
  /\ UNCHANGED <<state_, finSent, closing, functors, asked>>
  /\ UNCHANGED outVars
  /\ UNCHANGED inVars

-----------------------------------------------------------------------------
(* Sending, on the loop's thread.  pending is the queue without the functor *)
(* that is running.                                                        *)

\* The next len bytes.
Bytes(len) == [i \in 1 .. len |-> taken + i]

\* Mutant: nothing keeps a new message behind the buffered ones.
DirectAlways == TRUE

\* The socket is written directly only if nothing waits in outputBuffer_.
Direct == ~writing /\ ReadableBytes(outputBuffer_) = 0

NWrote(result) == IF result = Broken THEN 0 ELSE result

CrossesHighWater(oldLen, remaining) ==
  oldLen + remaining >= HighWaterMark /\ oldLen < HighWaterMark

\* Mutant: the rest is buffered and nobody asks for EPOLLOUT.
BufferRestSilently(rest, pending) ==
  LET high == CrossesHighWater(ReadableBytes(outputBuffer_), Len(rest))
  IN /\ outputBuffer_' = BufferAppend(outputBuffer_, rest)
     /\ functors' = IF high THEN Append(pending, Functor("highWater", 0)) ELSE pending
     /\ UNCHANGED writing

\* The tail of sendInLoop: what was not written is buffered and the channel
\* asks for EPOLLOUT.
BufferRest(rest, pending) ==
  LET high == CrossesHighWater(ReadableBytes(outputBuffer_), Len(rest))
  IN /\ outputBuffer_' = BufferAppend(outputBuffer_, rest)
     /\ writing' = TRUE
     /\ functors' = IF high THEN Append(pending, Functor("highWater", 0)) ELSE pending

\* sendInLoop.  In kDisconnected it logs and goes on.
SendInLoop(len, pending) ==
  \E result \in IF Direct THEN WriteResults(len) ELSE {0} :
    LET nwrote == NWrote(result)
    IN /\ wire' = wire \o SubSeq(Bytes(len), 1, nwrote)
       /\ IF nwrote < len /\ result # Broken
            THEN /\ BufferRest(SubSeq(Bytes(len), nwrote + 1, len), pending)
                 /\ taken' = taken + len
            ELSE /\ functors' = IF nwrote = len THEN Append(pending, Functor("writeComplete", 0))
                                ELSE pending
                 /\ taken' = taken + nwrote
                 /\ UNCHANGED <<writing, outputBuffer_>>

\* sendFileInLoop: what the socket does not take now is queued again, behind
\* whatever is in the queue; kDisconnecting gives the rest up.  The file is at
\* least count bytes long.
SendFileInLoop(count, pending) ==
  /\ IF state_ = "kDisconnecting"
       THEN functors' = pending /\ UNCHANGED <<wire, taken>>
       ELSE \E result \in IF Direct THEN WriteResults(count) ELSE {0} :
              LET sent == NWrote(result)
              IN /\ wire' = wire \o SubSeq(Bytes(count), 1, sent)
                 /\ taken' = taken + sent
                 /\ functors' =
                      CASE result = Broken -> pending
                        [] result = count  -> Append(pending, Functor("writeComplete", 0))
                        [] OTHER -> Append(pending, Functor("sendFile", count - sent))
  /\ UNCHANGED <<writing, outputBuffer_>>

\* Mutant: the write side is shut down whatever is left to write.
MayShutdownWriteAlways == TRUE

\* shutdownInLoop shuts the write side down once nothing waits to be written.
MayShutdownWrite == ~writing

ShutdownInLoop == finSent' = (finSent \/ MayShutdownWrite)

-----------------------------------------------------------------------------
(* The application.                                                        *)

CanSend(len) == state_ = "kConnected" /\ asked + len <= MaxSend

\* send, sendFile and shutdown in a callback of the loop's thread.
Send(len) ==
  /\ CanSend(len)
  /\ SendInLoop(len, functors)
  /\ asked' = asked + len
  /\ UNCHANGED inVars
  /\ UNCHANGED connVars

SendFile(count) ==
  /\ CanSend(count)
  /\ SendFileInLoop(count, functors)
  /\ asked' = asked + count
  /\ UNCHANGED inVars
  /\ UNCHANGED connVars

Shutdown ==
  /\ state_ = "kConnected"
  /\ state_' = "kDisconnecting"
  /\ ShutdownInLoop
  /\ UNCHANGED <<peer, closing, functors, asked>>
  /\ UNCHANGED outVars
  /\ UNCHANGED inVars

\* The same calls from other threads.
QueueSend(op, len) ==
  /\ CanSend(len)
  /\ functors' = Append(functors, Functor(op, len))
  /\ asked' = asked + len
  /\ UNCHANGED outVars
  /\ UNCHANGED inVars
  /\ UNCHANGED connVars

QueueShutdown ==
  /\ state_ = "kConnected"
  /\ state_' = "kDisconnecting"
  /\ functors' = Append(functors, Functor("shutdown", 0))
  /\ UNCHANGED <<peer, finSent, closing, asked>>
  /\ UNCHANGED outVars
  /\ UNCHANGED inVars

-----------------------------------------------------------------------------
(* Event handlers.                                                         *)

\* One round of handleRead's loop: readFd, then messageCallback_, in which the
\* application retrieves as much as it likes.
HandleRead(n, len) ==
  /\ closing = "no"
  /\ n <= ReadFdMax(inputBuffer_)
  /\ received + n <= MaxReceive
  /\ received' = received + n
  /\ LET filled == ReadFd(inputBuffer_, [i \in 1 .. n |-> received + i])
     IN /\ len <= ReadableBytes(filled)
        /\ consumed' = consumed \o RetrieveAsString(filled, len)
        /\ inputBuffer_' = Retrieve(filled, len)
  /\ UNCHANGED <<functors, asked>>
  /\ UNCHANGED outVars
  /\ UNCHANGED connVars

\* Mutant: the channel keeps asking for EPOLLOUT.
StillWritingAlways(left) == TRUE

\* disableWriting() once the buffer is empty.
StillWriting(left) == ReadableBytes(left) # 0

\* Mutant: a shutdown that waits for the buffer is forgotten.
ResumesShutdownNever(left) == FALSE

\* The shutdownInLoop() that handleWrite calls for a shutdown() that waited.
ResumesShutdown(left) == ReadableBytes(left) = 0 /\ state_ = "kDisconnecting"

\* handleWrite, called for EPOLLOUT, up to EAGAIN: n bytes are written.  An
\* error writes nothing and changes nothing.
HandleWrite(n) ==
  LET left == Retrieve(outputBuffer_, n)
  IN /\ writing /\ closing # "destroyed"
     /\ n <= ReadableBytes(outputBuffer_)
     /\ n \in WriteResults(n)
     /\ wire' = wire \o WriteFd(outputBuffer_, n)
     /\ outputBuffer_' = left
     /\ writing' = StillWriting(left)
     /\ functors' = IF ReadableBytes(left) = 0
                      THEN Append(functors, Functor("writeComplete", 0))
                      ELSE functors
     /\ finSent' = (finSent \/ ResumesShutdown(left))
     /\ UNCHANGED <<state_, peer, closing, asked, taken>>
     /\ UNCHANGED inVars

\* handleClose, by end of file or through handleError: disableAll().
HandleClose ==
  /\ peer # "open"
  /\ closing = "no"
  /\ state_' = "kDisconnected"
  /\ writing' = FALSE
  /\ closing' = "removing"
  /\ UNCHANGED <<outputBuffer_, taken, wire, peer, finSent, functors, asked>>
  /\ UNCHANGED inVars

\* The base loop queues connectDestroyed (TcpServer).
RemoveConnection ==
  /\ closing = "removing"
  /\ closing' = "queued"
  /\ functors' = Append(functors, Functor("destroyed", 0))
  /\ UNCHANGED <<state_, peer, finSent, asked>>
  /\ UNCHANGED outVars
  /\ UNCHANGED inVars

-----------------------------------------------------------------------------
(* doPendingFunctors.                                                      *)

Running(op) == functors # <<>> /\ Head(functors).op = op

RunSend ==
  /\ Running("send")
  /\ SendInLoop(Head(functors).len, Tail(functors))
  /\ UNCHANGED asked
  /\ UNCHANGED inVars
  /\ UNCHANGED connVars

RunSendFile ==
  /\ Running("sendFile")
  /\ SendFileInLoop(Head(functors).len, Tail(functors))
  /\ UNCHANGED asked
  /\ UNCHANGED inVars
  /\ UNCHANGED connVars

RunShutdown ==
  /\ Running("shutdown")
  /\ ShutdownInLoop
  /\ functors' = Tail(functors)
  /\ UNCHANGED <<state_, peer, closing, asked>>
  /\ UNCHANGED outVars
  /\ UNCHANGED inVars

\* The application's callbacks; what they call is an action of its own.
RunCallback ==
  /\ Running("writeComplete") \/ Running("highWater")
  /\ functors' = Tail(functors)
  /\ UNCHANGED asked
  /\ UNCHANGED outVars
  /\ UNCHANGED inVars
  /\ UNCHANGED connVars

\* connectDestroyed: channel_->remove() ends the events of the channel
\* and leaves its mask alone.
RunDestroyed ==
  /\ Running("destroyed")
  /\ closing' = "destroyed"
  /\ functors' = Tail(functors)
  /\ UNCHANGED <<state_, peer, finSent, asked>>
  /\ UNCHANGED outVars
  /\ UNCHANGED inVars

-----------------------------------------------------------------------------

RunFunctor == RunSend \/ RunSendFile \/ RunShutdown \/ RunCallback \/ RunDestroyed

Writes == \E n \in 1 .. ReadableBytes(outputBuffer_) : HandleWrite(n)

Next ==
  \/ \E len \in Lens : \/ Send(len) \/ SendFile(len)
                       \/ QueueSend("send", len) \/ QueueSend("sendFile", len)
  \/ Shutdown \/ QueueShutdown
  \/ \E n \in Lens, len \in 0 .. MaxReceive : HandleRead(n, len)
  \/ Writes \/ HandleClose \/ RemoveConnection
  \/ RunFunctor
  \/ \E how \in {"fin", "rst"} : PeerCloses(how)

SafetySpec == Init /\ [][Next]_vars

\* A round of sendFileInLoop in which the socket has room.
SendFileProgress == RunSendFile /\ wire' # wire

\* The loop runs, and a peer that has not gone goes on reading: EPOLLOUT comes
\* back, and a file that is tried again and again finds room at times.
Spec ==
  SafetySpec /\ WF_vars(RunFunctor) /\ WF_vars(Writes) /\ SF_vars(SendFileProgress)

-----------------------------------------------------------------------------
(* Properties.                                                             *)

TypeOK ==
  /\ state_ \in {"kConnected", "kDisconnecting", "kDisconnected"}
  /\ writing \in BOOLEAN
  /\ inputBuffer_ \in BufferType
  /\ outputBuffer_ \in BufferType
  /\ functors \in Seq(Functors)
  /\ peer \in {"open", "fin", "rst"}
  /\ finSent \in BOOLEAN
  /\ closing \in {"no", "removing", "queued", "destroyed"}
  /\ asked \in 0 .. MaxSend
  /\ taken \in Nat
  /\ wire \in Seq(Byte)
  /\ received \in 0 .. MaxReceive
  /\ consumed \in Seq(Byte)

\* No index of either buffer leaves its vector, whatever mix of readFd, append,
\* makeSpace and retrieve it has seen: no std::copy writes outside it.
IndexesInside == IndexesOK(inputBuffer_) /\ IndexesOK(outputBuffer_)

UpTo(n) == [i \in 1 .. n |-> i]

\* No byte is lost, repeated or overtaken between send and the socket: direct
\* writes, buffered rests, file chunks and handleWrite keep the order in which
\* the connection took them.
SentInOrder == wire \o Peek(outputBuffer_) = UpTo(taken)

\* Nor between the socket and the application, whatever it leaves in the buffer.
ReceivedInOrder == consumed \o Peek(inputBuffer_) = UpTo(received)

\* A connection that is not closed asks for EPOLLOUT exactly while it has
\* something to write: else it would never write it, or its loop would spin.
InterestIffBuffered ==
  closing = "no" => (writing <=> ReadableBytes(outputBuffer_) > 0)

\* The write side is shut down only behind everything the connection took.
FinAfterData == finSent /\ closing = "no" => Len(wire) = taken

\* Gone connections excepted, what is buffered is written.
BufferDrains ==
  ReadableBytes(outputBuffer_) > 0
    ~> ReadableBytes(outputBuffer_) = 0 \/ peer = "rst" \/ closing # "no"

FileQueued == \E i \in DOMAIN functors : functors[i].op = "sendFile"

\* sendFileInLoop stops queueing itself: messages sent in between, which it
\* waits behind, and other files do not keep it from its end, unless the
\* connection is closed under it.
FileEnds == FileQueued ~> ~FileQueued \/ peer # "open"

\* shutdown() sends the FIN, behind the buffered bytes.
ShutdownSendsFin ==
  state_ = "kDisconnecting" ~> finSent \/ peer = "rst" \/ closing # "no"
=============================================================================
