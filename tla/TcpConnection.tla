--------------------------- MODULE TcpConnection ---------------------------
(***************************************************************************)
(* The life of one TcpConnection (src/src/TcpConnection.cc) as a record:   *)
(*   state    state_ ("none" before the constructor)                       *)
(*   ch       its Channel                                                  *)
(*   out      outputBuffer_ is not empty                                   *)
(*   finSent  shutdownWrite() has been called                              *)
(*   sock     the peer's side of the socket: open, fin (it has closed) or  *)
(*            rst (it has reset the connection)                            *)
(*   soerr    the socket has an error nobody has fetched yet               *)
(*   ups, downs   history: connectionCallback_ calls, connected or not     *)
(* The operators give the record after the member function of that name,   *)
(* or the set of possible ones where the kernel or the application decides.*)
(* Everything here runs on the thread of the connection's loop.            *)
(***************************************************************************)
EXTENDS Naturals, Channel

States == {"none", "kConnecting", "kConnected", "kDisconnecting", "kDisconnected"}

ConnType ==
  [state : States, ch : ChannelType, out : BOOLEAN, finSent : BOOLEAN,
   sock : {"open", "fin", "rst"}, soerr : BOOLEAN, ups : Nat, downs : Nat]

NoConn ==
  [state |-> "none", ch |-> NewChannel, out |-> FALSE, finSent |-> FALSE,
   sock |-> "open", soerr |-> FALSE, ups |-> 0, downs |-> 0]

Constructed(r) == [r EXCEPT !.state = "kConnecting"]

\* connectionCallback_: the application is told, and looks at connected().
Notify(r) ==
  IF r.state = "kConnected" THEN [r EXCEPT !.ups = @ + 1] ELSE [r EXCEPT !.downs = @ + 1]

ConnectEstablished(r) ==
  Notify([r EXCEPT !.state = "kConnected", !.ch = EnableReading(EnableET(@))])

ConnectDestroyed(r) ==
  LET down == IF r.state = "kConnected"
                THEN Notify([r EXCEPT !.state = "kDisconnected", !.ch = DisableAll(@)])
                ELSE r
  IN  [down EXCEPT !.ch = Remove(@)]

\* Mutant: handleClose does not call connectionCallback_.
HandleCloseSilent(r) == [r EXCEPT !.state = "kDisconnected", !.ch = DisableAll(@)]

\* Mutant: handleClose calls connectionCallback_ before it sets the state.
HandleCloseTellsFirst(r) == [Notify(r) EXCEPT !.state = "kDisconnected", !.ch = DisableAll(@)]

\* handleClose up to closeCallback_, which is TcpServer's.
HandleClose(r) == Notify([r EXCEPT !.state = "kDisconnected", !.ch = DisableAll(@)])

\* handleError fetches SO_ERROR, which clears it, and closes.
HandleError(r) == HandleClose([r EXCEPT !.soerr = FALSE])

ShutdownInLoop(r) == IF IsWriting(r.ch) THEN r ELSE [r EXCEPT !.finSent = TRUE]

\* shutdown() on the loop's own thread.
Shutdown(r) ==
  IF r.state = "kConnected" THEN ShutdownInLoop([r EXCEPT !.state = "kDisconnecting"]) ELSE r

\* What write(2) does: all of it, some or none (EWOULDBLOCK), or EPIPE or
\* ECONNRESET once the peer has reset or our own side is shut down.
WriteOutcomes(r) == IF r.sock = "rst" \/ r.finSent THEN {"fault"} ELSE {"all", "some"}

\* sendInLoop of a message that is not empty.  In kDisconnected it only logs.
SendInLoop(r) ==
  LET direct == ~IsWriting(r.ch) /\ ~r.out
      buffered == [r EXCEPT !.out = TRUE,
                                 !.ch = IF IsWriting(@) THEN @ ELSE EnableWriting(@)]
  IN  IF direct
        THEN {IF w = "some" THEN buffered ELSE r : w \in WriteOutcomes(r)}
        ELSE {buffered}

\* send() on the loop's own thread.
Send(r) == IF r.state = "kConnected" THEN SendInLoop(r) ELSE {r}

\* messageCallback_: the application may send, shut down, or both.  A second
\* message of the same handleRead adds nothing that one cannot do.
MessageCallback(r) == {r, Shutdown(r)} \cup Send(r) \cup {Shutdown(s) : s \in Send(r)}

\* handleRead after its messages: EAGAIN ends it on an open socket, end of
\* file closes, and so does an error, through handleError.
ReadToEnd(r) ==
  CASE r.sock = "open" -> r
    [] r.sock # "open" /\ r.soerr  -> HandleError(r)
    [] r.sock # "open" /\ ~r.soerr -> HandleClose(r)

\* Mutant: handleRead returns after the first message (no loop until EAGAIN).
HandleReadOnce(r) == MessageCallback(r)

HandleRead(r) == {ReadToEnd(s) : s \in {r} \cup MessageCallback(r)}

\* handleWrite: some of outputBuffer_ is written (EAGAIN or an error ends the
\* loop), or all of it.
HandleWrite(r) ==
  LET sent == [r EXCEPT !.out = FALSE, !.ch = DisableWriting(@)]
      drained == IF r.state = "kDisconnecting" THEN ShutdownInLoop(sent) ELSE sent
  IN  IF IsWriting(r.ch) /\ "fault" \notin WriteOutcomes(r) THEN {r, drained} ELSE {r}

-----------------------------------------------------------------------------
(* The kernel (external).                                                  *)

\* The sets of events epoll_wait may report for a registered socket.  HUP and
\* ERR are reported whatever the mask is.  Data and buffer space come and go
\* on an open socket; end of file and reset stay.
Revents(r) ==
  LET hup == r.sock = "rst" \/ (r.sock = "fin" /\ r.finSent)
      must == (IF r.sock = "open" THEN {} ELSE r.ch.mask \cap {"IN"})
                \cup (IF hup THEN {"HUP"} ELSE {})
                \cup (IF r.soerr THEN {"ERR"} ELSE {})
      may == r.ch.mask \cap {"IN", "OUT"}
  IN  IF r.ch.registered THEN {must \cup s : s \in SUBSET may} ELSE {{}}

\* The phases of Channel::handleEventWithGuard for these events.
Phases(revents) ==
  (IF "HUP" \in revents /\ "IN" \notin revents THEN {"close"} ELSE {})
    \cup (IF "ERR" \in revents THEN {"error"} ELSE {})
    \cup (IF "IN" \in revents THEN {"read"} ELSE {})
    \cup (IF "OUT" \in revents THEN {"write"} ELSE {})
=============================================================================
