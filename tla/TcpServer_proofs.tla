-------------------------- MODULE TcpServer_proofs --------------------------
(***************************************************************************)
(* TcpServer, for any connections, any number of io loops and any calls of *)
(* other threads.                                                          *)
(***************************************************************************)
EXTENDS TcpServer, ListLemmas

-----------------------------------------------------------------------------
(* Channels.                                                               *)

\* The poller's marks, the kernel and the owner agree, up to ET (enableET does
\* not update).
Fresh(ch) == ch.registered => ch.mask \ {"ET"} = ch.events \ {"ET"}
Good(ch) == ch \in ChannelType /\ ChannelOK(ch) /\ Fresh(ch)

\* updateChannel makes a channel good whose events have just been changed.
LEMMA UpdateIsGood ==
  ASSUME NEW ch \in ChannelType, ChannelOK(ch)
  PROVE  Good(Update(ch))
<1> USE DEF ChannelType, ChannelOK, Good, Fresh, Indexes, Events
<1>1. CASE ch.index = "kNew"
  BY <1>1 DEF Update, CtlSet
<1>2. CASE ch.index = "kDeleted"
  BY <1>2 DEF Update, CtlSet
<1>3. CASE ch.index = "kAdded" /\ IsNoneEvent(ch)
  BY <1>3 DEF Update, CtlDel, IsNoneEvent
<1>4. CASE ch.index = "kAdded" /\ ~IsNoneEvent(ch)
  BY <1>4 DEF Update, CtlSet, IsNoneEvent
<1> QED
  BY <1>1, <1>2, <1>3, <1>4

\* removeChannel leaves a new channel behind.
LEMMA RemoveIsGood ==
  ASSUME NEW ch \in ChannelType, ChannelOK(ch)
  PROVE  Good(Remove(ch))
<1> USE DEF ChannelType, ChannelOK, Good, Fresh, Indexes
<1>1. CASE ch.index = "kAdded"
  BY <1>1 DEF Remove, CtlDel
<1>2. CASE ch.index # "kAdded"
  BY <1>2 DEF Remove
<1> QED
  BY <1>1, <1>2

\* update() after a change of events_ leaves a good channel in channels_.
LEMMA UpdateEvents ==
  ASSUME NEW ch \in ChannelType, ChannelOK(ch), NEW e \in SUBSET Events
  PROVE  Good(Update([ch EXCEPT !.events = e])) /\ Update([ch EXCEPT !.events = e]).mapped = TRUE
<1> DEFINE d == [ch EXCEPT !.events = e]
<1>1. d \in ChannelType /\ ChannelOK(d)
  BY DEF ChannelType, ChannelOK
<1> HIDE DEF d
<1>2. Good(Update(d))
  BY <1>1, UpdateIsGood
<1>3. Update(d).mapped = TRUE
  BY <1>1 DEF Update, ChannelOK, ChannelType, Indexes, CtlSet, CtlDel
<1> QED
  BY <1>2, <1>3 DEF d

\* The calls that connections make of their channels.
LEMMA ChannelCalls ==
  ASSUME NEW ch, Good(ch)
  PROVE  /\ Good(EnableReading(EnableET(ch))) /\ EnableReading(EnableET(ch)).mapped = TRUE
         /\ Good(EnableWriting(ch)) /\ EnableWriting(ch).mapped = TRUE
         /\ Good(DisableWriting(ch)) /\ DisableWriting(ch).mapped = TRUE
         /\ Good(DisableAll(ch)) /\ DisableAll(ch).mapped = TRUE
         /\ Good(Remove(ch)) /\ Remove(ch).mapped = FALSE
<1>1. ch \in ChannelType /\ ChannelOK(ch) /\ ch.events \in SUBSET Events
  BY DEF Good, ChannelType
<1>2. EnableET(ch) \in ChannelType /\ ChannelOK(EnableET(ch))
  BY <1>1 DEF EnableET, ChannelType, ChannelOK, Events
<1>3. Good(EnableReading(EnableET(ch))) /\ EnableReading(EnableET(ch)).mapped = TRUE
  <2> DEFINE d == EnableET(ch)
             e == d.events \cup {"IN"}
  <2>1. e \in SUBSET Events
    BY <1>2 DEF ChannelType, Events
  <2> HIDE DEF d
  <2>2. Good(Update([d EXCEPT !.events = e])) /\ Update([d EXCEPT !.events = e]).mapped = TRUE
    BY <1>2, <2>1, UpdateEvents DEF d
  <2> QED
    BY <2>2 DEF EnableReading, d
<1>4. Good(EnableWriting(ch)) /\ EnableWriting(ch).mapped = TRUE
  <2>1. ch.events \cup {"OUT"} \in SUBSET Events
    BY <1>1 DEF Events
  <2> QED
    BY <1>1, <2>1, UpdateEvents DEF EnableWriting
<1>5. Good(DisableWriting(ch)) /\ DisableWriting(ch).mapped = TRUE
  <2>1. ch.events \ {"OUT"} \in SUBSET Events
    BY <1>1 DEF Events
  <2> QED
    BY <1>1, <2>1, UpdateEvents DEF DisableWriting
<1>6. Good(DisableAll(ch)) /\ DisableAll(ch).mapped = TRUE
  BY <1>1, UpdateEvents DEF DisableAll
<1>7. Good(Remove(ch)) /\ Remove(ch).mapped = FALSE
  <2>1. Good(Remove(ch))
    BY <1>1, RemoveIsGood
  <2>2. Remove(ch).mapped = FALSE
    BY <1>1 DEF Remove, ChannelType, CtlDel
  <2> QED
    BY <2>1, <2>2
<1> QED
  BY <1>3, <1>4, <1>5, <1>6, <1>7

-----------------------------------------------------------------------------
(* EPollPoller by itself, for any set of descriptors and any sequence of   *)
(* calls of their owners.                                                  *)

CONSTANT Fds
VARIABLE channel

EP == INSTANCE EPollPoller

\* EPollPoller has the channels of the connections.
LEMMA SameChannels ==
  ASSUME NEW ch
  PROVE  /\ ch \in EP!ChannelType <=> ch \in ChannelType
         /\ EP!ChannelOK(ch) <=> ChannelOK(ch)
         /\ EP!Update(ch) = Update(ch)
         /\ EP!Remove(ch) = Remove(ch)
BY DEF EP!ChannelType, ChannelType, EP!Events, Events, EP!Indexes, Indexes, EP!ChannelOK, ChannelOK,
       EP!Update, Update, EP!Remove, Remove, EP!CtlSet, CtlSet, EP!CtlDel, CtlDel,
       EP!IsNoneEvent, IsNoneEvent

AllGood == channel \in [Fds -> ChannelType] /\ \A fd \in Fds : Good(channel[fd])

\* Every call keeps every channel good.
LEMMA AllGoodInvariant == EP!Spec => []AllGood
<1>1. EP!Init => AllGood
  BY DEF EP!Init, AllGood, Good, Fresh, EP!NewChannel, ChannelType, ChannelOK, Indexes, Events
<1>2. AllGood /\ [EP!Next]_channel => AllGood'
  <2> SUFFICES ASSUME AllGood, EP!Next PROVE AllGood'
    BY DEF AllGood
  <2>1. PICK fd \in Fds :
          \/ EP!Becomes(fd, EP!EnableET(channel[fd]))
          \/ EP!Becomes(fd, EP!EnableReading(channel[fd]))
          \/ EP!Becomes(fd, EP!DisableReading(channel[fd]))
          \/ EP!Becomes(fd, EP!EnableWriting(channel[fd]))
          \/ EP!Becomes(fd, EP!DisableWriting(channel[fd]))
          \/ EP!Becomes(fd, EP!DisableAll(channel[fd]))
          \/ EP!Becomes(fd, EP!Remove(channel[fd]))
    BY DEF EP!Next
  <2> DEFINE ch == channel[fd]
  <2>2. ch \in ChannelType /\ ChannelOK(ch) /\ Good(ch) /\ ch.events \in SUBSET Events
    BY DEF AllGood, Good, ChannelType
  <2>3. ASSUME NEW new, Good(new), EP!Becomes(fd, new)
        PROVE  AllGood'
    BY <2>3 DEF AllGood, EP!Becomes, Good
  <2>4. ASSUME NEW e \in SUBSET Events
        PROVE  Good(EP!Update([ch EXCEPT !.events = e]))
    BY <2>2, <2>4, UpdateEvents, SameChannels
  <2>5. Good(EP!EnableET(ch))
    BY <2>2 DEF EP!EnableET, Good, Fresh, ChannelOK, ChannelType, Events
  <2>6. Good(EP!EnableReading(ch)) /\ Good(EP!DisableReading(ch))
    BY <2>2, <2>4 DEF EP!EnableReading, EP!DisableReading, Events
  <2>7. Good(EP!EnableWriting(ch)) /\ Good(EP!DisableWriting(ch))
    BY <2>2, <2>4 DEF EP!EnableWriting, EP!DisableWriting, Events
  <2>8. Good(EP!DisableAll(ch)) /\ Good(EP!Remove(ch))
    BY <2>2, <2>4, RemoveIsGood, SameChannels DEF EP!DisableAll
  <2> QED
    BY <2>1, <2>3, <2>5, <2>6, <2>7, <2>8
<1> QED
  BY <1>1, <1>2, PTL DEF EP!Spec

\* MarksAgreeWithKernel: no epoll_ctl of updateChannel or removeChannel ever
\* meets EEXIST or ENOENT.
THEOREM MarksAlwaysAgree == EP!Spec => []EP!MarksAgreeWithKernel
<1>1. AllGood => EP!MarksAgreeWithKernel
  BY SameChannels DEF AllGood, Good, EP!MarksAgreeWithKernel
<1> QED
  BY <1>1, AllGoodInvariant, PTL

\* MaskCurrent: the kernel's mask is never out of date in reading and writing.
THEOREM MaskAlwaysCurrent == EP!Spec => []EP!MaskCurrent
<1>1. AllGood => EP!MaskCurrent
  BY DEF AllGood, Good, Fresh, EP!MaskCurrent
<1> QED
  BY <1>1, AllGoodInvariant, PTL

-----------------------------------------------------------------------------
(* One connection.                                                         *)

\* Before connectEstablished the application knows nothing of a connection and
\* the poller neither; afterwards it has been told once.
Unborn == {"none", "kConnecting"}

ConnOK(r) ==
  /\ r \in ConnType
  /\ Good(r.ch)
  /\ r.state = "kDisconnected" => r.downs # 0
  /\ r.state \in Unborn => r.ups = 0 /\ r.downs = 0 /\ r.ch.mapped = FALSE
  /\ r.state \notin Unborn => r.ups = 1

\* What any event of its life does to an established connection.
Lives(r, s) ==
  /\ ConnOK(s)
  /\ s.state \notin Unborn
  /\ r.downs # 0 => s.downs # 0
  /\ r.ch.mapped = TRUE => s.ch.mapped = TRUE
  /\ r.state = "kDisconnecting" /\ s.downs = 0 => s.state = "kDisconnecting"

LEMMA LivesOn ==
  ASSUME NEW r, ConnOK(r), r.state \notin Unborn
  PROVE  Lives(r, r)
BY DEF Lives

LEMMA LivesLonger ==
  ASSUME NEW r, NEW s, NEW u, Lives(r, s), Lives(s, u)
  PROVE  Lives(r, u)
BY DEF Lives, ConnOK

LEMMA NoConnOK == ConnOK(NoConn)
BY DEF ConnOK, NoConn, NewChannel, ConnType, ChannelType, States, Good, ChannelOK, Fresh, Indexes, Events,
       Unborn

LEMMA ConstructedOK ==
  ASSUME NEW r, ConnOK(r), r.state = "none"
  PROVE  ConnOK(Constructed(r)) /\ Constructed(r).state = "kConnecting"
BY DEF ConnOK, Constructed, ConnType, States, Unborn

LEMMA EstablishedOK ==
  ASSUME NEW r, ConnOK(r), r.state = "kConnecting"
  PROVE  ConnOK(ConnectEstablished(r)) /\ ConnectEstablished(r).state = "kConnected"
<1> DEFINE ch == EnableReading(EnableET(r.ch))
           s == [r EXCEPT !.state = "kConnected", !.ch = ch]
<1>1. Good(ch) /\ ch \in ChannelType /\ r \in ConnType
  BY ChannelCalls DEF ConnOK, Good
<1>2. ConnectEstablished(r) = [s EXCEPT !.ups = @ + 1]
  BY <1>1 DEF ConnectEstablished, Notify, ConnType
<1> HIDE DEF ch
<1>3. s \in ConnType /\ s.state = "kConnected" /\ s.ch = ch /\ s.ups = 0 /\ s.downs = 0
  BY <1>1 DEF ConnType, States, ConnOK, Unborn
<1> HIDE DEF s
<1> QED
  BY <1>1, <1>2, <1>3 DEF ConnOK, ConnType, Unborn

\* HandleClose, and connectDestroyed of a connected one.
LEMMA DownOK ==
  ASSUME NEW r, ConnOK(r), r.state \notin Unborn, NEW ch, Good(ch)
  PROVE  LET s == Notify([r EXCEPT !.state = "kDisconnected", !.ch = ch])
         IN  ConnOK(s) /\ s.state = "kDisconnected" /\ s.downs # 0 /\ s.ch = ch
<1> DEFINE q == [r EXCEPT !.state = "kDisconnected", !.ch = ch]
<1>1. ch \in ChannelType /\ r \in ConnType /\ r.ups = 1
  BY DEF Good, ConnOK
<1>2. q \in ConnType /\ q.state = "kDisconnected" /\ q.ch = ch /\ q.ups = 1
  BY <1>1 DEF ConnType, States
<1> HIDE DEF q
<1>3. Notify(q) = [q EXCEPT !.downs = @ + 1]
  BY <1>2 DEF Notify
<1>4. ConnOK(Notify(q)) /\ Notify(q).state = "kDisconnected" /\ Notify(q).downs # 0 /\ Notify(q).ch = ch
  BY <1>2, <1>3 DEF ConnOK, ConnType, Unborn
<1> QED
  BY <1>4 DEF q

LEMMA HandleCloseOK ==
  ASSUME NEW r, ConnOK(r), r.state \notin Unborn
  PROVE  Lives(r, HandleClose(r)) /\ HandleClose(r).state = "kDisconnected"
<1>1. Good(r.ch) /\ r \in ConnType
  BY DEF ConnOK
<1>2. Good(DisableAll(r.ch)) /\ DisableAll(r.ch).mapped = TRUE
  BY <1>1, ChannelCalls
<1> DEFINE ch == DisableAll(r.ch)
<1>3. HandleClose(r) = Notify([r EXCEPT !.state = "kDisconnected", !.ch = ch])
  BY <1>1 DEF HandleClose, ConnType
<1> HIDE DEF ch
<1>4. /\ ConnOK(HandleClose(r)) /\ HandleClose(r).state = "kDisconnected"
      /\ HandleClose(r).downs # 0 /\ HandleClose(r).ch = ch
  <2>1. Good(ch)
    BY <1>2 DEF ch
  <2> DEFINE s == Notify([r EXCEPT !.state = "kDisconnected", !.ch = ch])
  <2>2. ConnOK(s) /\ s.state = "kDisconnected" /\ s.downs # 0 /\ s.ch = ch
    BY <2>1, DownOK
  <2> HIDE DEF s
  <2> QED
    BY <1>3, <2>2 DEF s
<1> QED
  BY <1>2, <1>4 DEF Lives, Unborn, ch

LEMMA HandleErrorOK ==
  ASSUME NEW r, ConnOK(r), r.state \notin Unborn
  PROVE  Lives(r, HandleError(r)) /\ HandleError(r).state = "kDisconnected"
<1> DEFINE q == [r EXCEPT !.soerr = FALSE]
<1>1. ConnOK(q) /\ q.state = r.state /\ Lives(r, q)
  BY DEF ConnOK, ConnType, Lives
<1> HIDE DEF q
<1>2. Lives(q, HandleClose(q)) /\ HandleClose(q).state = "kDisconnected"
  BY <1>1, HandleCloseOK
<1> QED
  BY <1>1, <1>2, LivesLonger DEF HandleError, q

LEMMA DestroyedOK ==
  ASSUME NEW r, ConnOK(r)
  PROVE  LET s == ConnectDestroyed(r)
         IN  /\ ConnOK(s) /\ s.ch.mapped = FALSE
             /\ s.state = "none" <=> r.state = "none"
             /\ s.state = "kConnecting" <=> r.state = "kConnecting"
             /\ r.downs # 0 => s.downs # 0
             /\ s.downs = 0 => s.state = r.state /\ r.state # "kConnected"
<1>1. Good(r.ch) /\ r \in ConnType
  BY DEF ConnOK
<1> DEFINE ch == DisableAll(r.ch)
           q == Notify([r EXCEPT !.state = "kDisconnected", !.ch = ch])
<1>2. CASE r.state = "kConnected"
  <2>1. Good(ch)
    BY <1>1, ChannelCalls
  <2>2. ConnOK(q) /\ q.state = "kDisconnected" /\ q.downs # 0 /\ q.ch = ch
    BY <1>2, <2>1, DownOK DEF Unborn
  <2>3. ConnectDestroyed(r) = [q EXCEPT !.ch = Remove(q.ch)]
    BY <1>1, <1>2 DEF ConnectDestroyed, ConnType
  <2> HIDE DEF q
  <2>4. Good(Remove(q.ch)) /\ Remove(q.ch).mapped = FALSE
    BY <2>2, ChannelCalls DEF ConnOK
  <2>5. Remove(q.ch) \in ChannelType
    BY <2>4 DEF Good
  <2> QED
    BY <1>2, <2>2, <2>3, <2>4, <2>5 DEF ConnOK, ConnType, Unborn
<1>3. CASE r.state # "kConnected"
  <2>1. ConnectDestroyed(r) = [r EXCEPT !.ch = Remove(r.ch)]
    BY <1>1, <1>3 DEF ConnectDestroyed, ConnType
  <2>2. Good(Remove(r.ch)) /\ Remove(r.ch).mapped = FALSE /\ Remove(r.ch) \in ChannelType
    BY <1>1, ChannelCalls DEF Good
  <2> QED
    BY <1>1, <1>3, <2>1, <2>2 DEF ConnOK, ConnType, Unborn
<1> QED
  BY <1>2, <1>3

LEMMA ShutdownOK ==
  ASSUME NEW r, ConnOK(r), r.state \notin Unborn
  PROVE  Lives(r, ShutdownInLoop(r)) /\ Lives(r, Shutdown(r))
<1>1. ASSUME NEW q, ConnOK(q), q.state \notin Unborn
      PROVE  Lives(q, ShutdownInLoop(q))
  <2>1. q \in ConnType
    BY <1>1 DEF ConnOK
  <2>2. ShutdownInLoop(q) = q \/ ShutdownInLoop(q) = [q EXCEPT !.finSent = TRUE]
    BY DEF ShutdownInLoop
  <2>3. ConnOK(ShutdownInLoop(q)) /\ ShutdownInLoop(q).state = q.state
        /\ ShutdownInLoop(q).downs = q.downs /\ ShutdownInLoop(q).ch = q.ch
    <3>1. CASE ShutdownInLoop(q) = q
      BY <1>1, <3>1
    <3>2. CASE ShutdownInLoop(q) = [q EXCEPT !.finSent = TRUE]
      <4> DEFINE s == [q EXCEPT !.finSent = TRUE]
      <4>1. /\ s \in ConnType /\ s.state = q.state /\ s.downs = q.downs /\ s.ch = q.ch
            /\ s.ups = q.ups
        BY <2>1 DEF ConnType
      <4> HIDE DEF s
      <4> QED
        BY <1>1, <3>2, <4>1 DEF ConnOK, s
    <3> QED
      BY <2>2, <3>1, <3>2
  <2> QED
    BY <1>1, <2>3 DEF Lives
<1>2. CASE r.state = "kConnected"
  <2> DEFINE q == [r EXCEPT !.state = "kDisconnecting"]
  <2>1. ConnOK(q) /\ q.state \notin Unborn /\ Lives(r, q)
    BY DEF ConnOK, ConnType, States, Unborn, Lives
  <2>2. Shutdown(r) = ShutdownInLoop(q)
    BY <1>2 DEF Shutdown
  <2> HIDE DEF q
  <2>3. Lives(q, ShutdownInLoop(q))
    BY <1>1, <2>1
  <2> QED
    BY <1>1, <2>1, <2>2, <2>3, LivesLonger
<1>3. CASE r.state # "kConnected"
  BY <1>1, <1>3, LivesOn DEF Shutdown
<1> QED
  BY <1>2, <1>3

LEMMA SendOK ==
  ASSUME NEW r, ConnOK(r), r.state \notin Unborn
  PROVE  (\A s \in SendInLoop(r) : Lives(r, s)) /\ (\A s \in Send(r) : Lives(r, s))
<1> DEFINE ch == IF IsWriting(r.ch) THEN r.ch ELSE EnableWriting(r.ch)
           b == [r EXCEPT !.out = TRUE, !.ch = ch]
<1>1. r \in ConnType /\ Good(r.ch) /\ Good(EnableWriting(r.ch)) /\ EnableWriting(r.ch).mapped = TRUE
  BY ChannelCalls DEF ConnOK
<1>2. Good(ch) /\ ch \in ChannelType /\ (r.ch.mapped = TRUE => ch.mapped = TRUE)
  BY <1>1 DEF Good
<1>3. \A s \in SendInLoop(r) : s = r \/ s = b
  BY <1>1 DEF SendInLoop, ConnType
<1> HIDE DEF ch
<1>4. /\ b \in ConnType /\ b.ch = ch /\ b.state = r.state /\ b.ups = r.ups /\ b.downs = r.downs
  BY <1>1, <1>2 DEF ConnType
<1> HIDE DEF b
<1>5. ConnOK(b) /\ Lives(r, b)
  BY <1>1, <1>2, <1>4 DEF ConnOK, Lives
<1>6. Lives(r, r)
  BY LivesOn
<1> QED
  BY <1>3, <1>5, <1>6 DEF Send

LEMMA MessageOK ==
  ASSUME NEW r, ConnOK(r), r.state \notin Unborn, NEW s \in MessageCallback(r)
  PROVE  Lives(r, s)
<1>1. CASE s = r \/ s = Shutdown(r)
  BY <1>1, LivesOn, ShutdownOK
<1>2. CASE s \in Send(r)
  BY <1>2, SendOK
<1>3. CASE \E u \in Send(r) : s = Shutdown(u)
  <2> PICK u \in Send(r) : s = Shutdown(u)
    BY <1>3
  <2>1. Lives(r, u)
    BY SendOK
  <2>2. Lives(u, s)
    BY <2>1, ShutdownOK DEF Lives
  <2> QED
    BY <2>1, <2>2, LivesLonger
<1> QED
  BY <1>1, <1>2, <1>3 DEF MessageCallback

LEMMA HandleReadOK ==
  ASSUME NEW r, ConnOK(r), r.state \notin Unborn, NEW s \in HandleRead(r)
  PROVE  Lives(r, s)
<1>1. PICK u \in {r} \cup MessageCallback(r) : s = ReadToEnd(u)
  BY DEF HandleRead
<1>2. Lives(r, u)
  BY LivesOn, MessageOK
<1>3. ConnOK(u) /\ u.state \notin Unborn /\ u.soerr \in BOOLEAN
  BY <1>2 DEF Lives, ConnOK, ConnType
<1>4. s = u \/ s = HandleError(u) \/ s = HandleClose(u)
  BY <1>1, <1>3 DEF ReadToEnd
<1>5. Lives(u, s)
  BY <1>3, <1>4, LivesOn, HandleErrorOK, HandleCloseOK
<1> QED
  BY <1>2, <1>5, LivesLonger

LEMMA HandleWriteOK ==
  ASSUME NEW r, ConnOK(r), r.state \notin Unborn, NEW s \in HandleWrite(r)
  PROVE  Lives(r, s)
<1> DEFINE ch == DisableWriting(r.ch)
           q == [r EXCEPT !.out = FALSE, !.ch = ch]
<1>1. r \in ConnType /\ Good(ch) /\ ch.mapped = TRUE /\ ch \in ChannelType
  BY ChannelCalls DEF ConnOK, Good
<1>2. s = r \/ s = q \/ s = ShutdownInLoop(q)
  BY <1>1 DEF HandleWrite, ConnType
<1> HIDE DEF ch
<1>3. q \in ConnType /\ q.ch = ch /\ q.state = r.state /\ q.ups = r.ups /\ q.downs = r.downs
  BY <1>1 DEF ConnType
<1> HIDE DEF q
<1>4. ConnOK(q) /\ Lives(r, q)
  BY <1>1, <1>3 DEF ConnOK, Lives
<1>5. Lives(q, ShutdownInLoop(q))
  BY <1>3, <1>4, ShutdownOK
<1> QED
  BY <1>2, <1>4, <1>5, LivesOn, LivesLonger

\* shutdown()'s store on another thread.
LEMMA ForeignOK ==
  ASSUME NEW r, ConnOK(r), r.state \notin Unborn
  PROVE  Lives(r, [r EXCEPT !.state = "kDisconnecting"])
BY DEF ConnOK, Lives, ConnType, States, Unborn

\* The peer's closing.
LEMMA PeerOK ==
  ASSUME NEW r, ConnOK(r), NEW how \in {"fin", "rst"}
  PROVE  LET s == [r EXCEPT !.sock = how, !.soerr = (how = "rst")]
         IN  ConnOK(s) /\ s.state = r.state /\ s.downs = r.downs /\ s.ch = r.ch
<1> DEFINE e == how = "rst"
           q == [r EXCEPT !.sock = how, !.soerr = e]
<1>1. e \in BOOLEAN /\ r \in ConnType
  BY DEF ConnOK
<1> HIDE DEF e
<1>2. /\ q \in ConnType /\ q.ch = r.ch /\ q.state = r.state /\ q.ups = r.ups
      /\ q.downs = r.downs
  BY <1>1 DEF ConnType
<1> HIDE DEF q
<1>3. ConnOK(q)
  BY <1>2 DEF ConnOK
<1> QED
  BY <1>2, <1>3 DEF q, e

-----------------------------------------------------------------------------
(* The inductive invariant.                                                *)

\* The functors of a loop that have not run yet: batch b from position p on,
\* and queue q.
UnrunOf(b, p, q) == {b[i] : i \in (p + 1) .. Len(b)} \cup Elements(q)
Unrun(l) == UnrunOf(batch[l], pos[l], queue[l])

\* connectEstablished is the first functor that a connection ever has.
OrderedOf(b, q) ==
  /\ \A i, j \in 1 .. Len(b) : i < j /\ b[j].op = "established" => b[i].conn # b[j].conn
  /\ \A i, j \in 1 .. Len(q) : i < j /\ q[j].op = "established" => q[i].conn # q[j].conn
  /\ \A i \in 1 .. Len(b), j \in 1 .. Len(q) : q[j].op = "established" => b[i].conn # q[j].conn
Ordered(l) == OrderedOf(batch[l], queue[l])

Ending == server \in {"dtor", "down"}

\* What a functor says of its connection, from when it is queued until its
\* batch has ended.
TaskOK(l, t) ==
  /\ conn[t.conn].state # "none"
  /\ t.op = "remove" => l = Base /\ conn[t.conn].downs # 0
  /\ t.op \in {"established", "destroyed"} => ioLoop[t.conn] = l
  /\ t.op = "established" => l # Base
  /\ t.op = "destroyed" => conn[t.conn].downs # 0 \/ (l # Base /\ Ending)
  /\ t.op \in RawOps => conn[t.conn].state \notin Unborn /\ ForeignCalls # 0

LoopOK(l) ==
  /\ lpc[l] # "run" => batch[l] = <<>>
  /\ Ordered(l)
  /\ \A t \in TasksIn(l) : TaskOK(l, t)
  /\ \A c \in Conns : Task("established", c) \in Unrun(l) => conn[c].state = "kConnecting"

Condemned(c) == Task("destroyed", c) \in Unrun(ioLoop[c])
LoopDone(c) == lpc[ioLoop[c]] = "done"

\* A connection that has left the table is about to be destroyed by its loop;
\* one whose loop will tell the application or its poller nothing more has
\* been dealt with, or the server's end cuts it off.
LifeOK(c) ==
  /\ ConnOK(conn[c])
  /\ conn[c].state = "none" => c \notin connections_
  /\ conn[c].state = "kConnecting" =>
       /\ ioLoop[c] # Base
       /\ Task("established", c) \in Unrun(ioLoop[c]) \/ LoopDone(c)
  /\ conn[c].state # "none" /\ conn[c].downs = 0 /\ c \notin connections_ =>
       /\ Ending
       /\ Condemned(c) \/ conn[c].state = "kDisconnecting" \/ (ioLoop[c] # Base /\ LoopDone(c))
  /\ ForeignCalls = 0 /\ conn[c].ch.mapped = TRUE /\ c \notin connections_ =>
       Condemned(c) \/ LoopDone(c)
  /\ c \in held \/ calling[c] # "none" => conn[c].state \notin Unborn /\ ForeignCalls # 0

\* Raw Channel pointers: where a loop that is handling its active channels has
\* one, that channel is in its poller.
ActiveOK(l) ==
  \A c \in Conns : c \in DOMAIN active[l] \/ c \in handling[l].conns =>
    ioLoop[c] = l /\ lpc[l] = "handle" /\ conn[c].ch.mapped = TRUE

\* The types; LifeOK says what the members of conn are.
Types ==
  /\ conn = [c \in Conns |-> conn[c]]
  /\ ioLoop \in [Conns -> Loops]
  /\ connections_ \subseteq Conns
  /\ numThreads_ \in 0 .. MaxThreads
  /\ next_ \in Nat /\ (next_ = 0 \/ next_ < numThreads_)
  /\ server \in {"new", "up", "dtor", "down"}
  /\ quit \in [Loops -> BOOLEAN]
  /\ lpc \in [Loops -> {"poll", "handle", "run", "done"}]
  /\ DOMAIN active = Loops
  /\ \A l \in Loops : DOMAIN active[l] \subseteq Conns
  /\ handling \in [Loops -> [conns : SUBSET Conns, todo : SUBSET DOMAIN Earlier]]
  /\ queue \in [Loops -> Seq(Tasks)]
  /\ batch \in [Loops -> Seq(Tasks)]
  /\ pos \in [Loops -> Nat] /\ \A l \in Loops : pos[l] <= Len(batch[l])
  /\ held \subseteq Conns
  /\ calling \in [Conns -> RawOps \cup {"none"}]
  /\ calls \in 0 .. ForeignCalls

ServerInv ==
  /\ Ending => lpc[Base] = "done"
  /\ \A l \in Loops : LoopOK(l) /\ ActiveOK(l)
  /\ \A c \in Conns : LifeOK(c)

-----------------------------------------------------------------------------
(* Queues of functors.                                                     *)

LEMMA PushIs ==
  ASSUME NEW b \in Seq(Tasks), NEW p \in Nat, NEW q \in Seq(Tasks), NEW t \in Tasks
  PROVE  /\ UnrunOf(b, p, Append(q, t)) = UnrunOf(b, p, q) \cup {t}
         /\ Elements(Append(q, t)) = Elements(q) \cup {t}
         /\ (/\ OrderedOf(b, q)
             /\ t.op = "established" => \A u \in Elements(b) \cup Elements(q) : u.conn # t.conn)
              => OrderedOf(b, Append(q, t))
<1>1. Elements(Append(q, t)) = Elements(q) \cup {t}
  BY AppendSet
<1>2. UnrunOf(b, p, Append(q, t)) = UnrunOf(b, p, q) \cup {t}
  BY <1>1 DEF UnrunOf
<1>3. ASSUME OrderedOf(b, q),
             t.op = "established" => \A u \in Elements(b) \cup Elements(q) : u.conn # t.conn
      PROVE  OrderedOf(b, Append(q, t))
  <2> DEFINE a == Append(q, t)
             n == Len(q)
  <2>1. Len(a) = n + 1 /\ a[n + 1] = t /\ \A i \in 1 .. n : a[i] = q[i]
    BY AppendProperties
  <2>2. n \in Nat /\ DOMAIN q = 1 .. n /\ DOMAIN b = 1 .. Len(b)
    BY LenProperties
  <2>3. t.op = "established" =>
          (\A i \in 1 .. n : q[i].conn # t.conn) /\ (\A i \in 1 .. Len(b) : b[i].conn # t.conn)
    BY <1>3, <2>2 DEF Elements
  <2>4. /\ \A i, j \in 1 .. n : i < j /\ q[j].op = "established" => q[i].conn # q[j].conn
        /\ \A i \in 1 .. Len(b), j \in 1 .. n : q[j].op = "established" => b[i].conn # q[j].conn
    BY <1>3 DEF OrderedOf
  <2> HIDE DEF a, n
  <2>5. \A i, j \in 1 .. (n + 1) : i < j /\ a[j].op = "established" => a[i].conn # a[j].conn
    <3> SUFFICES ASSUME NEW i \in 1 .. (n + 1), NEW j \in 1 .. (n + 1), i < j,
                        a[j].op = "established"
                 PROVE  a[i].conn # a[j].conn
      OBVIOUS
    <3>1. i \in 1 .. n
      BY <2>2
    <3>2. CASE j = n + 1
      BY <2>1, <2>3, <3>1, <3>2
    <3>3. CASE j \in 1 .. n
      BY <2>1, <2>4, <3>1, <3>3
    <3> QED
      BY <2>2, <3>2, <3>3
  <2>6. \A i \in 1 .. Len(b), j \in 1 .. (n + 1) : a[j].op = "established" => b[i].conn # a[j].conn
    <3> SUFFICES ASSUME NEW i \in 1 .. Len(b), NEW j \in 1 .. (n + 1), a[j].op = "established"
                 PROVE  b[i].conn # a[j].conn
      OBVIOUS
    <3>1. CASE j = n + 1
      BY <2>1, <2>3, <3>1
    <3>2. CASE j \in 1 .. n
      BY <2>1, <2>4, <3>2
    <3> QED
      BY <2>2, <3>1, <3>2
  <2> QED
    BY <1>3, <2>1, <2>5, <2>6 DEF OrderedOf, a
<1> QED
  BY <1>1, <1>2, <1>3

LEMMA RunIs ==
  ASSUME NEW b \in Seq(Tasks), NEW p \in Nat, NEW q \in Seq(Tasks), p < Len(b)
  PROVE  /\ UnrunOf(b, p, q) = UnrunOf(b, p + 1, q) \cup {b[p + 1]}
         /\ b[p + 1] \in Elements(b)
         /\ OrderedOf(b, q) =>
              \A u \in UnrunOf(b, p + 1, q) : u.op = "established" => u.conn # b[p + 1].conn
<1> DEFINE n == Len(b)
<1>1. n \in Nat /\ DOMAIN b = 1 .. n /\ DOMAIN q = 1 .. Len(q)
  BY LenProperties
<1> HIDE DEF n
<1>2. p + 1 \in 1 .. n /\ (p + 1) .. n = ((p + 1) + 1) .. n \cup {p + 1}
  BY <1>1 DEF n
<1>3. {b[i] : i \in (p + 1) .. n} = {b[i] : i \in ((p + 1) + 1) .. n} \cup {b[p + 1]}
  BY <1>2
<1>4. UnrunOf(b, p, q) = UnrunOf(b, p + 1, q) \cup {b[p + 1]}
  BY <1>3 DEF UnrunOf, n
<1>5. b[p + 1] \in Elements(b)
  BY <1>1, <1>2 DEF Elements
<1>6. ASSUME OrderedOf(b, q), NEW u \in UnrunOf(b, p + 1, q), u.op = "established"
      PROVE  u.conn # b[p + 1].conn
  <2>1. CASE u \in Elements(q)
    BY <1>1, <1>2, <1>6, <2>1 DEF Elements, OrderedOf, n
  <2>2. CASE \E i \in ((p + 1) + 1) .. n : u = b[i]
    <3> PICK i \in ((p + 1) + 1) .. n : u = b[i]
      BY <2>2
    <3>1. i \in 1 .. n /\ p + 1 < i
      BY <1>1
    <3> QED
      BY <1>2, <1>6, <3>1 DEF OrderedOf, n
  <2> QED
    BY <1>6, <2>1, <2>2 DEF UnrunOf, n
<1> QED
  BY <1>4, <1>5, <1>6

\* doPendingFunctors takes the queue, and drops its batch at the end.
LEMMA SwapIs ==
  ASSUME NEW b \in Seq(Tasks), NEW q \in Seq(Tasks), NEW p \in Nat
  PROVE  /\ Elements(<<>>) = {}
         /\ UnrunOf(q, 0, <<>>) = Elements(q)
         /\ UnrunOf(<<>>, p, q) = Elements(q)
         /\ UnrunOf(b, Len(b), q) = Elements(q)
         /\ OrderedOf(b, q) => OrderedOf(q, <<>>) /\ OrderedOf(<<>>, q)
         /\ OrderedOf(<<>>, <<>>)
<1>1. /\ DOMAIN b = 1 .. Len(b) /\ DOMAIN q = 1 .. Len(q)
      /\ Len(b) \in Nat /\ Len(q) \in Nat
  BY LenProperties
<1>2. Elements(<<>>) = {} /\ Len(<<>>) = 0
  BY DEF Elements
<1>3. (p + 1) .. 0 = {} /\ (Len(b) + 1) .. Len(b) = {} /\ 1 .. 0 = {} /\ 0 + 1 = 1
  BY <1>1
<1>4. UnrunOf(q, 0, <<>>) = Elements(q)
  BY <1>1, <1>2, <1>3 DEF UnrunOf, Elements
<1>5. UnrunOf(<<>>, p, q) = Elements(q)
  BY <1>2, <1>3 DEF UnrunOf
<1>6. UnrunOf(b, Len(b), q) = Elements(q)
  BY <1>3 DEF UnrunOf
<1>7. OrderedOf(b, q) => OrderedOf(q, <<>>) /\ OrderedOf(<<>>, q)
  BY <1>2, <1>3 DEF OrderedOf
<1>8. OrderedOf(<<>>, <<>>)
  BY <1>2, <1>3 DEF OrderedOf
<1> QED
  BY <1>2, <1>4, <1>5, <1>6, <1>7, <1>8

-----------------------------------------------------------------------------
(* What keeps the parts of the invariant.                                  *)

\* What no step undoes.
Ages(r, s) ==
  /\ ConnOK(s)
  /\ r.state # "none" => s.state # "none"
  /\ r.state \notin Unborn => s.state \notin Unborn
  /\ r.downs # 0 => s.downs # 0

\* What a step does to a connection that it neither establishes nor destroys.
Follows(r, s) ==
  /\ Ages(r, s)
  /\ s.state = "none" <=> r.state = "none"
  /\ s.state = "kConnecting" <=> r.state = "kConnecting"
  /\ r.state = "kDisconnecting" /\ s.downs = 0 => s.state = "kDisconnecting"
  /\ s.ch.mapped = TRUE => r.ch.mapped = TRUE \/ ForeignCalls # 0
  /\ r.ch.mapped = TRUE => s.ch.mapped = TRUE

LEMMA SameFollows == ASSUME NEW r, ConnOK(r) PROVE Follows(r, r)
BY DEF Follows, Ages

LEMMA LivesFollows ==
  ASSUME NEW r, NEW s, r.state \notin Unborn, Lives(r, s),
         s.ch.mapped = TRUE => r.ch.mapped = TRUE \/ ForeignCalls # 0
  PROVE  Follows(r, s)
BY DEF Follows, Ages, Lives, Unborn

LEMMA TasksInIs ==
  ASSUME Types, NEW l \in Loops
  PROVE  /\ TasksIn(l) = Elements(batch[l]) \cup Elements(queue[l])
         /\ \A t \in TasksIn(l) : t \in Tasks /\ t.conn \in Conns
         /\ Unrun(l) \subseteq TasksIn(l)
<1>1. TasksIn(l) = Elements(batch[l]) \cup Elements(queue[l])
  BY DEF TasksIn, Elements
<1>2. batch[l] \in Seq(Tasks) /\ queue[l] \in Seq(Tasks) /\ pos[l] \in Nat
  BY DEF Types
<1>3. Elements(batch[l]) \subseteq Tasks /\ Elements(queue[l]) \subseteq Tasks
  BY <1>2, ElementsType
<1>4. {batch[l][i] : i \in (pos[l] + 1) .. Len(batch[l])} \subseteq Elements(batch[l])
  <2> DEFINE b == batch[l]
             n == Len(batch[l])
             p == pos[l]
  <2>1. DOMAIN b = 1 .. n /\ n \in Nat /\ p \in Nat
    BY <1>2, LenProperties
  <2> HIDE DEF b, n, p
  <2>2. \A i \in (p + 1) .. n : i \in 1 .. n
    BY <2>1
  <2>3. {b[i] : i \in (p + 1) .. n} \subseteq Elements(b)
    BY <2>1, <2>2 DEF Elements
  <2> QED
    BY <2>3 DEF b, n, p
<1>5. Unrun(l) \subseteq TasksIn(l)
  BY <1>1, <1>4 DEF Unrun, UnrunOf
<1> QED
  BY <1>1, <1>3, <1>5 DEF Tasks

LEMMA LifeKeeps ==
  ASSUME NEW c \in Conns, LifeOK(c), Follows(conn[c], conn'[c]), ioLoop'[c] = ioLoop[c],
         Ending => Ending',
         c \in connections_' => c \in connections_,
         c \in connections_ /\ c \notin connections_'
           => Condemned(c)' /\ (conn'[c].downs # 0 \/ Ending'),
         Task("established", c) \in Unrun(ioLoop[c])
           => Task("established", c) \in Unrun(ioLoop[c])' \/ LoopDone(c)',
         Condemned(c)
           => Condemned(c)' \/ (LoopDone(c)' /\ (ioLoop[c] # Base \/ conn[c].downs # 0)),
         LoopDone(c) => LoopDone(c)',
         c \in held' \/ calling'[c] # "none"
           => \/ c \in held \/ calling[c] # "none"
              \/ conn[c].state \notin Unborn /\ ForeignCalls # 0
  PROVE  LifeOK(c)'
BY DEF LifeOK, Follows, Ages

LEMMA LoopKeeps ==
  ASSUME Types, NEW l \in Loops, LoopOK(l), Ordered(l)',
         \A c \in Conns : Ages(conn[c], conn'[c]),
         \A c \in Conns : conn[c].state # "none" => ioLoop'[c] = ioLoop[c],
         Ending => Ending',
         \A t \in TasksIn(l)' : t \in TasksIn(l) \/ TaskOK(l, t)',
         lpc'[l] # "run" => batch'[l] = <<>>,
         \A c \in Conns : Task("established", c) \in Unrun(l)' => conn'[c].state = "kConnecting"
  PROVE  LoopOK(l)'
<1>1. ASSUME NEW t \in TasksIn(l) PROVE TaskOK(l, t)'
  <2>1. TaskOK(l, t) /\ t.conn \in Conns
    BY TasksInIs DEF LoopOK
  <2>2. Ages(conn[t.conn], conn'[t.conn])
    BY <2>1
  <2>3. ioLoop'[t.conn] = ioLoop[t.conn]
    BY <2>1 DEF TaskOK
  <2> QED
    BY <2>1, <2>2, <2>3 DEF TaskOK, Ages
<1> QED
  BY <1>1 DEF LoopOK

\* A step that leaves the functors, the connections and the table alone.
LEMMA QuietKeeps ==
  ASSUME Types, ServerInv, UNCHANGED <<conn, ioLoop, connections_, queue, batch, pos>>,
         Ending => Ending',
         \A l \in Loops : lpc[l] = "done" => lpc'[l] = "done",
         \A l \in Loops : lpc'[l] # "run" => lpc[l] # "run",
         \A c \in Conns : c \in held' \/ calling'[c] # "none"
           => \/ c \in held \/ calling[c] # "none"
              \/ conn[c].state \notin Unborn /\ ForeignCalls # 0
  PROVE  (\A l \in Loops : LoopOK(l)') /\ (\A c \in Conns : LifeOK(c)')
<1>1. \A l : TasksIn(l)' = TasksIn(l) /\ Unrun(l)' = Unrun(l) /\ (Ordered(l)' <=> Ordered(l))
  BY DEF TasksIn, Unrun, UnrunOf, Ordered, OrderedOf
<1>2. \A c \in Conns : Follows(conn[c], conn'[c])
  BY SameFollows DEF ServerInv, LifeOK
<1>3. ASSUME NEW l \in Loops PROVE LoopOK(l)'
  <2>1. LoopOK(l)
    BY DEF ServerInv
  <2> QED
    BY <1>1, <1>2, <2>1, LoopKeeps DEF LoopOK, Follows
<1>4. ASSUME NEW c \in Conns PROVE LifeOK(c)'
  <2>1. LifeOK(c) /\ ioLoop[c] \in Loops
    BY DEF ServerInv, Types
  <2>2. Condemned(c)' <=> Condemned(c)
    BY <1>1 DEF Condemned
  <2>3. LoopDone(c) => LoopDone(c)'
    BY <2>1 DEF LoopDone
  <2>4. Unrun(ioLoop[c])' = Unrun(ioLoop[c])
    BY DEF Unrun
  <2> QED
    BY <1>2, <2>1, <2>2, <2>3, <2>4, LifeKeeps
<1> QED
  BY <1>3, <1>4

-----------------------------------------------------------------------------
(* Types.                                                                  *)

LEMMA NextLoopIsALoop == ASSUME Types PROVE NextLoop \in Loops
BY MaxThreadsAssumption DEF Types, NextLoop, Loops, Base

LEMMA TaskType ==
  ASSUME NEW op \in RawOps \cup {"established", "destroyed", "remove"}, NEW c \in Conns
  PROVE  Task(op, c) \in Tasks /\ Task(op, c).op = op /\ Task(op, c).conn = c
BY DEF Task, Tasks

LEMMA PushType ==
  ASSUME Types, NEW l \in Loops, NEW c \in Conns,
         NEW op \in RawOps \cup {"established", "destroyed", "remove"}
  PROVE  Push(l, op, c) \in [Loops -> Seq(Tasks)]
<1>1. Task(op, c) \in Tasks
  BY TaskType
<1>2. queue[l] \in Seq(Tasks)
  BY DEF Types
<1>3. Append(queue[l], Task(op, c)) \in Seq(Tasks)
  BY <1>1, <1>2
<1> QED
  BY <1>3 DEF Push, Types

LEMMA InitTypes == Init => Types
<1> SUFFICES ASSUME Init PROVE Types
  OBVIOUS
<1>1. <<>> \in Seq(Tasks) /\ Len(<<>>) = 0
  OBVIOUS
<1>2. DOMAIN <<>> = {}
  OBVIOUS
<1>3. Base \in Loops
  BY DEF Loops
<1> QED
  BY <1>1, <1>2, <1>3, ForeignCallsAssumption, MaxThreadsAssumption DEF Init, Types, Nobody

LEMMA InitInv == Init => ServerInv
<1> SUFFICES ASSUME Init PROVE ServerInv
  OBVIOUS
<1>1. Types
  BY InitTypes
<1>2. \A l \in Loops : batch[l] = <<>> /\ queue[l] = <<>> /\ pos[l] = 0
  BY DEF Init
<1>3. ASSUME NEW l \in Loops PROVE LoopOK(l)
  <2>1. <<>> \in Seq(Tasks) /\ 0 \in Nat
    OBVIOUS
  <2>2. TasksIn(l) = {} /\ Ordered(l)
    BY <1>1, <1>2, <1>3, <2>1, TasksInIs, SwapIs DEF Ordered
  <2>3. Unrun(l) = {}
    BY <1>1, <1>3, <2>2, TasksInIs
  <2> QED
    BY <1>2, <1>3, <2>2, <2>3 DEF LoopOK
<1>4. \A l \in Loops : ActiveOK(l)
  BY DEF Init, ActiveOK, Nobody
<1>5. ASSUME NEW c \in Conns PROVE LifeOK(c)
  <2>1. conn[c] = NoConn /\ c \notin connections_ /\ c \notin held /\ calling[c] = "none"
    BY DEF Init
  <2>2. ConnOK(conn[c]) /\ conn[c].state = "none" /\ conn[c].ch.mapped = FALSE
    BY <2>1, NoConnOK DEF NoConn, NewChannel
  <2> QED
    BY <2>1, <2>2 DEF LifeOK
<1>6. ~Ending
  BY DEF Init, Ending
<1> QED
  BY <1>3, <1>4, <1>5, <1>6 DEF ServerInv

LEMMA StepTypes == Types /\ [Next]_vars => Types'
<1> SUFFICES ASSUME Types, [Next]_vars PROVE Types'
  OBVIOUS
<1> USE DEF connVars, loopVars, foreignVars
<1>0. Base \in Loops /\ RawOps \subseteq RawOps \cup {"established", "destroyed", "remove"}
  BY DEF Loops
<1>1. CASE UNCHANGED vars
  BY <1>1 DEF vars, Types
<1>2. ASSUME NEW l \in Loops, LoopStep(l) PROVE Types'
  <2>1. CASE Poll(l)
    <3>1. PICK who \in {MustReport(l) \cup s : s \in SUBSET Polled(l)} :
            \E revents \in [who -> SUBSET {"IN", "OUT", "HUP", "ERR"}] :
              active' = [active EXCEPT ![l] = revents]
      BY <2>1 DEF Poll
    <3>2. who \subseteq Conns
      BY DEF MustReport, Polled
    <3>3. DOMAIN active' = Loops /\ \A k \in Loops : DOMAIN active'[k] \subseteq Conns
      BY <3>1, <3>2 DEF Types
    <3> QED
      BY <1>2, <2>1, <3>3 DEF Poll, Types
  <2>2. ASSUME NEW c \in Conns, HandleEvent(l, c) PROVE Types'
    <3>1. Phases(active[l][c]) \subseteq DOMAIN Earlier
      BY DEF Phases, Earlier
    <3>2. handling' \in [Loops -> [conns : SUBSET Conns, todo : SUBSET DOMAIN Earlier]]
      BY <2>2, <3>1 DEF HandleEvent, Types
    <3> QED
      BY <1>2, <2>2, <3>2 DEF HandleEvent, Types
  <2>3. ASSUME NEW c \in Conns, NEW phase, TakePhase(l, c, phase)
        PROVE  handling' \in [Loops -> [conns : SUBSET Conns, todo : SUBSET DOMAIN Earlier]]
    <3>1. /\ handling \in [Loops -> [conns : SUBSET Conns, todo : SUBSET DOMAIN Earlier]]
          /\ handling' = [handling EXCEPT ![l].todo = @ \ {phase}]
      BY <2>3 DEF TakePhase, Types
    <3> QED
      BY <3>1
  <2>4. ASSUME NEW c \in Conns, RemoveConnection(l, c)
        PROVE  connections_' \subseteq Conns /\ queue' \in [Loops -> Seq(Tasks)]
    <3>1. connections_ \subseteq Conns /\ ioLoop[c] \in Loops
      BY DEF Types
    <3>2. /\ Push(ioLoop[c], "destroyed", c) \in [Loops -> Seq(Tasks)]
          /\ Push(Base, "remove", c) \in [Loops -> Seq(Tasks)]
      BY <1>0, <3>1, PushType
    <3> QED
      BY <2>4, <3>1, <3>2 DEF RemoveConnection, RemoveConnectionInLoop
  <2>5. ASSUME NEW c \in Conns, HandleClosePhase(l, c) \/ HandleErrorPhase(l, c) PROVE Types'
    BY <2>3, <2>4, <2>5 DEF HandleClosePhase, HandleErrorPhase, TakePhase, Types
  <2>6. ASSUME NEW c \in Conns, HandleReadPhase(l, c) \/ HandleWritePhase(l, c) PROVE Types'
    <3>1. connections_' \subseteq Conns /\ queue' \in [Loops -> Seq(Tasks)]
      BY <2>4, <2>6 DEF HandleReadPhase, HandleWritePhase, Types
    <3> QED
      BY <2>3, <2>6, <3>1 DEF HandleReadPhase, HandleWritePhase, TakePhase, Types
  <2>7. ASSUME NEW c \in Conns, NEW op, Running(l, op, c)
        PROVE  pos' \in [Loops -> Nat] /\ \A k \in Loops : pos'[k] <= Len(batch[k])
    <3>1. Len(batch[l]) \in Nat
      BY LenProperties DEF Types
    <3> QED
      BY <2>7, <3>1 DEF Running, Types
  <2>8. ASSUME NEW c \in Conns, RunEstablished(l, c) PROVE Types'
    BY <2>7, <2>8 DEF RunEstablished, Running, Share, Types
  <2>9. ASSUME NEW c \in Conns, RunRemove(l, c) PROVE Types'
    <3>1. queue' \in [Loops -> Seq(Tasks)]
      BY <2>9, PushType DEF RunRemove, RemoveConnectionInLoop, Types
    <3> QED
      BY <2>7, <2>9, <3>1 DEF RunRemove, Running, RemoveConnectionInLoop, Types
  <2>10. ASSUME NEW c \in Conns, RunDestroyed(l, c) PROVE Types'
    BY <2>7, <2>10 DEF RunDestroyed, Running, Types
  <2>11. ASSUME NEW c \in Conns, RunRaw(l, c) PROVE Types'
    <3>1. conn' = [d \in Conns |-> conn'[d]]
      BY <2>11 DEF RunRaw, Types
    <3> QED
      BY <2>7, <2>11, <3>1 DEF RunRaw, Running, Types
  <2>12. CASE HandleEventReturns(l)
    <3>1. handling' \in [Loops -> [conns : SUBSET Conns, todo : SUBSET DOMAIN Earlier]]
      BY <2>12 DEF HandleEventReturns, Nobody, Types
    <3> QED
      BY <2>12, <3>1 DEF HandleEventReturns, Types
  <2>13. CASE SwapFunctors(l)
    <3>1. Len(queue[l]) \in Nat /\ <<>> \in Seq(Tasks)
      BY LenProperties DEF Types
    <3> QED
      BY <2>13, <3>1 DEF SwapFunctors, Types
  <2>14. CASE EndBatch(l)
    <3>1. Len(<<>>) = 0 /\ <<>> \in Seq(Tasks)
      OBVIOUS
    <3> QED
      BY <2>14, <3>1 DEF EndBatch, Types
  <2> QED
    BY <1>2, <2>1, <2>2, <2>5, <2>6, <2>8, <2>9, <2>10, <2>11, <2>12, <2>13, <2>14 DEF LoopStep
<1>3. CASE Start \/ QuitBase
  BY <1>3 DEF Start, QuitBase, Types
<1>4. CASE Teardown
  <2>1. CASE DestroyServer \/ \E l \in Loops : QuitLoop(l)
    BY <2>1 DEF DestroyServer, QuitLoop, Types
  <2>2. CASE ServerDown
    <3>1. <<>> \in Seq(Tasks)
      OBVIOUS
    <3> QED
      BY <2>2, <3>1 DEF ServerDown, Types
  <2>3. ASSUME NEW c \in Conns, DestroyConnection(c) PROVE Types'
    <3>1. queue' \in [Loops -> Seq(Tasks)]
      BY <2>3, PushType DEF DestroyConnection, Types
    <3> QED
      BY <2>3, <3>1 DEF DestroyConnection, Types
  <2> QED
    BY <1>4, <2>1, <2>2, <2>3 DEF Teardown
<1>5. ASSUME NEW c \in Conns, Accept(c) PROVE Types'
  <2>1. queue' \in [Loops -> Seq(Tasks)]
    BY <1>5, PushType, NextLoopIsALoop DEF Accept, NewConnection, Types
  <2>2. ioLoop' \in [Conns -> Loops]
    BY <1>5, NextLoopIsALoop DEF Accept, NewConnection, Types
  <2>3. next_' \in Nat /\ (next_' = 0 \/ next_' < numThreads_)
    BY <1>5, MaxThreadsAssumption DEF Accept, NewConnection, AdvanceNext, Types
  <2> QED
    BY <1>5, <2>1, <2>2, <2>3 DEF Accept, NewConnection, Share, Types
<1>6. ASSUME NEW c \in Conns, Foreign(c) PROVE Types'
  <2>1. CASE \E op \in RawOps : ForeignTest(c, op)
    BY <2>1, ForeignCallsAssumption DEF ForeignTest, Types
  <2>2. CASE ForeignCall(c)
    <3>1. queue' \in [Loops -> Seq(Tasks)]
      BY <1>0, <2>2, PushType DEF ForeignCall, Types
    <3> QED
      BY <2>2, <3>1 DEF ForeignCall, Types
  <2>3. CASE ForeignRelease(c)
    BY <2>3 DEF ForeignRelease, Types
  <2> QED
    BY <1>6, <2>1, <2>2, <2>3 DEF Foreign
<1>7. ASSUME NEW c \in Conns, NEW how, PeerCloses(c, how) PROVE Types'
  BY <1>7 DEF PeerCloses, Types
<1> QED
  BY <1>1, <1>2, <1>3, <1>4, <1>5, <1>6, <1>7 DEF Next

-----------------------------------------------------------------------------
(* The steps that handle events.                                           *)

\* A step that neither establishes nor destroys a connection.  It may queue
\* functors, run other ones, and take connections out of the table.
LEMMA FollowKeeps ==
  ASSUME Types, ServerInv, UNCHANGED <<ioLoop, batch, lpc, held>>,
         Ending => Ending',
         \A c \in Conns : calling'[c] # "none" => calling[c] # "none",
         \A c \in Conns : Follows(conn[c], conn'[c]),
         \A l \in Loops : Ordered(l)',
         \A l \in Loops : \A t \in Unrun(l) :
           t \in Unrun(l)' \/ t.op \notin {"established", "destroyed"},
         \A l \in Loops : \A t \in TasksIn(l)' : t \in TasksIn(l) \/ TaskOK(l, t)',
         \A l \in Loops, c \in Conns :
           Task("established", c) \in Unrun(l)' => Task("established", c) \in Unrun(l),
         \A c \in Conns : c \in connections_' => c \in connections_,
         \A c \in Conns : c \in connections_ /\ c \notin connections_'
           => Condemned(c)' /\ (conn'[c].downs # 0 \/ Ending')
  PROVE  (\A l \in Loops : LoopOK(l)') /\ (\A c \in Conns : LifeOK(c)')
<1>1. ASSUME NEW l \in Loops PROVE LoopOK(l)'
  <2>1. LoopOK(l)
    BY DEF ServerInv
  <2>2. \A c \in Conns : Ages(conn[c], conn'[c])
    BY DEF Follows
  <2>3. \A c \in Conns : Task("established", c) \in Unrun(l)' => conn'[c].state = "kConnecting"
    BY <2>1 DEF LoopOK, Follows
  <2> QED
    BY <2>1, <2>2, <2>3, LoopKeeps DEF LoopOK
<1>2. ASSUME NEW c \in Conns PROVE LifeOK(c)'
  <2>1. LifeOK(c) /\ ioLoop[c] \in Loops /\ ioLoop'[c] = ioLoop[c]
    BY DEF ServerInv, Types
  <2>2. LoopDone(c)' <=> LoopDone(c)
    BY <2>1 DEF LoopDone
  <2>3. \A op \in {"established", "destroyed"} :
          Task(op, c) \in Unrun(ioLoop[c]) => Task(op, c) \in Unrun(ioLoop[c])'
    BY <2>1 DEF Task
  <2>4. Condemned(c) => Condemned(c)'
    BY <2>1, <2>3 DEF Condemned, Unrun
  <2> QED
    BY <2>1, <2>2, <2>3, <2>4, LifeKeeps
<1> QED
  BY <1>1, <1>2

\* Queueing one functor.
LEMMA PushStep ==
  ASSUME Types, NEW l \in Loops, NEW c \in Conns,
         NEW op \in RawOps \cup {"established", "destroyed", "remove"},
         queue' = Push(l, op, c), UNCHANGED <<batch, pos>>,
         NEW k \in Loops
  PROVE  /\ k # l => Unrun(k)' = Unrun(k) /\ TasksIn(k)' = TasksIn(k)
         /\ k = l => /\ Unrun(k)' = Unrun(k) \cup {Task(op, c)}
                     /\ TasksIn(k)' = TasksIn(k) \cup {Task(op, c)}
         /\ (Ordered(k) /\ (op = "established" => \A t \in TasksIn(l) : t.conn # c)) => Ordered(k)'
<1> DEFINE t == Task(op, c)
<1>1. t \in Tasks /\ t.op = op /\ t.conn = c
  BY TaskType
<1> HIDE DEF t
<1>2. batch[k] \in Seq(Tasks) /\ queue[k] \in Seq(Tasks) /\ pos[k] \in Nat
  BY DEF Types
<1>3. TasksIn(k) = Elements(batch[k]) \cup Elements(queue[k])
  BY TasksInIs
<1>4. TasksIn(k)' = Elements(batch[k]) \cup Elements(queue'[k])
  BY DEF TasksIn, Elements
<1>5. Unrun(k)' = UnrunOf(batch[k], pos[k], queue'[k]) /\ (Ordered(k)' <=> OrderedOf(batch[k], queue'[k]))
  BY DEF Unrun, Ordered
<1>6. CASE k # l
  <2>1. queue'[k] = queue[k]
    BY <1>6 DEF Push, Types
  <2> QED
    BY <1>3, <1>4, <1>5, <1>6, <2>1 DEF Unrun, Ordered
<1>7. CASE k = l
  <2>1. queue'[k] = Append(queue[k], t)
    BY <1>7 DEF Push, Types, t
  <2>2. /\ UnrunOf(batch[k], pos[k], Append(queue[k], t)) = UnrunOf(batch[k], pos[k], queue[k]) \cup {t}
        /\ Elements(Append(queue[k], t)) = Elements(queue[k]) \cup {t}
        /\ (/\ OrderedOf(batch[k], queue[k])
            /\ t.op = "established" =>
                 \A u \in Elements(batch[k]) \cup Elements(queue[k]) : u.conn # t.conn)
             => OrderedOf(batch[k], Append(queue[k], t))
    BY <1>1, <1>2, PushIs
  <2>3. Unrun(k)' = Unrun(k) \cup {t} /\ TasksIn(k)' = TasksIn(k) \cup {t}
    BY <1>3, <1>4, <1>5, <2>1, <2>2 DEF Unrun
  <2>4. (Ordered(k) /\ (op = "established" => \A u \in TasksIn(l) : u.conn # c)) => Ordered(k)'
    BY <1>1, <1>3, <1>5, <1>7, <2>1, <2>2 DEF Ordered
  <2> QED
    BY <1>7, <2>3, <2>4 DEF t
<1> QED
  BY <1>6, <1>7

\* Queueing none.
LEMMA NoPushStep ==
  ASSUME UNCHANGED <<queue, batch, pos>>, NEW k \in Loops
  PROVE  Unrun(k)' = Unrun(k) /\ TasksIn(k)' = TasksIn(k) /\ (Ordered(k)' <=> Ordered(k))
BY DEF TasksIn, Unrun, UnrunOf, Ordered, OrderedOf

LEMMA OneFollows ==
  ASSUME Types, ServerInv, NEW c \in Conns, NEW r, conn' = [conn EXCEPT ![c] = r],
         Follows(conn[c], r)
  PROVE  \A d \in Conns : Follows(conn[d], conn'[d])
<1>1. \A d \in Conns : ConnOK(conn[d])
  BY DEF ServerInv, LifeOK
<1>2. \A d \in Conns : conn'[d] = IF d = c THEN r ELSE conn[d]
  BY DEF Types
<1> QED
  BY <1>1, <1>2, SameFollows

LEMMA PhaseKeeps ==
  ASSUME Types, ServerInv, NEW l \in Loops, NEW c \in Conns, NEW phase, TakePhase(l, c, phase),
         NEW r, conn' = [conn EXCEPT ![c] = r],
         conn[c].state \notin Unborn => Lives(conn[c], r),
         \/ RemoveConnection(l, c) /\ r.state = "kDisconnected"
         \/ UNCHANGED <<connections_, queue>>
  PROVE  ServerInv'
<1>1. c \in handling[l].conns /\ ioLoop[c] = l /\ lpc[l] = "handle" /\ conn[c].ch.mapped = TRUE
  BY DEF TakePhase, ServerInv, ActiveOK
<1>2. ConnOK(conn[c]) /\ conn[c].state \notin Unborn
  BY <1>1 DEF ServerInv, LifeOK, ConnOK
<1>3. Lives(conn[c], r) /\ Follows(conn[c], r)
  BY <1>1, <1>2, LivesFollows
<1>4. \A d \in Conns : Follows(conn[d], conn'[d])
  BY <1>3, OneFollows
<1>5. conn'[c] = r
  BY DEF Types
<1>6. r.state # "none" /\ (r.state = "kDisconnected" => r.downs # 0)
  BY <1>3 DEF Lives, ConnOK, Unborn
<1>7. /\ UNCHANGED <<ioLoop, batch, pos, lpc, held, calling, server, active, quit>>
      /\ \A k \in Loops : handling'[k].conns = handling[k].conns
  BY DEF TakePhase, foreignVars, Types
<1>8. \A k \in Loops : LoopOK(k) /\ Ordered(k)
  BY DEF ServerInv, LoopOK
<1>9. (\A k \in Loops : LoopOK(k)') /\ (\A d \in Conns : LifeOK(d)')
  <2>1. CASE UNCHANGED <<connections_, queue>>
    <3>1. \A k \in Loops : Unrun(k)' = Unrun(k) /\ TasksIn(k)' = TasksIn(k) /\ Ordered(k)'
      BY <1>7, <1>8, <2>1, NoPushStep
    <3> QED
      BY <1>4, <1>7, <2>1, <3>1, FollowKeeps DEF Ending
  <2>2. CASE RemoveConnectionInLoop(c) /\ r.state = "kDisconnected"
    <3> DEFINE t == Task("destroyed", c)
    <3>1. t.op = "destroyed" /\ t.conn = c /\ \A d \in Conns : Task("established", d) # t
      BY TaskType DEF Task
    <3>2. TaskOK(l, t)'
      BY <1>1, <1>5, <1>6, <1>7, <2>2, <3>1 DEF TaskOK, RawOps
    <3>3. ASSUME NEW k \in Loops
          PROVE  /\ k # l => Unrun(k)' = Unrun(k) /\ TasksIn(k)' = TasksIn(k)
                 /\ k = l => Unrun(k)' = Unrun(k) \cup {t} /\ TasksIn(k)' = TasksIn(k) \cup {t}
                 /\ Ordered(k)'
      BY <1>1, <1>7, <1>8, <2>2, PushStep DEF RemoveConnectionInLoop
    <3> HIDE DEF t
    <3>4. Condemned(c)'
      BY <1>1, <1>7, <3>3 DEF Condemned, t
    <3>5. connections_' = connections_ \ {c}
      BY <2>2 DEF RemoveConnectionInLoop
    <3> QED
      BY <1>4, <1>5, <1>6, <1>7, <2>2, <3>1, <3>2, <3>3, <3>4, <3>5, FollowKeeps DEF Ending
  <2>3. CASE queue' = Push(Base, "remove", c) /\ UNCHANGED connections_ /\ r.state = "kDisconnected"
    <3> DEFINE t == Task("remove", c)
    <3>1. t.op = "remove" /\ t.conn = c /\ \A d \in Conns : Task("established", d) # t
      BY TaskType DEF Task
    <3>2. TaskOK(Base, t)'
      BY <1>1, <1>5, <1>6, <2>3, <3>1 DEF TaskOK, RawOps
    <3>3. ASSUME NEW k \in Loops
          PROVE  /\ k # Base => Unrun(k)' = Unrun(k) /\ TasksIn(k)' = TasksIn(k)
                 /\ k = Base => Unrun(k)' = Unrun(k) \cup {t} /\ TasksIn(k)' = TasksIn(k) \cup {t}
                 /\ Ordered(k)'
      <4>1. Base \in Loops
        BY DEF Loops
      <4> QED
        BY <1>7, <1>8, <2>3, <4>1, PushStep
    <3> HIDE DEF t
    <3> QED
      BY <1>4, <1>7, <2>3, <3>1, <3>2, <3>3, FollowKeeps DEF Ending
  <2> QED
    BY <2>1, <2>2, <2>3 DEF RemoveConnection
<1>10. ASSUME NEW k \in Loops PROVE ActiveOK(k)'
  BY <1>4, <1>7 DEF ActiveOK, Follows, ServerInv
<1>11. Ending' => lpc'[Base] = "done"
  BY <1>7 DEF Ending, ServerInv
<1> QED
  BY <1>9, <1>10, <1>11 DEF ServerInv

LEMMA PhasesKeep ==
  ASSUME Types, ServerInv, NEW l \in Loops, NEW c \in Conns,
         \/ HandleClosePhase(l, c) \/ HandleErrorPhase(l, c)
         \/ HandleReadPhase(l, c) \/ HandleWritePhase(l, c)
  PROVE  ServerInv'
<1>0. ConnOK(conn[c])
  BY DEF ServerInv, LifeOK
<1>1. CASE HandleClosePhase(l, c)
  <2>1. conn' = [conn EXCEPT ![c] = HandleClose(conn[c])] /\ TakePhase(l, c, "close") /\ RemoveConnection(l, c)
    BY <1>1 DEF HandleClosePhase
  <2>2. conn[c].state \notin Unborn =>
          Lives(conn[c], HandleClose(conn[c])) /\ HandleClose(conn[c]).state = "kDisconnected"
    BY <1>0, HandleCloseOK
  <2>3. CASE conn[c].state \notin Unborn
    BY <2>1, <2>2, <2>3, PhaseKeeps
  <2>4. conn[c].state \notin Unborn
    BY <1>0, <2>1 DEF TakePhase, ServerInv, ActiveOK, ConnOK
  <2> QED
    BY <2>3, <2>4
<1>2. CASE HandleErrorPhase(l, c)
  <2>1. conn' = [conn EXCEPT ![c] = HandleError(conn[c])] /\ TakePhase(l, c, "error") /\ RemoveConnection(l, c)
    BY <1>2 DEF HandleErrorPhase
  <2>2. conn[c].state \notin Unborn =>
          Lives(conn[c], HandleError(conn[c])) /\ HandleError(conn[c]).state = "kDisconnected"
    BY <1>0, HandleErrorOK
  <2>3. CASE conn[c].state \notin Unborn
    BY <2>1, <2>2, <2>3, PhaseKeeps
  <2>4. conn[c].state \notin Unborn
    BY <1>0, <2>1 DEF TakePhase, ServerInv, ActiveOK, ConnOK
  <2> QED
    BY <2>3, <2>4
<1>3. CASE HandleReadPhase(l, c)
  <2>1. PICK r \in HandleRead(conn[c]) :
          /\ conn' = [conn EXCEPT ![c] = r]
          /\ IF r.state = "kDisconnected" THEN RemoveConnection(l, c)
                                          ELSE UNCHANGED <<connections_, queue>>
    BY <1>3 DEF HandleReadPhase
  <2>2. TakePhase(l, c, "read")
    BY <1>3 DEF HandleReadPhase
  <2>3. conn[c].state \notin Unborn => Lives(conn[c], r)
    BY <1>0, HandleReadOK
  <2> QED
    BY <2>1, <2>2, <2>3, PhaseKeeps
<1>4. CASE HandleWritePhase(l, c)
  <2>1. PICK r \in HandleWrite(conn[c]) : conn' = [conn EXCEPT ![c] = r]
    BY <1>4 DEF HandleWritePhase
  <2>2. TakePhase(l, c, "write") /\ UNCHANGED <<connections_, queue>>
    BY <1>4 DEF HandleWritePhase
  <2>3. conn[c].state \notin Unborn => Lives(conn[c], r)
    BY <1>0, HandleWriteOK
  <2> QED
    BY <2>1, <2>2, <2>3, PhaseKeeps
<1> QED
  BY <1>1, <1>2, <1>3, <1>4

\* The steps that change no connection, no table and no functor.
LEMMA QuietSteps ==
  ASSUME Types, ServerInv,
         \/ \E l \in Loops : Poll(l) \/ HandleEventReturns(l) \/ QuitLoop(l)
         \/ \E l \in Loops, c \in Conns : HandleEvent(l, c)
         \/ Start \/ QuitBase \/ DestroyServer
         \/ \E c \in Conns : ForeignRelease(c) \/ \E op \in RawOps : ForeignTest(c, op)
  PROVE  ServerInv'
<1> USE DEF connVars, loopVars, foreignVars
<1>1. UNCHANGED <<conn, ioLoop, connections_, queue, batch, pos>>
  BY DEF Poll, HandleEventReturns, QuitLoop, HandleEvent, Start, QuitBase, DestroyServer,
         ForeignRelease, ForeignTest
<1>2. \A l \in Loops : (lpc[l] = "done" => lpc'[l] = "done") /\ (lpc'[l] # "run" => lpc[l] # "run")
  BY DEF Poll, HandleEventReturns, QuitLoop, HandleEvent, Start, QuitBase, DestroyServer,
         ForeignRelease, ForeignTest, Types
<1>3. (Ending => Ending') /\ (Ending' => lpc'[Base] = "done")
  <2>1. \/ server' = server
        \/ server = "new" /\ server' = "up"
        \/ server' = "dtor" /\ server = "up" /\ lpc[Base] = "done"
    BY DEF Poll, HandleEventReturns, QuitLoop, HandleEvent, Start, QuitBase, DestroyServer,
           ForeignRelease, ForeignTest
  <2>2. Base \in Loops /\ (Ending => lpc[Base] = "done")
    BY DEF ServerInv, Loops
  <2> QED
    BY <1>2, <2>1, <2>2 DEF Ending
<1>4. ASSUME NEW c \in Conns, c \in held' \/ calling'[c] # "none"
      PROVE  c \in held \/ calling[c] # "none"
  BY <1>4 DEF Poll, HandleEventReturns, QuitLoop, HandleEvent, Start, QuitBase, DestroyServer,
         ForeignRelease, ForeignTest, Types
<1>5. (\A l \in Loops : LoopOK(l)') /\ (\A c \in Conns : LifeOK(c)')
  BY <1>1, <1>2, <1>3, <1>4, QuietKeeps
<1>6. ASSUME NEW k \in Loops PROVE ActiveOK(k)'
  <2>0. ActiveOK(k)
    BY DEF ServerInv
  <2>1. ASSUME NEW l \in Loops, Poll(l) PROVE ActiveOK(k)'
    <3>1. PICK who \in {MustReport(l) \cup s : s \in SUBSET Polled(l)} :
            \E revents \in [who -> SUBSET {"IN", "OUT", "HUP", "ERR"}] :
              active' = [active EXCEPT ![l] = revents]
      BY <2>1 DEF Poll
    <3>2. who \subseteq Polled(l)
      BY DEF MustReport
    <3>3. \A c \in Polled(l) : ioLoop[c] = l /\ conn[c].ch.mapped = TRUE
      BY DEF Polled, ServerInv, LifeOK, ConnOK, Good, ChannelOK, ChannelType
    <3>4. \A c \in Conns : c \notin handling[l].conns
      BY <2>1 DEF Poll, ServerInv, ActiveOK
    <3>5. /\ k = l => DOMAIN active'[k] = who /\ lpc'[k] = "handle"
          /\ k # l => active'[k] = active[k] /\ lpc'[k] = lpc[k]
          /\ handling' = handling
      BY <2>1, <3>1 DEF Poll, Types
    <3> QED
      BY <1>1, <2>0, <3>2, <3>3, <3>4, <3>5 DEF ActiveOK
  <2>2. ASSUME NEW l \in Loops, HandleEventReturns(l) PROVE ActiveOK(k)'
    BY <2>0, <2>2 DEF HandleEventReturns, ActiveOK, Nobody, Types
  <2>3. ASSUME NEW l \in Loops, NEW c \in Conns, HandleEvent(l, c) PROVE ActiveOK(k)'
    <3>1. /\ k # l => active'[k] = active[k] /\ handling'[k] = handling[k]
          /\ k = l => DOMAIN active'[k] \subseteq DOMAIN active[k] /\ handling'[k].conns = {c}
          /\ c \in DOMAIN active[l] /\ lpc' = lpc
      BY <2>3 DEF HandleEvent, Types
    <3> QED
      BY <1>1, <2>0, <3>1 DEF ActiveOK
  <2>4. CASE Start \/ QuitBase \/ DestroyServer \/ \E l \in Loops : QuitLoop(l)
    BY <2>0, <2>4 DEF Start, QuitBase, DestroyServer, QuitLoop, ActiveOK
  <2>5. CASE \E c \in Conns : ForeignRelease(c) \/ \E op \in RawOps : ForeignTest(c, op)
    BY <2>0, <2>5 DEF ForeignRelease, ForeignTest, ActiveOK
  <2> QED
    BY <2>1, <2>2, <2>3, <2>4, <2>5
<1> QED
  BY <1>3, <1>5, <1>6 DEF ServerInv

-----------------------------------------------------------------------------
(* doPendingFunctors.                                                      *)

\* A step that only takes functors over, or drops them with their loop.
LEMMA BatchKeeps ==
  ASSUME Types, ServerInv, UNCHANGED <<conn, ioLoop, connections_, held, calling, active, handling>>,
         Ending => Ending',
         Ending' => lpc'[Base] = "done",
         \A l \in Loops : TasksIn(l)' \subseteq TasksIn(l) /\ Unrun(l)' \subseteq Unrun(l) /\ Ordered(l)',
         \A l \in Loops : lpc'[l] # "run" => batch'[l] = <<>>,
         \A l \in Loops : lpc[l] = "done" => lpc'[l] = "done",
         \A l \in Loops : Unrun(l) \subseteq Unrun(l)' \/ lpc'[l] = "done",
         \A l \in Loops : \/ lpc'[l] = lpc[l]
                          \/ \A c \in Conns : c \notin DOMAIN active[l] /\ c \notin handling[l].conns
  PROVE  ServerInv'
<1>1. \A c \in Conns : Follows(conn[c], conn'[c])
  BY SameFollows DEF ServerInv, LifeOK
<1>2. ASSUME NEW l \in Loops PROVE LoopOK(l)'
  <2>1. LoopOK(l)
    BY DEF ServerInv
  <2> QED
    BY <1>1, <2>1, LoopKeeps DEF LoopOK, Follows
<1>3. ASSUME NEW c \in Conns PROVE LifeOK(c)'
  <2>1. LifeOK(c) /\ ioLoop[c] \in Loops /\ ioLoop'[c] = ioLoop[c] /\ LoopOK(ioLoop[c])
    BY DEF ServerInv, Types
  <2>2. LoopDone(c) => LoopDone(c)'
    BY <2>1 DEF LoopDone
  <2>3. Unrun(ioLoop[c]) \subseteq Unrun(ioLoop[c])' \/ LoopDone(c)'
    BY <2>1 DEF LoopDone
  <2>4. Condemned(c) => ioLoop[c] # Base \/ conn[c].downs # 0
    <3>1. Task("destroyed", c).op = "destroyed" /\ Task("destroyed", c).conn = c
      BY DEF Task
    <3> QED
      BY <2>1, <3>1, TasksInIs DEF Condemned, LoopOK, TaskOK
  <2>5. Condemned(c) => Condemned(c)' \/ (LoopDone(c)' /\ (ioLoop[c] # Base \/ conn[c].downs # 0))
    BY <2>1, <2>3, <2>4 DEF Condemned, Unrun
  <2> QED
    BY <1>1, <2>1, <2>2, <2>3, <2>5, LifeKeeps
<1>4. ASSUME NEW l \in Loops PROVE ActiveOK(l)'
  BY DEF ActiveOK, ServerInv
<1> QED
  BY <1>2, <1>3, <1>4 DEF ServerInv

LEMMA SwapKeeps == ASSUME Types, ServerInv, NEW l \in Loops, SwapFunctors(l) PROVE ServerInv'
<1> USE DEF connVars, foreignVars
<1>1. LoopOK(l) /\ lpc[l] = "handle" /\ batch[l] = <<>>
  BY DEF SwapFunctors, Idle, ServerInv, LoopOK
<1>2. queue[l] \in Seq(Tasks) /\ batch[l] \in Seq(Tasks) /\ pos[l] \in Nat
  BY DEF Types
<1>3. /\ batch'[l] = queue[l] /\ queue'[l] = <<>> /\ pos'[l] = 0 /\ lpc'[l] = "run"
      /\ \A k \in Loops : k # l => batch'[k] = batch[k] /\ queue'[k] = queue[k] /\ pos'[k] = pos[k]
                                   /\ lpc'[k] = lpc[k]
  BY DEF SwapFunctors, Types
<1>4. ASSUME NEW k \in Loops, k # l
      PROVE  TasksIn(k)' = TasksIn(k) /\ Unrun(k)' = Unrun(k) /\ (Ordered(k)' <=> Ordered(k))
  BY <1>3, <1>4 DEF TasksIn, Unrun, Ordered
<1>5. TasksIn(l)' = TasksIn(l) /\ Unrun(l)' = Unrun(l) /\ Ordered(l)'
  <2>1. /\ Elements(<<>>) = {}
        /\ UnrunOf(queue[l], 0, <<>>) = Elements(queue[l])
        /\ UnrunOf(<<>>, pos[l], queue[l]) = Elements(queue[l])
        /\ OrderedOf(batch[l], queue[l]) => OrderedOf(queue[l], <<>>)
    BY <1>2, SwapIs
  <2>2. TasksIn(l)' = Elements(batch'[l]) \cup Elements(queue'[l])
    BY DEF TasksIn, Elements
  <2>3. TasksIn(l) = Elements(batch[l]) \cup Elements(queue[l])
    BY TasksInIs
  <2> QED
    BY <1>1, <1>3, <2>1, <2>2, <2>3 DEF Unrun, Ordered, LoopOK
<1>6. Ending' => lpc'[Base] = "done"
  BY <1>1, <1>3 DEF SwapFunctors, ServerInv, Ending, Loops
<1>7. \A c \in Conns : c \notin DOMAIN active[l] /\ c \notin handling[l].conns
  BY DEF SwapFunctors, Idle, Nobody
<1>8. UNCHANGED <<conn, ioLoop, connections_, held, calling, active, handling, server>>
  BY DEF SwapFunctors
<1>9. \A k \in Loops : lpc'[k] # "run" => batch'[k] = <<>>
  BY <1>3 DEF ServerInv, LoopOK
<1>10. \A k \in Loops : Ordered(k)'
  BY <1>4, <1>5 DEF ServerInv, LoopOK
<1> QED
  BY <1>1, <1>3, <1>4, <1>5, <1>6, <1>7, <1>8, <1>9, <1>10, BatchKeeps DEF Ending

LEMMA EndBatchKeeps == ASSUME Types, ServerInv, NEW l \in Loops, EndBatch(l) PROVE ServerInv'
<1> USE DEF connVars, foreignVars
<1>1. LoopOK(l) /\ ActiveOK(l) /\ lpc[l] = "run" /\ pos[l] = Len(batch[l])
  BY DEF EndBatch, ServerInv
<1>2. queue[l] \in Seq(Tasks) /\ batch[l] \in Seq(Tasks) /\ pos[l] \in Nat /\ 0 \in Nat
  BY DEF Types
<1>3. /\ batch'[l] = <<>> /\ pos'[l] = 0 /\ lpc'[l] \in {"done", "poll"}
      /\ queue'[l] = queue[l] \/ (queue'[l] = <<>> /\ lpc'[l] = "done")
      /\ \A k \in Loops : k # l => batch'[k] = batch[k] /\ queue'[k] = queue[k] /\ pos'[k] = pos[k]
                                   /\ lpc'[k] = lpc[k]
  BY DEF EndBatch, Types
<1>4. ASSUME NEW k \in Loops, k # l
      PROVE  TasksIn(k)' = TasksIn(k) /\ Unrun(k)' = Unrun(k) /\ (Ordered(k)' <=> Ordered(k))
  BY <1>3, <1>4 DEF TasksIn, Unrun, Ordered
<1>5. /\ TasksIn(l)' \subseteq TasksIn(l) /\ Unrun(l)' \subseteq Unrun(l) /\ Ordered(l)'
      /\ Unrun(l) \subseteq Unrun(l)' \/ lpc'[l] = "done"
  <2>1. /\ Elements(<<>>) = {} /\ <<>> \in Seq(Tasks)
        /\ UnrunOf(batch[l], Len(batch[l]), queue[l]) = Elements(queue[l])
        /\ OrderedOf(batch[l], queue[l]) => OrderedOf(<<>>, queue[l])
        /\ OrderedOf(<<>>, <<>>)
        /\ UnrunOf(<<>>, 0, queue[l]) = Elements(queue[l])
    BY <1>2, SwapIs
  <2>2. UnrunOf(<<>>, 0, <<>>) = Elements(<<>>)
    BY <1>2, <2>1, SwapIs
  <2>3. TasksIn(l)' = Elements(batch'[l]) \cup Elements(queue'[l])
    BY DEF TasksIn, Elements
  <2>4. TasksIn(l) = Elements(batch[l]) \cup Elements(queue[l])
    BY TasksInIs
  <2>5. Unrun(l)' = UnrunOf(batch'[l], pos'[l], queue'[l]) /\ (Ordered(l)' <=> OrderedOf(batch'[l], queue'[l]))
    BY DEF Unrun, Ordered
  <2>6. Unrun(l) = Elements(queue[l]) /\ OrderedOf(batch[l], queue[l])
    BY <1>1, <2>1 DEF Unrun, LoopOK, Ordered
  <2>7. CASE queue'[l] = queue[l]
    BY <1>3, <2>1, <2>3, <2>4, <2>5, <2>6, <2>7
  <2>8. CASE queue'[l] = <<>> /\ lpc'[l] = "done"
    BY <1>3, <2>1, <2>2, <2>3, <2>4, <2>5, <2>6, <2>8
  <2> QED
    BY <1>3, <2>7, <2>8
<1>6. Ending' => lpc'[Base] = "done"
  BY <1>1, <1>3 DEF EndBatch, ServerInv, Ending, Loops
<1>7. \A c \in Conns : c \notin DOMAIN active[l] /\ c \notin handling[l].conns
  BY <1>1 DEF ActiveOK
<1>8. UNCHANGED <<conn, ioLoop, connections_, held, calling, active, handling, server>>
  BY DEF EndBatch
<1>9. \A k \in Loops : lpc'[k] # "run" => batch'[k] = <<>>
  BY <1>3 DEF ServerInv, LoopOK
<1>10. \A k \in Loops : Ordered(k)'
  BY <1>4, <1>5 DEF ServerInv, LoopOK
<1> QED
  BY <1>1, <1>3, <1>4, <1>5, <1>6, <1>7, <1>8, <1>9, <1>10, BatchKeeps DEF Ending

LEMMA ServerDownKeeps == ASSUME Types, ServerInv, ServerDown PROVE ServerInv'
<1> USE DEF connVars, foreignVars, loopVars
<1>1. Base \in Loops /\ lpc[Base] = "done" /\ batch[Base] = <<>>
  BY DEF ServerDown, ServerInv, Ending, LoopOK, Loops
<1>2. /\ queue'[Base] = <<>> /\ \A k \in Loops : k # Base => queue'[k] = queue[k]
      /\ UNCHANGED <<batch, pos, lpc>>
  BY <1>1 DEF ServerDown, Types
<1>3. ASSUME NEW k \in Loops, k # Base
      PROVE  TasksIn(k)' = TasksIn(k) /\ Unrun(k)' = Unrun(k) /\ (Ordered(k)' <=> Ordered(k))
  BY <1>2, <1>3 DEF TasksIn, Unrun, Ordered
<1>4. TasksIn(Base)' \subseteq TasksIn(Base) /\ Unrun(Base)' \subseteq Unrun(Base) /\ Ordered(Base)'
  <2>1. pos[Base] \in Nat /\ <<>> \in Seq(Tasks)
    BY <1>1 DEF Types
  <2>2. Elements(<<>>) = {} /\ OrderedOf(<<>>, <<>>) /\ UnrunOf(<<>>, pos[Base], <<>>) = Elements(<<>>)
    BY <2>1, SwapIs
  <2>3. TasksIn(Base)' = Elements(batch'[Base]) \cup Elements(queue'[Base])
    BY DEF TasksIn, Elements
  <2>4. Unrun(Base)' = UnrunOf(batch'[Base], pos'[Base], queue'[Base])
        /\ (Ordered(Base)' <=> OrderedOf(batch'[Base], queue'[Base]))
    BY DEF Unrun, Ordered
  <2> QED
    BY <1>1, <1>2, <2>2, <2>3, <2>4
<1>5. UNCHANGED <<conn, ioLoop, connections_, held, calling, active, handling>> /\ Ending /\ Ending'
  BY DEF ServerDown, Ending
<1>6. \A k \in Loops : Ordered(k)' /\ (lpc'[k] # "run" => batch'[k] = <<>>)
  BY <1>2, <1>3, <1>4 DEF ServerInv, LoopOK
<1> QED
  BY <1>1, <1>2, <1>3, <1>4, <1>5, <1>6, BatchKeeps

\* The next functor is taken out of the ones that have not run; queue' may
\* have more of them.
LEMMA RunStep ==
  ASSUME Types, NEW l \in Loops, NEW c \in Conns,
         NEW op \in RawOps \cup {"established", "destroyed", "remove"}, Running(l, op, c)
  PROVE  /\ Task(op, c) \in TasksIn(l) /\ Task(op, c) \in Unrun(l)
         /\ Unrun(l) = UnrunOf(batch[l], pos'[l], queue[l]) \cup {Task(op, c)}
         /\ pos'[l] \in Nat /\ \A k \in Loops : k # l => pos'[k] = pos[k]
         /\ Ordered(l) => \A u \in UnrunOf(batch[l], pos'[l], queue[l]) :
                            u.op = "established" => u.conn # c
<1> DEFINE t == Task(op, c)
<1>1. batch[l] \in Seq(Tasks) /\ queue[l] \in Seq(Tasks) /\ pos[l] \in Nat
  BY DEF Types
<1>2. /\ pos[l] < Len(batch[l]) /\ batch[l][pos[l] + 1] = t
      /\ pos'[l] = pos[l] + 1 /\ \A k \in Loops : k # l => pos'[k] = pos[k]
  BY DEF Running, Types
<1>3. t.conn = c
  BY TaskType
<1> HIDE DEF t
<1>4. /\ UnrunOf(batch[l], pos[l], queue[l])
           = UnrunOf(batch[l], pos[l] + 1, queue[l]) \cup {batch[l][pos[l] + 1]}
      /\ batch[l][pos[l] + 1] \in Elements(batch[l])
      /\ OrderedOf(batch[l], queue[l]) =>
           \A u \in UnrunOf(batch[l], pos[l] + 1, queue[l]) :
             u.op = "established" => u.conn # batch[l][pos[l] + 1].conn
  BY <1>1, <1>2, RunIs
<1>5. Unrun(l) = UnrunOf(batch[l], pos'[l], queue[l]) \cup {t} /\ t \in Elements(batch[l])
  BY <1>2, <1>4 DEF Unrun
<1>6. Ordered(l) => \A u \in UnrunOf(batch[l], pos'[l], queue[l]) : u.op = "established" => u.conn # c
  BY <1>2, <1>3, <1>4 DEF Ordered
<1>7. pos'[l] \in Nat
  BY <1>1, <1>2
<1>8. t \in TasksIn(l) /\ t \in Unrun(l)
  BY <1>5, TasksInIs
<1> QED
  BY <1>2, <1>5, <1>6, <1>7, <1>8 DEF t

\* ... and when nothing is queued.
LEMMA RunOnlyStep ==
  ASSUME Types, ServerInv, NEW l \in Loops, NEW c \in Conns,
         NEW op \in RawOps \cup {"established", "destroyed", "remove"}, Running(l, op, c),
         UNCHANGED queue
  PROVE  /\ TaskOK(l, Task(op, c)) /\ Task(op, c) \in Unrun(l) /\ lpc[l] = "run"
         /\ \A k \in Loops : TasksIn(k)' = TasksIn(k) /\ Ordered(k)'
         /\ \A k \in Loops : k # l => Unrun(k)' = Unrun(k)
         /\ Unrun(l) = Unrun(l)' \cup {Task(op, c)}
         /\ \A u \in Unrun(l)' : u.op = "established" => u.conn # c
<1>1. batch' = batch /\ lpc[l] = "run"
  BY DEF Running
<1>2. Ordered(l) /\ TaskOK(l, Task(op, c)) /\ Task(op, c) \in Unrun(l)
  BY RunStep DEF ServerInv, LoopOK
<1>3. Unrun(l)' = UnrunOf(batch[l], pos'[l], queue[l])
  BY <1>1 DEF Unrun
<1>4. ASSUME NEW k \in Loops PROVE TasksIn(k)' = TasksIn(k) /\ Ordered(k)'
  BY <1>1 DEF TasksIn, Ordered, ServerInv, LoopOK
<1>5. ASSUME NEW k \in Loops, k # l PROVE Unrun(k)' = Unrun(k)
  BY <1>1, <1>5, RunStep DEF Unrun
<1> QED
  BY <1>1, <1>2, <1>3, <1>4, <1>5, RunStep

\* A connection that a step is not about.
LEMMA OtherLives ==
  ASSUME Types, ServerInv, NEW d \in Conns, conn'[d] = conn[d], ioLoop'[d] = ioLoop[d],
         UNCHANGED <<lpc, calling>>, Ending => Ending',
         d \in connections_' <=> d \in connections_,
         d \in held' => d \in held,
         \A k \in Loops : \A t \in Unrun(k) : t \in Unrun(k)' \/ t.conn # d
  PROVE  LifeOK(d)'
<1>1. LifeOK(d) /\ ioLoop[d] \in Loops
  BY DEF ServerInv, Types
<1>2. Follows(conn[d], conn'[d])
  BY <1>1, SameFollows DEF LifeOK
<1>3. \A op : Task(op, d) \in Unrun(ioLoop[d]) => Task(op, d) \in Unrun(ioLoop[d])'
  BY <1>1 DEF Task
<1>4. (Condemned(d) => Condemned(d)') /\ (LoopDone(d)' <=> LoopDone(d))
  BY <1>1, <1>3 DEF Condemned, LoopDone, Unrun
<1> QED
  BY <1>1, <1>2, <1>3, <1>4, LifeKeeps

LEMMA RunEstablishedKeeps ==
  ASSUME Types, ServerInv, NEW l \in Loops, NEW c \in Conns, RunEstablished(l, c)
  PROVE  ServerInv'
<1> DEFINE t == Task("established", c)
           s == ConnectEstablished(conn[c])
<1>1. /\ Running(l, "established", c) /\ UNCHANGED <<queue, connections_, calling>>
      /\ held' = Share(c)
      /\ UNCHANGED <<lpc, active, handling, batch, ioLoop, server>>
      /\ conn'[c] = s /\ \A d \in Conns : d # c => conn'[d] = conn[d]
  BY DEF RunEstablished, Running, Types
<1>2. t.op = "established" /\ t.conn = c
  BY DEF Task
<1>3. /\ TaskOK(l, t) /\ t \in Unrun(l) /\ lpc[l] = "run"
      /\ \A k \in Loops : TasksIn(k)' = TasksIn(k) /\ Ordered(k)'
      /\ \A k \in Loops : k # l => Unrun(k)' = Unrun(k)
      /\ Unrun(l) = Unrun(l)' \cup {t}
      /\ \A u \in Unrun(l)' : u.op = "established" => u.conn # c
  BY <1>1, RunOnlyStep
<1> HIDE DEF t
<1>4. conn[c].state = "kConnecting" /\ ioLoop[c] = l /\ LifeOK(c)
  BY <1>2, <1>3 DEF ServerInv, LoopOK, TaskOK, t
<1>5. ConnOK(s) /\ s.state = "kConnected"
  BY <1>4, EstablishedOK DEF LifeOK
<1> HIDE DEF s
<1>6. Ages(conn[c], s) /\ conn[c].ch.mapped = FALSE /\ conn[c].downs = 0
  BY <1>4, <1>5 DEF Ages, LifeOK, ConnOK, Unborn
<1>7. ASSUME NEW k \in Loops PROVE LoopOK(k)'
  <2>1. \A d \in Conns : Ages(conn[d], conn'[d])
    BY <1>1, <1>6 DEF Ages, ServerInv, LifeOK
  <2>2. ASSUME NEW d \in Conns, Task("established", d) \in Unrun(k)'
        PROVE  conn'[d].state = "kConnecting"
    <3>1. Task("established", d).op = "established" /\ Task("established", d).conn = d
      BY DEF Task
    <3>2. Task("established", d) \in Unrun(k) /\ LoopOK(k)
      BY <1>3, <2>2 DEF ServerInv
    <3>3. d # c
      <4>1. CASE k = l
        BY <1>3, <2>2, <3>1, <4>1
      <4>2. CASE k # l
        BY <1>4, <3>1, <3>2, <4>2, TasksInIs DEF LoopOK, TaskOK
      <4> QED
        BY <4>1, <4>2
    <3> QED
      BY <1>1, <3>2, <3>3 DEF LoopOK
  <2>3. LoopOK(k)
    BY DEF ServerInv
  <2> QED
    BY <1>1, <1>3, <2>1, <2>2, <2>3, LoopKeeps DEF LoopOK, Ending
<1>8. ASSUME NEW d \in Conns, d # c PROVE LifeOK(d)'
  <2>1. d \in held' => d \in held
    BY <1>1, <1>8 DEF Share
  <2>2. \A k \in Loops : \A u \in Unrun(k) : u \in Unrun(k)' \/ u.conn # d
    BY <1>2, <1>3, <1>8
  <2> QED
    BY <1>1, <1>8, <2>1, <2>2, OtherLives DEF Ending
<1>9. LifeOK(c)'
  <2>1. c \notin connections_ => Ending /\ Condemned(c)
    BY <1>3, <1>4, <1>6 DEF LifeOK, LoopDone
  <2>2. Condemned(c) => Condemned(c)'
    <3>1. Task("destroyed", c) # t
      BY DEF Task, t
    <3> QED
      BY <1>1, <1>3, <1>4, <3>1 DEF Condemned, Unrun
  <2>3. c \in held' \/ calling'[c] # "none" => ForeignCalls # 0
    BY <1>1, <1>4, ForeignCallsAssumption DEF Share, LifeOK
  <2> QED
    BY <1>1, <1>4, <1>5, <2>1, <2>2, <2>3 DEF LifeOK, Ending, Unborn
<1>10. ASSUME NEW k \in Loops PROVE ActiveOK(k)'
  <2>1. ActiveOK(k)
    BY DEF ServerInv
  <2> QED
    BY <1>1, <1>6, <2>1 DEF ActiveOK
<1>11. Ending' => lpc'[Base] = "done"
  BY <1>1 DEF Ending, ServerInv
<1> QED
  BY <1>7, <1>8, <1>9, <1>10, <1>11 DEF ServerInv

\* connectDestroyed, in a loop or in ~TcpServer, of a connection that is not
\* active and not yet to be established.
LEMMA DestroyedKeeps ==
  ASSUME Types, ServerInv, NEW c \in Conns, conn' = [conn EXCEPT ![c] = ConnectDestroyed(@)],
         UNCHANGED <<ioLoop, lpc, calling, held, batch, active, handling, server>>,
         conn[c].state \notin {"none", "kConnecting"},
         conn[c].downs # 0 \/ Ending,
         lpc[ioLoop[c]] # "handle",
         connections_' \in {connections_, connections_ \ {c}},
         \A k \in Loops : TasksIn(k)' = TasksIn(k) /\ Ordered(k)',
         \A k \in Loops : Unrun(k)' \subseteq Unrun(k),
         \A k \in Loops : \A t \in Unrun(k) : t \in Unrun(k)' \/ t.conn = c
  PROVE  ServerInv'
<1> DEFINE s == ConnectDestroyed(conn[c])
<1>1. conn'[c] = s /\ \A d \in Conns : d # c => conn'[d] = conn[d]
  BY DEF Types
<1>2. LifeOK(c) /\ ConnOK(conn[c]) /\ conn[c].state \in States
  BY DEF ServerInv, LifeOK, ConnOK, ConnType
<1>3. /\ ConnOK(s) /\ s.ch.mapped = FALSE
      /\ s.state # "none" /\ s.state # "kConnecting"
      /\ conn[c].downs # 0 => s.downs # 0
      /\ s.downs = 0 => s.state = conn[c].state /\ conn[c].state # "kConnected"
  BY <1>2, DestroyedOK
<1> HIDE DEF s
<1>4. \A d \in Conns : Ages(conn[d], conn'[d])
  BY <1>1, <1>3 DEF Ages, ServerInv, LifeOK, Unborn
<1>5. ASSUME NEW k \in Loops PROVE LoopOK(k)'
  <2>1. LoopOK(k)
    BY DEF ServerInv
  <2>2. ASSUME NEW d \in Conns, Task("established", d) \in Unrun(k)'
        PROVE  conn'[d].state = "kConnecting"
    <3>1. conn[d].state = "kConnecting"
      BY <2>1, <2>2 DEF LoopOK
    <3> QED
      BY <1>1, <3>1
  <2> QED
    BY <1>4, <2>1, <2>2, LoopKeeps DEF LoopOK, Ending
<1>6. ASSUME NEW d \in Conns, d # c PROVE LifeOK(d)'
  <2>1. \A k \in Loops : \A t \in Unrun(k) : t \in Unrun(k)' \/ t.conn # d
    BY <1>6
  <2> QED
    BY <1>1, <1>6, <2>1, OtherLives DEF Ending
<1>7. LifeOK(c)'
  <2>1. s.downs = 0 => Ending /\ s.state = "kDisconnecting"
    BY <1>2, <1>3 DEF States, ConnOK
  <2> QED
    BY <1>1, <1>2, <1>3, <2>1 DEF LifeOK, Ending, Unborn
<1>8. ASSUME NEW k \in Loops PROVE ActiveOK(k)'
  <2>1. ActiveOK(k)
    BY DEF ServerInv
  <2> QED
    BY <1>1, <2>1 DEF ActiveOK
<1>9. Ending' => lpc'[Base] = "done"
  BY DEF Ending, ServerInv
<1> QED
  BY <1>5, <1>6, <1>7, <1>8, <1>9 DEF ServerInv

LEMMA RunDestroyedKeeps ==
  ASSUME Types, ServerInv, NEW l \in Loops, NEW c \in Conns, RunDestroyed(l, c)
  PROVE  ServerInv'
<1> DEFINE t == Task("destroyed", c)
<1>1. /\ Running(l, "destroyed", c) /\ UNCHANGED <<queue, connections_, held, calling>>
      /\ UNCHANGED <<lpc, active, handling, batch, ioLoop, server>>
      /\ conn' = [conn EXCEPT ![c] = ConnectDestroyed(@)]
  BY DEF RunDestroyed, Running, foreignVars
<1>2. t.op = "destroyed" /\ t.conn = c
  BY DEF Task
<1>3. /\ TaskOK(l, t) /\ t \in Unrun(l) /\ lpc[l] = "run"
      /\ \A k \in Loops : TasksIn(k)' = TasksIn(k) /\ Ordered(k)'
      /\ \A k \in Loops : k # l => Unrun(k)' = Unrun(k)
      /\ Unrun(l) = Unrun(l)' \cup {t}
      /\ \A u \in Unrun(l)' : u.op = "established" => u.conn # c
  BY <1>1, RunOnlyStep
<1> HIDE DEF t
<1>4. /\ ioLoop[c] = l /\ conn[c].state # "none"
      /\ conn[c].downs # 0 \/ Ending
  BY <1>2, <1>3 DEF TaskOK
<1>5. conn[c].state # "kConnecting"
  <2>1. Task("established", c) \notin Unrun(l)
    <3>1. Task("established", c).op = "established" /\ Task("established", c).conn = c
      BY DEF Task
    <3> QED
      BY <1>2, <1>3, <3>1
  <2> QED
    BY <1>3, <1>4, <2>1 DEF ServerInv, LifeOK, LoopDone
<1>6. \A k \in Loops : Unrun(k)' \subseteq Unrun(k) /\ \A u \in Unrun(k) : u \in Unrun(k)' \/ u.conn = c
  BY <1>2, <1>3
<1> QED
  BY <1>1, <1>3, <1>4, <1>5, <1>6, DestroyedKeeps

\* removeConnectionInLoop as a functor: it runs one functor and queues another.
LEMMA RunRemoveKeeps ==
  ASSUME Types, ServerInv, NEW l \in Loops, NEW c \in Conns, RunRemove(l, c)
  PROVE  ServerInv'
<1> DEFINE t == Task("remove", c)
           u == Task("destroyed", c)
           m == ioLoop[c]
           U(k) == UnrunOf(batch[k], pos'[k], queue[k])
<1>1. /\ Running(l, "remove", c) /\ queue' = Push(m, "destroyed", c)
      /\ connections_' = connections_ \ {c}
      /\ UNCHANGED <<conn, held, calling, lpc, active, handling, batch, ioLoop, server>>
  BY DEF RunRemove, Running, RemoveConnectionInLoop, foreignVars
<1>2. /\ t.op = "remove" /\ t.conn = c /\ t \in Tasks
      /\ u.op = "destroyed" /\ u.conn = c /\ u \in Tasks /\ m \in Loops
  BY TaskType DEF Types
<1>3. t \in TasksIn(l) /\ Unrun(l) = U(l) \cup {t} /\ \A k \in Loops : k # l => pos'[k] = pos[k]
  BY <1>1, RunStep
<1>4. pos'[l] \in Nat
  BY <1>1, RunStep
<1>5. \A d : Task("established", d) # u
  BY DEF Task
<1>6. queue'[m] = Append(queue[m], u) /\ \A k \in Loops : k # m => queue'[k] = queue[k]
  BY <1>1 DEF Push, Types
<1> HIDE DEF t, u, m
<1>7. conn[c].downs # 0 /\ conn[c].state # "none"
  BY <1>2, <1>3 DEF ServerInv, LoopOK, TaskOK
<1>8. ASSUME NEW k \in Loops
      PROVE  /\ Unrun(k)' = U(k) \cup (IF k = m THEN {u} ELSE {})
             /\ TasksIn(k)' = TasksIn(k) \cup (IF k = m THEN {u} ELSE {})
             /\ Ordered(k)'
  <2>1. batch[k] \in Seq(Tasks) /\ queue[k] \in Seq(Tasks) /\ pos'[k] \in Nat
    BY <1>3, <1>4 DEF Types
  <2>2. /\ UnrunOf(batch[k], pos'[k], Append(queue[k], u)) = U(k) \cup {u}
        /\ Elements(Append(queue[k], u)) = Elements(queue[k]) \cup {u}
        /\ OrderedOf(batch[k], queue[k]) => OrderedOf(batch[k], Append(queue[k], u))
    BY <1>2, <2>1, PushIs
  <2>3. OrderedOf(batch[k], queue[k])
    BY DEF ServerInv, LoopOK, Ordered
  <2>4. TasksIn(k) = Elements(batch[k]) \cup Elements(queue[k])
    BY TasksInIs
  <2>5. TasksIn(k)' = Elements(batch[k]) \cup Elements(queue'[k])
    BY <1>1 DEF TasksIn, Elements
  <2>6. /\ Unrun(k)' = UnrunOf(batch[k], pos'[k], queue'[k])
        /\ Ordered(k)' <=> OrderedOf(batch[k], queue'[k])
    BY <1>1 DEF Unrun, Ordered
  <2>7. CASE k = m
    BY <1>6, <2>2, <2>3, <2>4, <2>5, <2>6, <2>7
  <2>8. CASE k # m
    BY <1>6, <2>3, <2>4, <2>5, <2>6, <2>8
  <2> QED
    BY <2>7, <2>8
<1>9. ASSUME NEW k \in Loops PROVE U(k) \subseteq Unrun(k) /\ Unrun(k) \subseteq U(k) \cup {t}
  BY <1>3 DEF Unrun
<1> HIDE DEF U
<1>10. \A d \in Conns : Follows(conn[d], conn'[d])
  BY <1>1, SameFollows DEF ServerInv, LifeOK
<1>11. ASSUME NEW k \in Loops, k = m PROVE TaskOK(k, u)'
  BY <1>1, <1>2, <1>7, <1>11 DEF TaskOK, m, RawOps
<1>12. Condemned(c)'
  BY <1>1, <1>2, <1>8 DEF Condemned, u, m
<1>13. \A k \in Loops : \A v \in Unrun(k) : v \in Unrun(k)' \/ v.op \notin {"established", "destroyed"}
  BY <1>2, <1>8, <1>9
<1>14. \A k \in Loops, d \in Conns :
         Task("established", d) \in Unrun(k)' => Task("established", d) \in Unrun(k)
  BY <1>5, <1>8, <1>9
<1>15. \A k \in Loops : \A v \in TasksIn(k)' : v \in TasksIn(k) \/ TaskOK(k, v)'
  BY <1>8, <1>11
<1>16. (\A k \in Loops : LoopOK(k)') /\ (\A d \in Conns : LifeOK(d)')
  BY <1>1, <1>7, <1>8, <1>10, <1>12, <1>13, <1>14, <1>15, FollowKeeps DEF Ending
<1>17. \A k \in Loops : ActiveOK(k)'
  BY <1>1 DEF ActiveOK, ServerInv
<1>18. Ending' => lpc'[Base] = "done"
  BY <1>1 DEF Ending, ServerInv
<1> QED
  BY <1>16, <1>17, <1>18 DEF ServerInv

\* send and shutdown as functors.
LEMMA RunRawKeeps ==
  ASSUME Types, ServerInv, NEW l \in Loops, NEW c \in Conns, RunRaw(l, c)
  PROVE  ServerInv'
<1>1. PICK op \in RawOps : Running(l, op, c)
  BY DEF RunRaw, RawOps
<1>2. UNCHANGED <<connections_, queue, held, calling, lpc, active, handling, batch, ioLoop, server>>
  BY <1>1 DEF RunRaw, Running, foreignVars
<1> DEFINE t == Task(op, c)
<1>3. t.op \in RawOps /\ t.conn = c
  BY DEF Task
<1>4. /\ TaskOK(l, t)
      /\ \A k \in Loops : TasksIn(k)' = TasksIn(k) /\ Ordered(k)'
      /\ \A k \in Loops : k # l => Unrun(k)' = Unrun(k)
      /\ Unrun(l) = Unrun(l)' \cup {t}
  BY <1>1, <1>2, RunOnlyStep
<1> HIDE DEF t
<1>5. conn[c].state \notin Unborn /\ ForeignCalls # 0 /\ ConnOK(conn[c])
  BY <1>3, <1>4 DEF TaskOK, ServerInv, LifeOK
<1>6. \A d \in Conns : Follows(conn[d], conn'[d])
  <2>1. CASE conn' = conn
    BY <2>1, SameFollows DEF ServerInv, LifeOK
  <2>2. CASE \E r \in SendInLoop(conn[c]) : conn' = [conn EXCEPT ![c] = r]
    <3>1. PICK r \in SendInLoop(conn[c]) : conn' = [conn EXCEPT ![c] = r]
      BY <2>2
    <3>2. Lives(conn[c], r)
      BY <1>5, SendOK
    <3>3. Follows(conn[c], r)
      BY <1>5, <3>2, LivesFollows
    <3> QED
      BY <3>1, <3>3, OneFollows
  <2>3. CASE conn' = [conn EXCEPT ![c] = ShutdownInLoop(conn[c])]
    <3>1. Lives(conn[c], ShutdownInLoop(conn[c]))
      BY <1>5, ShutdownOK
    <3>2. Follows(conn[c], ShutdownInLoop(conn[c]))
      BY <1>5, <3>1, LivesFollows
    <3> QED
      BY <2>3, <3>2, OneFollows
  <2> QED
    BY <2>1, <2>2, <2>3 DEF RunRaw
<1>7. \A k \in Loops : \A v \in Unrun(k) : v \in Unrun(k)' \/ v.op \notin {"established", "destroyed"}
  BY <1>3, <1>4 DEF RawOps
<1>8. (\A k \in Loops : LoopOK(k)') /\ (\A d \in Conns : LifeOK(d)')
  BY <1>2, <1>4, <1>6, <1>7, FollowKeeps DEF Ending
<1>9. \A k \in Loops : ActiveOK(k)'
  BY <1>2, <1>6 DEF ActiveOK, ServerInv, Follows
<1>10. Ending' => lpc'[Base] = "done"
  BY <1>2 DEF Ending, ServerInv
<1> QED
  BY <1>8, <1>9, <1>10 DEF ServerInv

-----------------------------------------------------------------------------
(* Other threads, peers, new connections and the server's end.             *)

LEMMA ForeignCallKeeps ==
  ASSUME Types, ServerInv, NEW c \in Conns, ForeignCall(c)
  PROVE  ServerInv'
<1>0. PICK op \in RawOps : op = calling[c]
  BY DEF ForeignCall, Types
<1> DEFINE t == Task(op, c)
<1>1. /\ queue' = Push(ioLoop[c], op, c) /\ op # "none"
      /\ UNCHANGED <<connections_, held, lpc, active, handling, batch, pos, ioLoop, server>>
      /\ \A d \in Conns : calling'[d] # "none" => calling[d] # "none"
  BY <1>0 DEF ForeignCall, loopVars, Types
<1>2. op \in RawOps /\ ioLoop[c] \in Loops
  BY DEF Types
<1>3. conn[c].state \notin Unborn /\ ForeignCalls # 0 /\ ConnOK(conn[c])
  BY <1>0, <1>1 DEF ServerInv, LifeOK
<1>4. t.op = op /\ t.conn = c /\ \A d \in Conns : Task("established", d) # t
  BY <1>2 DEF Task, RawOps
<1>5. \A d \in Conns : Follows(conn[d], conn'[d])
  <2>1. CASE conn' = conn
    BY <2>1, SameFollows DEF ServerInv, LifeOK
  <2>2. CASE conn' = [conn EXCEPT ![c].state = "kDisconnecting"]
    <3> DEFINE r == [conn[c] EXCEPT !.state = "kDisconnecting"]
    <3>1. conn' = [conn EXCEPT ![c] = r]
      BY <2>2
    <3>2. Lives(conn[c], r)
      BY <1>3, ForeignOK
    <3>3. Follows(conn[c], r)
      BY <1>3, <3>2, LivesFollows
    <3> HIDE DEF r
    <3> QED
      BY <3>1, <3>3, OneFollows
  <2> QED
    BY <2>1, <2>2 DEF ForeignCall
<1>6. op \in RawOps \cup {"established", "destroyed", "remove"} /\ op # "established"
  BY <1>2 DEF RawOps
<1>7. ASSUME NEW k \in Loops
      PROVE  /\ k # ioLoop[c] => Unrun(k)' = Unrun(k) /\ TasksIn(k)' = TasksIn(k)
             /\ k = ioLoop[c] => Unrun(k)' = Unrun(k) \cup {t} /\ TasksIn(k)' = TasksIn(k) \cup {t}
             /\ Ordered(k)'
  BY <1>1, <1>2, <1>6, PushStep DEF ServerInv, LoopOK
<1> HIDE DEF t
<1>8. ASSUME NEW k \in Loops PROVE TaskOK(k, t)'
  <2>1. conn'[c].state \notin Unborn
    BY <1>3, <1>5 DEF Follows, Ages
  <2> QED
    BY <1>2, <1>3, <1>4, <2>1 DEF TaskOK, Unborn, RawOps
<1>9. \A k \in Loops : \A v \in TasksIn(k)' : v \in TasksIn(k) \/ TaskOK(k, v)'
  BY <1>7, <1>8
<1>10. (\A k \in Loops : LoopOK(k)') /\ (\A d \in Conns : LifeOK(d)')
  BY <1>1, <1>4, <1>5, <1>7, <1>9, FollowKeeps DEF Ending
<1>11. \A k \in Loops : ActiveOK(k)'
  BY <1>1, <1>5 DEF ActiveOK, ServerInv, Follows
<1>12. Ending' => lpc'[Base] = "done"
  BY <1>1 DEF Ending, ServerInv
<1> QED
  BY <1>10, <1>11, <1>12 DEF ServerInv

LEMMA PeerClosesKeeps ==
  ASSUME Types, ServerInv, NEW c \in Conns, NEW how \in {"fin", "rst"}, PeerCloses(c, how)
  PROVE  ServerInv'
<1> DEFINE r == [conn[c] EXCEPT !.sock = how, !.soerr = (how = "rst")]
<1>1. conn' = [conn EXCEPT ![c] = r]
  BY DEF PeerCloses, Types
<1>2. /\ UNCHANGED <<connections_, queue, held, calling, lpc, active, handling, batch, pos, ioLoop>>
      /\ UNCHANGED server
  BY DEF PeerCloses, loopVars, foreignVars
<1>3. ConnOK(conn[c])
  BY DEF ServerInv, LifeOK
<1>4. ConnOK(r) /\ r.state = conn[c].state /\ r.downs = conn[c].downs /\ r.ch = conn[c].ch
  BY <1>3, PeerOK
<1> HIDE DEF r
<1>5. Follows(conn[c], r)
  BY <1>4 DEF Follows, Ages
<1>6. \A d \in Conns : Follows(conn[d], conn'[d])
  BY <1>1, <1>5, OneFollows
<1>7. \A k \in Loops : Unrun(k)' = Unrun(k) /\ TasksIn(k)' = TasksIn(k) /\ Ordered(k)'
  BY <1>2, NoPushStep DEF ServerInv, LoopOK
<1>8. (\A k \in Loops : LoopOK(k)') /\ (\A d \in Conns : LifeOK(d)')
  BY <1>2, <1>6, <1>7, FollowKeeps DEF Ending
<1>9. \A k \in Loops : ActiveOK(k)'
  BY <1>2, <1>6 DEF ActiveOK, ServerInv, Follows
<1>10. Ending' => lpc'[Base] = "done"
  BY <1>2 DEF Ending, ServerInv
<1> QED
  BY <1>8, <1>9, <1>10 DEF ServerInv

LEMMA DestroyConnectionKeeps ==
  ASSUME Types, ServerInv, NEW c \in Conns, DestroyConnection(c)
  PROVE  ServerInv'
<1>1. /\ c \in connections_ /\ connections_' = connections_ \ {c} /\ Ending /\ lpc[Base] = "done"
      /\ UNCHANGED <<held, calling, lpc, active, handling, batch, pos, ioLoop, server>>
  BY DEF DestroyConnection, Ending, ServerInv, loopVars, foreignVars
<1>2. LifeOK(c) /\ ioLoop[c] \in Loops
  BY DEF ServerInv, Types
<1>3. CASE ioLoop[c] = Base
  <2>1. conn' = [conn EXCEPT ![c] = ConnectDestroyed(@)] /\ UNCHANGED queue
    BY <1>3 DEF DestroyConnection
  <2>2. conn[c].state \notin {"none", "kConnecting"}
    BY <1>1, <1>2, <1>3 DEF LifeOK
  <2>3. \A k \in Loops : Unrun(k)' = Unrun(k) /\ TasksIn(k)' = TasksIn(k) /\ Ordered(k)'
    BY <1>1, <2>1, NoPushStep DEF ServerInv, LoopOK
  <2> QED
    BY <1>1, <1>3, <2>1, <2>2, <2>3, DestroyedKeeps
<1>4. CASE ioLoop[c] # Base
  <2> DEFINE t == Task("destroyed", c)
  <2>1. UNCHANGED conn /\ queue' = Push(ioLoop[c], "destroyed", c)
    BY <1>4 DEF DestroyConnection
  <2>2. t.op = "destroyed" /\ t.conn = c /\ \A d \in Conns : Task("established", d) # t
    BY DEF Task
  <2>3. ASSUME NEW k \in Loops, k = ioLoop[c] PROVE TaskOK(k, t)'
    BY <1>1, <1>2, <1>4, <2>1, <2>2, <2>3 DEF TaskOK, LifeOK, Ending, RawOps
  <2>4. ASSUME NEW k \in Loops
        PROVE  /\ k # ioLoop[c] => Unrun(k)' = Unrun(k) /\ TasksIn(k)' = TasksIn(k)
               /\ k = ioLoop[c] => Unrun(k)' = Unrun(k) \cup {t} /\ TasksIn(k)' = TasksIn(k) \cup {t}
               /\ Ordered(k)'
    BY <1>1, <1>2, <2>1, PushStep DEF ServerInv, LoopOK
  <2> HIDE DEF t
  <2>5. Condemned(c)' /\ Ending'
    BY <1>1, <1>2, <2>4 DEF Condemned, Ending, t
  <2>6. \A d \in Conns : Follows(conn[d], conn'[d])
    BY <2>1, SameFollows DEF ServerInv, LifeOK
  <2>7. \A k \in Loops : \A v \in TasksIn(k)' : v \in TasksIn(k) \/ TaskOK(k, v)'
    BY <2>3, <2>4
  <2>8. (\A k \in Loops : LoopOK(k)') /\ (\A d \in Conns : LifeOK(d)')
    BY <1>1, <2>2, <2>4, <2>5, <2>6, <2>7, FollowKeeps
  <2>9. \A k \in Loops : ActiveOK(k)'
    BY <1>1, <2>1 DEF ActiveOK, ServerInv
  <2> QED
    BY <1>1, <2>8, <2>9 DEF ServerInv
<1> QED
  BY <1>3, <1>4

LEMMA AcceptKeeps ==
  ASSUME Types, ServerInv, NEW c \in Conns, Accept(c)
  PROVE  ServerInv'
<1>1. NextLoop \in Loops
  BY NextLoopIsALoop
<1>2. PICK m \in Loops : m = NextLoop
  BY <1>1
<1>3. /\ lpc[Base] = "handle" /\ server = "up" /\ conn[c].state = "none"
      /\ UNCHANGED <<calling, lpc, active, handling, batch, pos, server>>
      /\ connections_' = connections_ \cup {c}
      /\ ioLoop'[c] = m /\ \A d \in Conns : d # c => ioLoop'[d] = ioLoop[d]
  BY <1>2 DEF Accept, NewConnection, Idle, Incoming, loopVars, Types
<1>4. /\ LifeOK(c) /\ ConnOK(conn[c]) /\ c \notin held /\ calling[c] = "none"
      /\ conn[c].ch.mapped = FALSE /\ conn[c].downs = 0
  BY <1>3 DEF ServerInv, LifeOK, ConnOK, Unborn
<1>5. \A k \in Loops : LoopOK(k) /\ Ordered(k) /\ \A t \in TasksIn(k) : t.conn # c
  BY <1>3 DEF ServerInv, LoopOK, TaskOK
<1>6. ConnOK(Constructed(conn[c])) /\ Constructed(conn[c]).state = "kConnecting"
  BY <1>3, <1>4, ConstructedOK
<1>7. ~Ending /\ ~Ending'
  BY <1>3 DEF Ending
<1> DEFINE t == Task("established", c)
<1>8. t.op = "established" /\ t.conn = c /\ \A d : Task("established", d).conn = d
  BY DEF Task
<1>9. /\ ConnOK(conn'[c]) /\ conn'[c].state \in {"kConnecting", "kConnected"}
      /\ \A d \in Conns : d # c => conn'[d] = conn[d]
      /\ conn'[c].state = "kConnecting" => m # Base /\ c \notin held' /\ queue' = Push(m, "established", c)
      /\ conn'[c].state = "kConnected" => UNCHANGED queue
      /\ \A d \in Conns : d \in held' => d \in held \/ (d = c /\ ForeignCalls # 0)
  <2> DEFINE new == Constructed(conn[c])
  <2>1. CASE m = Base
    <3>1. ConnOK(ConnectEstablished(new)) /\ ConnectEstablished(new).state = "kConnected"
      BY <1>6, EstablishedOK
    <3>2. conn' = [conn EXCEPT ![c] = ConnectEstablished(new)] /\ UNCHANGED queue /\ held' = Share(c)
      BY <1>2, <2>1 DEF Accept, NewConnection
    <3> HIDE DEF new
    <3>3. conn'[c] = ConnectEstablished(new) /\ \A d \in Conns : d # c => conn'[d] = conn[d]
      BY <3>2 DEF Types
    <3>4. \A d \in Conns : d \in held' => d \in held \/ (d = c /\ ForeignCalls # 0)
      BY <3>2, ForeignCallsAssumption DEF Share
    <3> QED
      BY <3>1, <3>2, <3>3, <3>4
  <2>2. CASE m # Base
    <3>1. conn' = [conn EXCEPT ![c] = new] /\ queue' = Push(m, "established", c) /\ held' = held
      BY <1>2, <2>2 DEF Accept, NewConnection
    <3> HIDE DEF new
    <3>2. conn'[c] = new /\ \A d \in Conns : d # c => conn'[d] = conn[d]
      BY <3>1 DEF Types
    <3> QED
      BY <1>4, <1>6, <2>2, <3>1, <3>2 DEF new
  <2> QED
    BY <2>1, <2>2
<1> HIDE DEF t
<1>10. ASSUME NEW k \in Loops
       PROVE  /\ Ordered(k)'
              /\ Unrun(k) \subseteq Unrun(k)' /\ Unrun(k)' \subseteq Unrun(k) \cup {t}
              /\ TasksIn(k)' \subseteq TasksIn(k) \cup {t}
              /\ k # m \/ conn'[c].state = "kConnected" => TasksIn(k)' = TasksIn(k)
              /\ k = m /\ conn'[c].state = "kConnecting" => t \in Unrun(k)'
  <2>1. CASE conn'[c].state = "kConnected"
    <3>1. UNCHANGED <<queue, batch, pos>>
      BY <1>3, <1>9, <2>1
    <3> QED
      BY <1>5, <2>1, <3>1, NoPushStep
  <2>2. CASE conn'[c].state = "kConnecting"
    <3>1. queue' = Push(m, "established", c) /\ UNCHANGED <<batch, pos>>
      BY <1>3, <1>9, <2>2
    <3>2. "established" \in RawOps \cup {"established", "destroyed", "remove"}
      OBVIOUS
    <3>3. /\ k # m => Unrun(k)' = Unrun(k) /\ TasksIn(k)' = TasksIn(k)
          /\ k = m => Unrun(k)' = Unrun(k) \cup {t} /\ TasksIn(k)' = TasksIn(k) \cup {t}
          /\ (Ordered(k) /\ \A u \in TasksIn(m) : u.conn # c) => Ordered(k)'
      BY <3>1, <3>2, PushStep DEF t
    <3> QED
      BY <1>5, <2>2, <3>3
  <2> QED
    BY <1>9, <2>1, <2>2
<1>11. ASSUME NEW k \in Loops PROVE LoopOK(k)'
  <2>1. \A d \in Conns : Ages(conn[d], conn'[d])
    BY <1>3, <1>4, <1>9 DEF Ages, ServerInv, LifeOK, Unborn
  <2>2. \A d \in Conns : conn[d].state # "none" => ioLoop'[d] = ioLoop[d]
    BY <1>3
  <2>3. ASSUME NEW u \in TasksIn(k)' PROVE u \in TasksIn(k) \/ TaskOK(k, u)'
    <3>1. CASE u \in TasksIn(k)
      BY <3>1
    <3>2. CASE u \notin TasksIn(k)
      <4>1. u = t /\ k = m /\ conn'[c].state = "kConnecting"
        BY <1>9, <1>10, <2>3, <3>2
      <4>2. u.op = "established" /\ u.conn = c
        BY <1>8, <4>1
      <4> QED
        BY <1>3, <1>9, <4>1, <4>2 DEF TaskOK, RawOps
    <3> QED
      BY <3>1, <3>2
  <2>4. ASSUME NEW d \in Conns, Task("established", d) \in Unrun(k)'
        PROVE  conn'[d].state = "kConnecting"
    <3>1. CASE d = c
      <4>1. t \in Unrun(k)'
        BY <2>4, <3>1 DEF t
      <4>2. t \notin Unrun(k)
        BY <1>5, <1>8, TasksInIs
      <4>3. conn'[c].state # "kConnected"
        <5>1. SUFFICES ASSUME conn'[c].state = "kConnected" PROVE FALSE
          OBVIOUS
        <5>2. UNCHANGED <<queue, batch, pos>>
          BY <1>3, <1>9, <5>1
        <5> QED
          BY <4>1, <4>2, <5>2, NoPushStep
      <4> QED
        BY <1>9, <3>1, <4>3
    <3>2. CASE d # c
      <4>1. Task("established", d) \in Unrun(k)
        BY <1>8, <1>10, <2>4, <3>2
      <4> QED
        BY <1>5, <1>9, <3>2, <4>1 DEF LoopOK
    <3> QED
      BY <3>1, <3>2
  <2> QED
    BY <1>3, <1>5, <1>7, <1>10, <2>1, <2>2, <2>3, <2>4, LoopKeeps DEF LoopOK
<1>12. ASSUME NEW d \in Conns, d # c PROVE LifeOK(d)'
  BY <1>3, <1>7, <1>9, <1>10, <1>12, OtherLives
<1>13. LifeOK(c)'
  <2>1. conn'[c].state = "kConnecting" => Task("established", c) \in Unrun(ioLoop[c])'
    BY <1>3, <1>10 DEF Unrun, t
  <2> QED
    BY <1>3, <1>4, <1>9, <2>1 DEF LifeOK, Unborn
<1>14. ASSUME NEW k \in Loops PROVE ActiveOK(k)'
  <2>1. ActiveOK(k)
    BY DEF ServerInv
  <2> QED
    BY <1>3, <1>4, <1>9, <2>1 DEF ActiveOK
<1> QED
  BY <1>7, <1>11, <1>12, <1>13, <1>14 DEF ServerInv

-----------------------------------------------------------------------------
(* The invariant.                                                          *)

LEMMA StepInv == Types /\ ServerInv /\ [Next]_vars => ServerInv'
<1> SUFFICES ASSUME Types, ServerInv, [Next]_vars PROVE ServerInv'
  OBVIOUS
<1>1. CASE UNCHANGED vars
  <2>1. UNCHANGED <<conn, ioLoop, connections_, queue, batch, pos, server, lpc, held, calling>>
        /\ UNCHANGED <<active, handling>>
    BY <1>1 DEF vars, connVars, loopVars, foreignVars
  <2>2. (\A l \in Loops : LoopOK(l)') /\ (\A c \in Conns : LifeOK(c)')
    BY <2>1, QuietKeeps DEF Ending
  <2> QED
    BY <2>1, <2>2 DEF ServerInv, ActiveOK, Ending
<1>2. ASSUME NEW l \in Loops, LoopStep(l) PROVE ServerInv'
  BY <1>2, QuietSteps, PhasesKeep, RunEstablishedKeeps, RunRemoveKeeps, RunDestroyedKeeps,
     RunRawKeeps, SwapKeeps, EndBatchKeeps DEF LoopStep
<1>3. CASE Start \/ QuitBase \/ Teardown
  BY <1>3, QuietSteps, ServerDownKeeps, DestroyConnectionKeeps DEF Teardown
<1>4. ASSUME NEW c \in Conns, Accept(c) \/ Foreign(c) PROVE ServerInv'
  BY <1>4, QuietSteps, AcceptKeeps, ForeignCallKeeps DEF Foreign
<1>5. ASSUME NEW c \in Conns, NEW how \in {"fin", "rst"}, PeerCloses(c, how) PROVE ServerInv'
  BY <1>5, PeerClosesKeeps
<1> QED
  BY <1>1, <1>2, <1>3, <1>4, <1>5 DEF Next

LEMMA AlwaysServerInv == SafetySpec => [](Types /\ ServerInv)
<1>1. Init => Types /\ ServerInv
  BY InitTypes, InitInv
<1>2. Types /\ ServerInv /\ [Next]_vars => Types' /\ ServerInv'
  BY StepTypes, StepInv
<1> QED
  BY <1>1, <1>2, PTL DEF SafetySpec

-----------------------------------------------------------------------------
(* The theorems.                                                           *)

\* Every variable keeps its type: in particular no round of getNextLoop leaves
\* the loops of the pool, and no functor is taken beyond the batch.
THEOREM TypeCorrect == SafetySpec => []TypeOK
<1>1. Types /\ ServerInv => TypeOK
  <2> SUFFICES ASSUME Types, ServerInv PROVE TypeOK
    OBVIOUS
  <2>1. conn \in [Conns -> ConnType]
    BY DEF Types, ServerInv, LifeOK, ConnOK
  <2>2. \A l \in Loops : pos[l] \in 0 .. Len(batch[l])
    BY LenProperties DEF Types
  <2> QED
    BY <2>1, <2>2 DEF Types, TypeOK
<1> QED
  BY <1>1, AlwaysServerInv, PTL

\* The calls that connections make of their channels (TcpConnection.cc), in
\* any order that loops, peers and other threads produce, keep the poller's
\* marks and the kernel in agreement, and the mask current.
THEOREM PollerAlwaysConsistent == SafetySpec => []PollerConsistent
<1>1. Types /\ ServerInv => PollerConsistent
  <2> SUFFICES ASSUME Types, ServerInv PROVE PollerConsistent
    OBVIOUS
  <2> DEFINE f == [c \in Conns |-> conn[c].ch]
  <2>1. \A c \in Conns : f[c] = conn[c].ch /\ ChannelOK(conn[c].ch) /\ Fresh(conn[c].ch)
    BY DEF ServerInv, LifeOK, ConnOK, Good
  <2>2. \A ch : ChannelOK(ch) <=> Poller!ChannelOK(ch)
    BY DEF ChannelOK, Poller!ChannelOK
  <2> HIDE DEF f
  <2>3. (\A c \in Conns : Poller!ChannelOK(f[c])) /\ (\A c \in Conns : Fresh(f[c]))
    BY <2>1, <2>2
  <2> QED
    BY <2>3 DEF PollerConsistent, Poller!MarksAgreeWithKernel, Poller!MaskCurrent, Fresh, f
<1> QED
  BY <1>1, AlwaysServerInv, PTL

\* As long as the server is up, a connection that the application has not been
\* told is down is in connections_: removeConnectionInLoop erases a connection
\* only after its handleClose.
THEOREM TableHoldsTheOpen == SafetySpec => []OpenIsInTable
<1>1. Types /\ ServerInv => OpenIsInTable
  BY DEF ServerInv, LifeOK, OpenIsInTable, Ending
<1> QED
  BY <1>1, AlwaysServerInv, PTL

\* What keeps a connection that its loop is about to destroy.
LEMMA CondemnedIsHeld ==
  ASSUME Types, NEW c \in Conns, Condemned(c)
  PROVE  Held(c)
<1>1. ioLoop[c] \in Loops
  BY DEF Types
<1>2. Task("destroyed", c) \in TasksIn(ioLoop[c])
  BY <1>1, TasksInIs DEF Condemned
<1>3. Task("destroyed", c).conn = c /\ Task("destroyed", c).op \notin RawOps
  BY DEF Task, RawOps
<1> QED
  BY <1>1, <1>2, <1>3 DEF Held

\* The application is told of every connection at most once that it is up, of
\* none that it is down before, and no connection is freed without its being
\* told so, but for what ~TcpServer drops: whatever other threads call.
THEOREM AlwaysUpThenDown == SafetySpec => []UpThenDown
<1>1. Types /\ ServerInv => UpThenDown
  <2> SUFFICES ASSUME Types, ServerInv, NEW c \in Conns
               PROVE  /\ conn[c].ups <= 1
                      /\ conn[c].downs > 0 => conn[c].ups = 1
                      /\ Gone(c) => conn[c].downs > 0 \/ DownUntold(c)
    BY DEF UpThenDown
  <2>1. LifeOK(c) /\ ConnOK(conn[c]) /\ conn[c].downs \in Nat
    BY DEF ServerInv, LifeOK, ConnOK, ConnType
  <2>2. conn[c].ups <= 1 /\ (conn[c].downs > 0 => conn[c].ups = 1)
    BY <2>1 DEF ConnOK
  <2>3. ASSUME Gone(c), conn[c].downs = 0 PROVE DownUntold(c)
    <3>1. c \notin connections_ /\ ~Condemned(c) /\ conn[c].state # "none"
      BY <2>3, CondemnedIsHeld DEF Gone, Held
    <3> QED
      BY <2>1, <2>3, <3>1 DEF LifeOK, DownUntold, LoopDone, Ending
  <2> QED
    BY <2>1, <2>2, <2>3
<1> QED
  BY <1>1, AlwaysServerInv, PTL

\* When no other thread calls a connection, neither activeChannels_ nor a
\* poller in use has a pointer to the Channel of a connection that is freed.
\* (A send() of another thread that runs after connectDestroyed puts the
\* channel back into the poller: see TaskOnLiveConnection.)
THEOREM NoChannelDangles ==
  ASSUME ForeignCalls = 0
  PROVE  SafetySpec => []NoDanglingChannel
<1>1. Types /\ ServerInv => NoDanglingChannel
  <2> SUFFICES ASSUME Types, ServerInv, NEW c \in Conns, Gone(c)
               PROVE  /\ conn[c].ch.mapped => lpc[ioLoop[c]] = "done"
                      /\ \A l \in Loops : c \notin DOMAIN active[l]
    BY DEF NoDanglingChannel
  <2>1. c \notin connections_ /\ ~Condemned(c) /\ conn[c].state # "none"
    BY CondemnedIsHeld DEF Gone, Held
  <2>2. LifeOK(c) /\ conn[c].ch.mapped \in BOOLEAN
    BY DEF ServerInv, LifeOK, ConnOK, ConnType, ChannelType
  <2>3. conn[c].ch.mapped = TRUE => lpc[ioLoop[c]] = "done"
    BY <2>1, <2>2 DEF LifeOK, LoopDone
  <2>4. ASSUME NEW l \in Loops, c \in DOMAIN active[l] PROVE FALSE
    BY <2>3, <2>4 DEF ServerInv, ActiveOK
  <2> QED
    BY <2>2, <2>3, <2>4
<1> QED
  BY <1>1, AlwaysServerInv, PTL
=============================================================================
