----------------------------- MODULE TcpServer -----------------------------
(***************************************************************************)
(* TcpServer (src/src/TcpServer.cc): the base loop accepts connections and *)
(* gives each one to an io loop; establishing, closing and destroying a    *)
(* connection travels between the loops as functors that hold shared_ptrs. *)
(*                                                                         *)
(* A loop is taken at the level of TaskQueue (its functors run in order,   *)
(* and a queued functor ends its epoll_wait) with the phases of loop():    *)
(* poll, handle the active channels, run the batch.  A connection lives as *)
(* long as something holds a shared_ptr to it; that includes every functor *)
(* of a batch until the whole batch has run.                               *)
(*                                                                         *)
(* When the base loop has been quit, its thread destroys the server and    *)
(* then the base loop, as main() does, and no other thread holds a         *)
(* connection any more.                                                    *)
(***************************************************************************)
EXTENDS TcpConnection, Sequences, FiniteSets

CONSTANTS Conns,          \* the connections that clients may make
          MaxThreads,     \* bound on the number of io loops
          ForeignCalls,   \* bound on send and shutdown calls from threads that
                          \* are not loop threads
          MayStop         \* TRUE if the base loop may be quit

ASSUME MaxThreadsAssumption == MaxThreads \in Nat
ASSUME ForeignCallsAssumption == ForeignCalls \in Nat
ASSUME MayStopAssumption == MayStop \in BOOLEAN

VARIABLES
  conn,           \* connection -> its TcpConnection record
  ioLoop,         \* connection -> the loop newConnection chose for it
  numThreads_,    \* io loops in use; 0: the base loop does everything
  connections_,   \* the server's table, a set of connections
  next_,          \* the thread pool's round robin index
  server,         \* new, up (start() called), dtor (in ~TcpServer) or down
  lpc,            \* loop -> "poll", "handle", "run" or "done"
  quit,           \* loop -> its quit_
  active,         \* loop -> the activeChannels_ left: connection -> revents
  handling,       \* loop -> the connection being handled and its phases left
  queue,          \* loop -> pendingFunctors_
  batch,          \* loop -> the functors of doPendingFunctors
  pos,            \* loop -> how many of the batch have run
  held,           \* connections that a foreign thread holds a shared_ptr to
  calling,        \* ... and the call it is in the middle of, or "none"
  calls           \* foreign calls made

connVars    == <<conn, ioLoop, connections_, next_, numThreads_, server>>
loopVars    == <<lpc, quit, active, handling, batch, pos>>
foreignVars == <<held, calling, calls>>
vars == <<connVars, loopVars, queue, foreignVars>>

Base == 0
Loops == {Base} \cup 1 .. MaxThreads

Nobody == [conns |-> {}, todo |-> {}]

\* A functor: the member function and the connection it is bound to.  send and
\* shutdown are bound to the raw this, the others to a shared_ptr.
Task(op, c) == [op |-> op, conn |-> c]
RawOps == {"send", "shutdown"}
Tasks == [op : RawOps \cup {"established", "destroyed", "remove"}, conn : Conns]

TasksIn(l) == {queue[l][i] : i \in DOMAIN queue[l]} \cup {batch[l][i] : i \in DOMAIN batch[l]}

\* The shared_ptrs: the server's table, functors, the guard of handleEvent and
\* the foreign thread's copy.
Held(c) ==
  \/ c \in connections_
  \/ c \in held
  \/ \E l \in Loops : \/ c \in handling[l].conns
                      \/ \E t \in TasksIn(l) : t.conn = c /\ t.op \notin RawOps

Alive(c) == conn[c].state # "none" /\ Held(c)

Init ==
  /\ conn = [c \in Conns |-> NoConn]
  /\ ioLoop = [c \in Conns |-> Base]
  /\ connections_ = {}
  /\ numThreads_ \in 0 .. MaxThreads       \* setThreadNum, before start()
  /\ next_ = 0
  /\ server = "new"
  /\ lpc = [l \in Loops |-> "poll"]
  /\ quit = [l \in Loops |-> FALSE]
  /\ active = [l \in Loops |-> <<>>]
  /\ handling = [l \in Loops |-> Nobody]
  /\ queue = [l \in Loops |-> <<>>]
  /\ batch = [l \in Loops |-> <<>>]
  /\ pos = [l \in Loops |-> 0]
  /\ held = {}
  /\ calling = [c \in Conns |-> "none"]
  /\ calls = 0

Push(l, op, c) == [queue EXCEPT ![l] = Append(@, Task(op, c))]

-----------------------------------------------------------------------------
(* The kernel and the peers (external).                                    *)

\* A peer closes or resets a connection that has been accepted.
PeerCloses(c, how) ==
  /\ conn[c].state # "none"
  /\ conn[c].sock = "open" \/ (conn[c].sock = "fin" /\ how = "rst")
  /\ conn' = [conn EXCEPT ![c].sock = how, ![c].soerr = (how = "rst")]
  /\ UNCHANGED <<ioLoop, connections_, next_, numThreads_, server, queue>>
  /\ UNCHANGED loopVars
  /\ UNCHANGED foreignVars

\* The clients that wait at the listening socket.
Incoming == {c \in Conns : server = "up" /\ conn[c].state = "none"}

\* The registered connections of a loop.  Closing a socket takes it out of the
\* epoll set, so a connection that is gone is not among them.
Polled(l) == {c \in Conns : ioLoop[c] = l /\ Alive(c) /\ conn[c].ch.registered}

\* Those with an event that stays until it is handled.
MustReport(l) == {c \in Polled(l) : {} \notin Revents(conn[c])}

\* Mutant: quit() does not wake the loop.
WokenByFunctors(l) == queue[l] # <<>>

\* The eventfd is readable: a functor has been queued or quit_ set.
Woken(l) == queue[l] # <<>> \/ quit[l]

\* epoll_wait returns: for a channel event, a wakeup or, on the base loop, a
\* client that connects.
Poll(l) ==
  /\ lpc[l] = "poll"
  /\ \E who \in {MustReport(l) \cup s : s \in SUBSET Polled(l)} :
     \E revents \in [who -> SUBSET {"IN", "OUT", "HUP", "ERR"}] :
       /\ \A c \in who : revents[c] \in Revents(conn[c]) \ {{}}
       /\ who # {} \/ Woken(l) \/ (l = Base /\ Incoming # {})
       /\ active' = [active EXCEPT ![l] = revents]
  /\ lpc' = [lpc EXCEPT ![l] = "handle"]
  /\ UNCHANGED <<quit, handling, batch, pos, queue>>
  /\ UNCHANGED connVars
  /\ UNCHANGED foreignVars

-----------------------------------------------------------------------------
(* The handle phase.                                                       *)

Idle(l) == lpc[l] = "handle" /\ handling[l] = Nobody

\* EventLoopThreadPool::getNextLoop.
NextLoop == IF numThreads_ = 0 THEN Base ELSE next_ + 1
AdvanceNext ==
  next_' = IF numThreads_ = 0 \/ next_ + 1 >= numThreads_ THEN 0 ELSE next_ + 1

\* The application gives foreign threads a shared_ptr in its connection
\* callback, but for the connections that ~TcpServer finds.
Share(c) == IF ForeignCalls > 0 /\ server = "up" THEN held \cup {c} ELSE held

\* TcpServer::newConnection: the connection is put into the table and
\* connectEstablished is run in its loop, at once if that is the base loop.
NewConnection(c) ==
  /\ AdvanceNext
  /\ ioLoop' = [ioLoop EXCEPT ![c] = NextLoop]
  /\ connections_' = connections_ \cup {c}
  /\ LET new == Constructed(conn[c])
     IN  IF NextLoop = Base
           THEN /\ conn' = [conn EXCEPT ![c] = ConnectEstablished(new)]
                /\ UNCHANGED queue
           ELSE /\ conn' = [conn EXCEPT ![c] = new]
                /\ queue' = Push(NextLoop, "established", c)
  /\ held' = IF NextLoop = Base THEN Share(c) ELSE held
  /\ UNCHANGED <<numThreads_, server, calling, calls>>
  /\ UNCHANGED loopVars

\* Acceptor::handleRead accepts the clients that are waiting one after another.
Accept(c) ==
  /\ Idle(Base)
  /\ c \in Incoming
  /\ NewConnection(c)

\* Channel::handleEvent: the guard is taken, the phases are fixed by revents_.
HandleEvent(l, c) ==
  /\ Idle(l)
  /\ c \in DOMAIN active[l]
  /\ handling' = [handling EXCEPT ![l] = [conns |-> {c}, todo |-> Phases(active[l][c])]]
  /\ active' = [active EXCEPT ![l] = [d \in DOMAIN @ \ {c} |-> @[d]]]
  /\ UNCHANGED <<lpc, quit, batch, pos, queue>>
  /\ UNCHANGED connVars
  /\ UNCHANGED foreignVars

\* A phase runs after the earlier ones.
Earlier == [close |-> {}, error |-> {"close"}, read |-> {"close", "error"},
            write |-> {"close", "error", "read"}]

TakePhase(l, c, phase) ==
  /\ c \in handling[l].conns
  /\ phase \in handling[l].todo
  /\ handling[l].todo \cap Earlier[phase] = {}
  /\ handling' = [handling EXCEPT ![l].todo = @ \ {phase}]
  /\ UNCHANGED <<lpc, quit, active, batch, pos>>
  /\ UNCHANGED foreignVars
  /\ UNCHANGED <<ioLoop, next_, numThreads_, server>>

\* Mutant: the connection is erased and connectDestroyed is forgotten.
RemoveConnectionOnly(c) ==
  /\ connections_' = connections_ \ {c}
  /\ UNCHANGED queue

\* TcpServer::removeConnectionInLoop.
RemoveConnectionInLoop(c) ==
  /\ connections_' = connections_ \ {c}
  /\ queue' = Push(ioLoop[c], "destroyed", c)

\* closeCallback_, TcpServer::removeConnection: removeConnectionInLoop is run
\* in the base loop, at once if this is the base loop.
RemoveConnection(l, c) ==
  IF l = Base
    THEN RemoveConnectionInLoop(c)
    ELSE /\ queue' = Push(Base, "remove", c)
         /\ UNCHANGED connections_

HandleClosePhase(l, c) ==
  /\ TakePhase(l, c, "close")
  /\ conn' = [conn EXCEPT ![c] = HandleClose(@)]
  /\ RemoveConnection(l, c)

HandleErrorPhase(l, c) ==
  /\ TakePhase(l, c, "error")
  /\ conn' = [conn EXCEPT ![c] = HandleError(@)]
  /\ RemoveConnection(l, c)

HandleReadPhase(l, c) ==
  /\ TakePhase(l, c, "read")
  /\ \E r \in HandleRead(conn[c]) :
       /\ conn' = [conn EXCEPT ![c] = r]
       /\ IF r.state = "kDisconnected"       \* handleClose was called
            THEN RemoveConnection(l, c)
            ELSE UNCHANGED <<connections_, queue>>

HandleWritePhase(l, c) ==
  /\ TakePhase(l, c, "write")
  /\ \E r \in HandleWrite(conn[c]) : conn' = [conn EXCEPT ![c] = r]
  /\ UNCHANGED <<connections_, queue>>

\* handleEvent returns and the guard goes out of scope.
HandleEventReturns(l) ==
  /\ handling[l] # Nobody
  /\ handling[l].todo = {}
  /\ handling' = [handling EXCEPT ![l] = Nobody]
  /\ UNCHANGED <<lpc, quit, active, batch, pos, queue>>
  /\ UNCHANGED connVars
  /\ UNCHANGED foreignVars

-----------------------------------------------------------------------------
(* doPendingFunctors.                                                      *)

SwapFunctors(l) ==
  /\ Idle(l)
  /\ active[l] = <<>>
  /\ batch' = [batch EXCEPT ![l] = queue[l]]
  /\ queue' = [queue EXCEPT ![l] = <<>>]
  /\ pos' = [pos EXCEPT ![l] = 0]
  /\ lpc' = [lpc EXCEPT ![l] = "run"]
  /\ UNCHANGED <<quit, active, handling>>
  /\ UNCHANGED connVars
  /\ UNCHANGED foreignVars

\* The next functor of the batch is one of these.
Running(l, op, c) ==
  /\ lpc[l] = "run"
  /\ pos[l] < Len(batch[l])
  /\ batch[l][pos[l] + 1] = Task(op, c)
  /\ pos' = [pos EXCEPT ![l] = @ + 1]
  /\ UNCHANGED <<lpc, quit, active, handling, batch, ioLoop, next_, numThreads_, server>>

RunEstablished(l, c) ==
  /\ Running(l, "established", c)
  /\ conn' = [conn EXCEPT ![c] = ConnectEstablished(@)]
  /\ held' = Share(c)
  /\ UNCHANGED <<connections_, queue, calling, calls>>

RunRemove(l, c) ==
  /\ Running(l, "remove", c)
  /\ RemoveConnectionInLoop(c)
  /\ UNCHANGED conn
  /\ UNCHANGED foreignVars

RunDestroyed(l, c) ==
  /\ Running(l, "destroyed", c)
  /\ conn' = [conn EXCEPT ![c] = ConnectDestroyed(@)]
  /\ UNCHANGED <<connections_, queue>>
  /\ UNCHANGED foreignVars

\* A functor bound to the raw this.  On a connection that is gone nothing more
\* is said of what it does; TaskOnLiveConnection is about that.
RunRaw(l, c) ==
  /\ \/ /\ Running(l, "send", c)
        /\ \E r \in SendInLoop(conn[c]) :
             conn' = IF Alive(c) THEN [conn EXCEPT ![c] = r] ELSE conn
     \/ /\ Running(l, "shutdown", c)
        /\ conn' = IF Alive(c) THEN [conn EXCEPT ![c] = ShutdownInLoop(@)] ELSE conn
  /\ UNCHANGED <<connections_, queue>>
  /\ UNCHANGED foreignVars

\* doPendingFunctors returns: the functors and their shared_ptrs are destroyed.
\* If quit_ is set loop() returns, too, and an io loop, being on its thread's
\* stack, is destroyed with the functors that are still queued.
EndBatch(l) ==
  /\ lpc[l] = "run"
  /\ pos[l] = Len(batch[l])
  /\ batch' = [batch EXCEPT ![l] = <<>>]
  /\ pos' = [pos EXCEPT ![l] = 0]
  /\ lpc' = [lpc EXCEPT ![l] = IF quit[l] THEN "done" ELSE "poll"]
  /\ queue' = IF quit[l] /\ l # Base THEN [queue EXCEPT ![l] = <<>>] ELSE queue
  /\ UNCHANGED <<quit, active, handling>>
  /\ UNCHANGED connVars
  /\ UNCHANGED foreignVars

-----------------------------------------------------------------------------
(* A foreign thread with a shared_ptr.                                     *)

\* send() or shutdown(): the test of state_ ...
ForeignTest(c, op) ==
  /\ c \in held
  /\ calling[c] = "none"
  /\ calls < ForeignCalls
  /\ conn[c].state = "kConnected"
  /\ calling' = [calling EXCEPT ![c] = op]
  /\ calls' = calls + 1
  /\ UNCHANGED <<held, queue>>
  /\ UNCHANGED connVars
  /\ UNCHANGED loopVars

\* ... and runInLoop, which shutdown() does after its store.
ForeignCall(c) ==
  /\ calling[c] # "none"
  /\ queue' = Push(ioLoop[c], calling[c], c)
  /\ conn' = IF calling[c] = "shutdown"
               THEN [conn EXCEPT ![c].state = "kDisconnecting"]
               ELSE conn
  /\ calling' = [calling EXCEPT ![c] = "none"]
  /\ UNCHANGED <<ioLoop, connections_, next_, numThreads_, server, held, calls>>
  /\ UNCHANGED loopVars

ForeignRelease(c) ==
  /\ c \in held
  /\ calling[c] = "none"
  /\ held' = held \ {c}
  /\ UNCHANGED <<calling, calls, queue>>
  /\ UNCHANGED connVars
  /\ UNCHANGED loopVars

-----------------------------------------------------------------------------
(* The start and the end of the server, on the base loop's thread.         *)

\* start(): started_ lets the first call through; the thread pool starts the io
\* loops and the Acceptor listens.
Start ==
  /\ server = "new"
  /\ server' = "up"
  /\ UNCHANGED <<conn, ioLoop, connections_, next_, numThreads_, queue>>
  /\ UNCHANGED loopVars
  /\ UNCHANGED foreignVars

\* quit() of the base loop, by whichever thread.
QuitBase ==
  /\ MayStop
  /\ server = "up"
  /\ ~quit[Base]
  /\ quit' = [quit EXCEPT ![Base] = TRUE]
  /\ UNCHANGED <<lpc, active, handling, batch, pos, queue>>
  /\ UNCHANGED connVars
  /\ UNCHANGED foreignVars

\* loop() has returned to main(), which ends: ~TcpServer.
DestroyServer ==
  /\ server = "up"
  /\ lpc[Base] = "done"
  /\ held = {}
  /\ server' = "dtor"
  /\ UNCHANGED <<conn, ioLoop, connections_, next_, numThreads_, queue>>
  /\ UNCHANGED loopVars
  /\ UNCHANGED foreignVars

\* One round of its for: the table's shared_ptr is given to connectDestroyed,
\* which is run in the connection's loop, at once if that is the base loop.
DestroyConnection(c) ==
  /\ server = "dtor"
  /\ c \in connections_
  /\ connections_' = connections_ \ {c}
  /\ IF ioLoop[c] = Base
       THEN /\ conn' = [conn EXCEPT ![c] = ConnectDestroyed(@)]
            /\ UNCHANGED queue
       ELSE /\ queue' = Push(ioLoop[c], "destroyed", c)
            /\ UNCHANGED conn
  /\ UNCHANGED <<ioLoop, next_, numThreads_, server>>
  /\ UNCHANGED loopVars
  /\ UNCHANGED foreignVars

\* The thread pool is destroyed: each EventLoopThread in turn quits its loop
\* and joins its thread.
QuitLoop(l) ==
  /\ server = "dtor"
  /\ connections_ = {}
  /\ l \in 1 .. numThreads_
  /\ \A k \in 1 .. l - 1 : lpc[k] = "done"
  /\ ~quit[l]
  /\ quit' = [quit EXCEPT ![l] = TRUE]
  /\ UNCHANGED <<lpc, active, handling, batch, pos, queue>>
  /\ UNCHANGED connVars
  /\ UNCHANGED foreignVars

\* The last join has returned; the base loop follows the server, with the
\* functors still queued in it.
ServerDown ==
  /\ server = "dtor"
  /\ connections_ = {}
  /\ \A l \in 1 .. numThreads_ : lpc[l] = "done"
  /\ server' = "down"
  /\ queue' = [queue EXCEPT ![Base] = <<>>]
  /\ UNCHANGED <<conn, ioLoop, connections_, next_, numThreads_>>
  /\ UNCHANGED loopVars
  /\ UNCHANGED foreignVars

-----------------------------------------------------------------------------

LoopStep(l) ==
  \/ Poll(l)
  \/ \E c \in Conns :
       \/ HandleEvent(l, c)
       \/ HandleClosePhase(l, c)
       \/ HandleErrorPhase(l, c)
       \/ HandleReadPhase(l, c)
       \/ HandleWritePhase(l, c)
       \/ RunEstablished(l, c)
       \/ RunRemove(l, c)
       \/ RunDestroyed(l, c)
       \/ RunRaw(l, c)
  \/ HandleEventReturns(l)
  \/ SwapFunctors(l)
  \/ EndBatch(l)

Foreign(c) ==
  (\E op \in RawOps : ForeignTest(c, op)) \/ ForeignCall(c) \/ ForeignRelease(c)

Teardown ==
  \/ DestroyServer \/ ServerDown
  \/ \E c \in Conns : DestroyConnection(c)
  \/ \E l \in Loops : QuitLoop(l)

Next ==
  \/ \E l \in Loops : LoopStep(l)
  \/ Start \/ QuitBase \/ Teardown
  \/ \E c \in Conns : Accept(c) \/ Foreign(c)
  \/ \E c \in Conns, how \in {"fin", "rst"} : PeerCloses(c, how)

\* Every loop thread runs, and so does the base loop's after its loop().
\* Clients and peers do as they like.
Fairness == WF_vars(Teardown) /\ \A l \in Loops : WF_vars(LoopStep(l))

SafetySpec == Init /\ [][Next]_vars

Spec == SafetySpec /\ Fairness

-----------------------------------------------------------------------------
(* Properties.                                                             *)

TypeOK ==
  /\ conn \in [Conns -> ConnType]
  /\ ioLoop \in [Conns -> Loops]
  /\ connections_ \subseteq Conns
  /\ numThreads_ \in 0 .. MaxThreads
  /\ next_ \in Nat
  /\ server \in {"new", "up", "dtor", "down"}
  /\ quit \in [Loops -> BOOLEAN]
  /\ lpc \in [Loops -> {"poll", "handle", "run", "done"}]
  /\ \A l \in Loops : /\ DOMAIN active[l] \subseteq Conns
                      /\ handling[l].conns \subseteq Conns
                      /\ handling[l].todo \subseteq DOMAIN Earlier
                      /\ queue[l] \in Seq(Tasks)
                      /\ batch[l] \in Seq(Tasks)
                      /\ pos[l] \in 0 .. Len(batch[l])
  /\ held \subseteq Conns
  /\ calling \in [Conns -> RawOps \cup {"none"}]
  /\ calls \in 0 .. ForeignCalls

Gone(c) == conn[c].state # "none" /\ ~Held(c)

\* A raw Channel pointer never outlives the connection that owns the Channel:
\* neither in activeChannels_, where an earlier handler of the same round could
\* have freed it, nor in the poller's channels_ as long as the poller is used.
NoDanglingChannel ==
  \A c \in Conns :
    Gone(c) => /\ conn[c].ch.mapped => lpc[ioLoop[c]] = "done"
               /\ \A l \in Loops : c \notin DOMAIN active[l]

\* The channels of all loops' pollers.
Poller == INSTANCE EPollPoller WITH Fds <- Conns, channel <- [c \in Conns |-> conn[c].ch]

\* The calls the connections make of their channels, a second handleClose of
\* one event and connectDestroyed included, keep index_, channels_ and the
\* kernel's epoll set in agreement: no epoll_ctl can fail, and the kernel
\* reports what a connection has asked for last.
PollerConsistent == Poller!MarksAgreeWithKernel /\ Poller!MaskCurrent

\* What the end of the server may drop: connectDestroyed tells nobody of a
\* connection that is calling down, and does not run at all in an io loop that
\* leaves loop() first.
DownUntold(c) ==
  /\ server \in {"dtor", "down"}
  /\ \/ conn[c].state = "kDisconnecting"
     \/ ioLoop[c] # Base /\ lpc[ioLoop[c]] = "done"

\* Every connection is announced once, before anything else is said of it, and
\* no connection is freed without the application having been told it is down,
\* but for what ~TcpServer drops.
UpThenDown ==
  \A c \in Conns : /\ conn[c].ups <= 1
                   /\ conn[c].downs > 0 => conn[c].ups = 1
                   /\ Gone(c) => conn[c].downs > 0 \/ DownUntold(c)

\* A connection that the application has not been told is down is in the
\* server's table, so ~TcpServer reaches it.
OpenIsInTable ==
  \A c \in Conns :
    server = "up" /\ conn[c].state # "none" /\ conn[c].downs = 0 => c \in connections_

\* A connection whose peer has gone is freed, unless a foreign thread keeps its
\* shared_ptr: the close reaches the base loop, comes back, and no shared_ptr of
\* the server's own is left over, the base loop's end or not.
PeerGoneIsFreed ==
  \A c \in Conns : conn[c].sock # "open" ~> Gone(c) \/ c \in held

\* Quitting the base loop ends the server: every io loop wakes up and leaves,
\* so every join returns, and no connection is left.
StopEnds ==
  quit[Base] ~> held # {} \/ (server = "down" /\ \A c \in Conns : ~Alive(c))

\* The comment in newConnection (TcpServer.cc:119): a functor must not carry a
\* raw pointer, because another thread may destroy the connection before it
\* runs.  Then every functor finds its connection alive.
TaskOnLiveConnection ==
  \A l \in Loops : lpc[l] = "run" /\ pos[l] < Len(batch[l])
                     => Alive(batch[l][pos[l] + 1].conn)

\* The comment and the log line in sendInLoop (TcpConnection.cc:243-246): a
\* disconnected connection cannot send any more, so it gives up writing.  Then
\* the channel of a disconnected connection asks for nothing.
GivesUpWhenDisconnected ==
  \A c \in Conns : conn[c].state = "kDisconnected" => ~IsWriting(conn[c].ch)
=============================================================================
