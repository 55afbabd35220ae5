-------------------------- MODULE EventLoopThread --------------------------
(***************************************************************************)
(* EventLoopThread (src/src/EventLoopThread.cc) around one EventLoop: the  *)
(* owner starts a child thread, waits until the child has published its    *)
(* EventLoop, uses it, and in the destructor tells it to quit and joins.   *)
(* The child runs EventLoop's loop on its own stack.                       *)
(***************************************************************************)
EXTENDS EventLoop

CONSTANT Owner      \* the thread that constructs and destroys the object

ASSUME OwnerAssumption == Owner \in Threads

VARIABLES
  loop_,    \* the member loop_ is not nullptr (mutex_ protects it)
  owner,    \* the owner: see OwnerPCs
  child     \* the child thread: see ChildPCs

threadVars == <<loop_, owner, child>>
allVars == <<vars, threadVars>>

\* new: constructed.  starting: in sem_wait of Thread::start.  waiting: in
\* cond_.wait of startLoop.  using: startLoop has returned.  quit, join: in the
\* destructor after it has read loop_ # nullptr.  destroyed: destructor done.
OwnerPCs == {"new", "starting", "waiting", "using", "quit", "join", "destroyed"}

\* spawned: before sem_post.  construct: EventLoop's constructor and callback_.
\* publish: before the lock.  looping: in loop.loop().  cleared: loop_ is null
\* again, the EventLoop still exists.  exited: threadFunc has returned.
ChildPCs == {"none", "spawned", "construct", "publish", "looping", "cleared", "exited"}

ThreadInit ==
  /\ Init
  /\ loop_ = FALSE
  /\ owner = "new"
  /\ child = "none"

\* Thread::start: the std::thread is created ...
Start ==
  /\ owner = "new"
  /\ owner' = "starting"
  /\ child' = "spawned"
  /\ UNCHANGED <<vars, loop_>>

\* ... and the parent waits for the child's sem_post.
StartReturns ==
  /\ owner = "starting"
  /\ child # "spawned"
  /\ owner' = "waiting"
  /\ UNCHANGED <<vars, loop_, child>>

SemPost ==
  /\ child = "spawned"
  /\ child' = "construct"
  /\ UNCHANGED <<vars, loop_, owner>>

\* EventLoop loop; callback_(&loop).
Construct ==
  /\ child = "construct"
  /\ child' = "publish"
  /\ UNCHANGED <<vars, loop_, owner>>

\* Under mutex_: loop_ = &loop; notify_one.
Publish ==
  /\ child = "publish"
  /\ child' = "looping"
  /\ loop_' = TRUE
  /\ UNCHANGED <<vars, owner>>

\* Mutant: startLoop does not wait for the predicate.
StartLoopReturnsEarly ==
  /\ owner = "waiting"
  /\ owner' = "using"
  /\ UNCHANGED <<vars, loop_, child>>

\* startLoop returns when the predicate loop_ != nullptr holds.
StartLoopReturns ==
  /\ owner = "waiting"
  /\ loop_
  /\ owner' = "using"
  /\ UNCHANGED <<vars, loop_, child>>

\* The owner and other threads hand functors to the loop, or quit it, while the
\* owner is not destroying it and the loop exists.
Use(t) ==
  /\ owner = "using"
  /\ child = "looping"
  /\ Calls(t)
  /\ UNCHANGED threadVars

\* So do the functors and callbacks of the loop's own thread, and callback_.
UseInLoop ==
  /\ child = IF pc = "ready" THEN "construct" ELSE "looping"
  /\ Calls(LoopThread)
  /\ UNCHANGED threadVars

FinishCall(t) ==
  /\ Wakeups(t)
  /\ UNCHANGED threadVars

\* ~EventLoopThread reads loop_ without the lock, with nobody else using the
\* loop any more.  A null loop_ leaves the thread to ~Thread, which detaches it.
Destroy ==
  /\ \/ owner = "new"
     \/ owner = "using" /\ \A t \in Threads : call[t] = "idle"
  /\ owner' = IF loop_ THEN "quit" ELSE "destroyed"
  /\ UNCHANGED <<vars, loop_, child>>

\* loop_->quit(), its wakeup being the owner's FinishCall.
DestroyQuit ==
  /\ owner = "quit"
  /\ Quit(Owner)
  /\ owner' = "join"
  /\ UNCHANGED <<loop_, child>>

\* thread_.join()
Join ==
  /\ owner = "join"
  /\ call[Owner] = "idle"
  /\ child = "exited"
  /\ owner' = "destroyed"
  /\ UNCHANGED <<vars, loop_, child>>

\* loop.loop() on the child.
ChildLoop(step) ==
  /\ child = "looping"
  /\ step
  /\ UNCHANGED threadVars

\* loop() has returned; under mutex_: loop_ = nullptr.
ClearLoop ==
  /\ child = "looping"
  /\ pc = "done"
  /\ child' = "cleared"
  /\ loop_' = FALSE
  /\ UNCHANGED <<vars, owner>>

\* threadFunc returns: the EventLoop on its stack is destroyed.
ThreadFuncReturns ==
  /\ child = "cleared"
  /\ child' = "exited"
  /\ UNCHANGED <<vars, loop_, owner>>

ChildSteps ==
  SemPost \/ Construct \/ Publish \/ ChildLoop(LoopSteps) \/ ClearLoop \/ ThreadFuncReturns

OwnerSteps == StartReturns \/ StartLoopReturns \/ DestroyQuit \/ Join

ThreadNext ==
  \/ Start \/ Destroy \/ OwnerSteps \/ ChildSteps
  \/ ChildLoop(ReturnFromCallback) \/ ChildLoop(ReturnFromFunctor)
  \/ ChildLoop(PollInterrupted) \/ ChildLoop(IoEvent)
  \/ UseInLoop
  \/ \E t \in Threads : Use(t)
  \/ \E t \in Callers : FinishCall(t)

\* The scheduler runs every runnable thread.  User code returns to the loop:
\* strong, because a callback that makes calls is not at its end all the time.
ThreadFairness ==
  /\ WF_allVars(ChildSteps)
  /\ WF_allVars(OwnerSteps)
  /\ SF_allVars(ChildLoop(ReturnFromCallback))
  /\ SF_allVars(ChildLoop(ReturnFromFunctor))
  /\ \A t \in Callers : WF_allVars(FinishCall(t))

ThreadSpec == ThreadInit /\ [][ThreadNext]_allVars /\ ThreadFairness

-----------------------------------------------------------------------------
(* Properties.                                                             *)

\* startLoop hands out a loop that has been constructed and published, and
\* until somebody quits it the loop stays alive for everybody who uses it.
LoopAliveInUse ==
  (owner = "using" \/ \E t \in Threads : call[t] = "queued") /\ ~quit_
    => loop_ /\ child = "looping"

\* The comment on quit() (EventLoop.cc:109-111): another thread's quit wakes
\* the loop out of epoll_wait, so that it is not blocked for ever and loop()
\* completes.  Then the destructor's join ends.
DestroyTerminates == owner = "quit" ~> owner = "destroyed"
=============================================================================
