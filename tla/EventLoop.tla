----------------------------- MODULE EventLoop -----------------------------
(***************************************************************************)
(* One EventLoop (src/src/EventLoop.cc): the reactor's loop thread, its    *)
(* queue of functors, and the threads that hand it work.                   *)
(*                                                                         *)
(* loop() blocks in epoll_wait without a timeout (kPollTimeMs = -1), so a  *)
(* functor that is queued without a wakeup waits for an unrelated event.   *)
(* A critical section of mutex_ is one step; everything a thread does      *)
(* outside the lock (the wakeup that follows the push, the store of quit_  *)
(* and its wakeup) is a step of its own.  User code, that is I/O callbacks,*)
(* functors and the thread-init callback, is an interval in which the loop *)
(* thread may call back into the loop any number of times.                 *)
(***************************************************************************)
EXTENDS Naturals, Sequences, FiniteSets

CONSTANTS Threads,        \* the threads other than the loop's own
          LoopThread,     \* the thread that constructed the EventLoop
          Functors,       \* the callbacks that are handed to the loop
          MaxQueued,      \* bound on the number of queueInLoop calls
          InitCallback    \* TRUE if code run by the loop thread before loop()
                          \* (ThreadInitCallback) calls queueInLoop or quit

ASSUME LoopThreadAssumption == LoopThread \notin Threads
ASSUME MaxQueuedAssumption  == MaxQueued \in Nat
ASSUME InitCallbackAssumption == InitCallback \in BOOLEAN

VARIABLES
  pc,                       \* where the loop thread is, see PCs
  quit_,
  callingPendingFunctors_,
  pendingFunctors_,         \* the queue that mutex_ protects
  functors,                 \* the local batch of doPendingFunctors
  wakeupFd_,                \* the eventfd's counter is not zero (readable)
  ioReady,                  \* some other descriptor of the poller is ready
  activeChannels_,          \* what epoll_wait reported, still to be handled
  call,                     \* per thread: the API call it is in the middle of
  submitted,                \* history: functors passed to queueInLoop
  executed                  \* history: functors taken from the batch and run

vars == <<pc, quit_, callingPendingFunctors_, pendingFunctors_, functors,
          wakeupFd_, ioReady, activeChannels_, call, submitted, executed>>

queueVars == <<callingPendingFunctors_, pendingFunctors_, functors, executed>>
pollVars  == <<wakeupFd_, ioReady, activeChannels_>>

Callers == Threads \cup {LoopThread}
Channels == {"wakeup", "io"}

\* ready: constructed, loop() not yet entered.  check: the while condition.
\* poll: in epoll_wait.  handle: the for over activeChannels_.  callback: in
\* an I/O callback.  swap: doPendingFunctors before its lock.  run: its for.
\* body: in a functor.  done: loop() has returned.
PCs == {"ready", "check", "poll", "handle", "callback", "swap", "run", "body", "done"}

InLoopThread(t) == t = LoopThread

Init ==
  /\ pc = "ready"
  /\ quit_ = FALSE
  /\ callingPendingFunctors_ = FALSE
  /\ pendingFunctors_ = <<>>
  /\ functors = <<>>
  /\ wakeupFd_ = FALSE
  /\ ioReady = FALSE
  /\ activeChannels_ = {}
  /\ call = [t \in Callers |-> "idle"]
  /\ submitted = <<>>
  /\ executed = <<>>

-----------------------------------------------------------------------------
(* Calls from any thread.                                                  *)

\* The loop's own thread calls only from user code that the loop runs.
CanCall(t) ==
  /\ call[t] = "idle"
  /\ InLoopThread(t) => \/ pc \in {"callback", "body"}
                        \/ pc = "ready" /\ InitCallback

\* wakeup() adds one to the eventfd's counter.
WakeupIf(needed) == wakeupFd_' = (wakeupFd_ \/ needed)

\* queueInLoop up to the unlock: the push.
QueueInLoop(t, f) ==
  /\ CanCall(t)
  /\ Len(submitted) < MaxQueued
  /\ pendingFunctors_' = Append(pendingFunctors_, f)
  /\ submitted' = Append(submitted, f)
  /\ call' = [call EXCEPT ![t] = "queued"]
  /\ UNCHANGED <<pc, quit_, callingPendingFunctors_, functors, executed>>
  /\ UNCHANGED pollVars

\* Mutant: queueInLoop wakes the loop only for other threads.
WakeupQueuedForeignOnly(t) ==
  /\ call[t] = "queued"
  /\ WakeupIf(~InLoopThread(t))
  /\ call' = [call EXCEPT ![t] = "idle"]
  /\ UNCHANGED <<pc, quit_, ioReady, activeChannels_, submitted>>
  /\ UNCHANGED queueVars

\* queueInLoop after the unlock: wakeup() unless the caller is the loop's
\* thread outside doPendingFunctors.
WakeupQueued(t) ==
  /\ call[t] = "queued"
  /\ WakeupIf(~InLoopThread(t) \/ callingPendingFunctors_)
  /\ call' = [call EXCEPT ![t] = "idle"]
  /\ UNCHANGED <<pc, quit_, ioReady, activeChannels_, submitted>>
  /\ UNCHANGED queueVars

\* runInLoop: another thread's callback is queued.  On the loop's thread the
\* callback runs inside its caller, which is user code already.
RunInLoop(t, f) ==
  /\ ~InLoopThread(t)
  /\ QueueInLoop(t, f)

\* quit(): the store of quit_ ...
Quit(t) ==
  /\ CanCall(t)
  /\ quit_' = TRUE
  /\ call' = [call EXCEPT ![t] = "quitting"]
  /\ UNCHANGED <<pc, submitted>>
  /\ UNCHANGED queueVars
  /\ UNCHANGED pollVars

\* Mutant: quit() only stores quit_.
WakeupQuitMissing(t) ==
  /\ call[t] = "quitting"
  /\ call' = [call EXCEPT ![t] = "idle"]
  /\ UNCHANGED <<pc, quit_, submitted>>
  /\ UNCHANGED queueVars
  /\ UNCHANGED pollVars

\* ... and the wakeup that follows it on other threads.
WakeupQuit(t) ==
  /\ call[t] = "quitting"
  /\ WakeupIf(~InLoopThread(t))
  /\ call' = [call EXCEPT ![t] = "idle"]
  /\ UNCHANGED <<pc, quit_, ioReady, activeChannels_, submitted>>
  /\ UNCHANGED queueVars

-----------------------------------------------------------------------------
(* The loop thread.                                                        *)

\* The loop thread moves on only when it is not inside an API call.
Step(from, to) ==
  /\ pc = from
  /\ call[LoopThread] = "idle"
  /\ pc' = to

\* loop() up to the while: looping_ is set, quit_ is reset.
StartLoop ==
  /\ Step("ready", "check")
  /\ quit_' = FALSE
  /\ UNCHANGED <<call, submitted>>
  /\ UNCHANGED queueVars
  /\ UNCHANGED pollVars

\* while (!quit_)
CheckQuit ==
  /\ Step("check", IF quit_ THEN "done" ELSE "poll")
  /\ UNCHANGED <<quit_, call, submitted>>
  /\ UNCHANGED queueVars
  /\ UNCHANGED pollVars

\* The channels epoll_wait finds ready.
Ready == {c \in Channels : IF c = "wakeup" THEN wakeupFd_ ELSE ioReady}

\* epoll_wait returns some of the ready channels (revents_ has room for a
\* limited number); it blocks while there is none.
Poll ==
  /\ Step("poll", "handle")
  /\ activeChannels_' \in SUBSET Ready \ {{}}
  /\ UNCHANGED <<quit_, wakeupFd_, ioReady, call, submitted>>
  /\ UNCHANGED queueVars

\* epoll_wait fails with EINTR: no channel is active.
PollInterrupted ==
  /\ Step("poll", "handle")
  /\ activeChannels_' = {}
  /\ UNCHANGED <<quit_, wakeupFd_, ioReady, call, submitted>>
  /\ UNCHANGED queueVars

\* wakeupChannel_'s read callback: reading the eventfd resets its counter.
HandleRead ==
  /\ Step("handle", "handle")
  /\ "wakeup" \in activeChannels_
  /\ wakeupFd_' = FALSE
  /\ activeChannels_' = activeChannels_ \ {"wakeup"}
  /\ UNCHANGED <<quit_, ioReady, call, submitted>>
  /\ UNCHANGED queueVars

\* Another channel's handleEvent begins; the descriptor is drained.
HandleEvent ==
  /\ Step("handle", "callback")
  /\ "io" \in activeChannels_
  /\ ioReady' = FALSE
  /\ activeChannels_' = activeChannels_ \ {"io"}
  /\ UNCHANGED <<quit_, wakeupFd_, call, submitted>>
  /\ UNCHANGED queueVars

ReturnFromCallback ==
  /\ Step("callback", "handle")
  /\ UNCHANGED <<quit_, call, submitted>>
  /\ UNCHANGED queueVars
  /\ UNCHANGED pollVars

\* doPendingFunctors is entered when every active channel has been handled.
EnterDoPendingFunctors ==
  /\ Step("handle", "swap")
  /\ activeChannels_ = {}
  /\ callingPendingFunctors_' = TRUE
  /\ UNCHANGED <<quit_, pendingFunctors_, functors, executed, call, submitted>>
  /\ UNCHANGED pollVars

\* Mutant: the batch is copied, the queue is not emptied.
SwapFunctorsCopy ==
  /\ Step("swap", "run")
  /\ functors' = pendingFunctors_
  /\ UNCHANGED <<quit_, callingPendingFunctors_, pendingFunctors_, executed, call, submitted>>
  /\ UNCHANGED pollVars

\* functors.swap(pendingFunctors_) under mutex_.
SwapFunctors ==
  /\ Step("swap", "run")
  /\ functors' = pendingFunctors_
  /\ pendingFunctors_' = functors
  /\ UNCHANGED <<quit_, callingPendingFunctors_, executed, call, submitted>>
  /\ UNCHANGED pollVars

\* Mutant: the for loop runs one element past the end of the batch.
RunFunctorPastEnd ==
  /\ Step("run", "body")
  /\ executed' = Append(executed, IF functors = <<>> THEN "past end" ELSE Head(functors))
  /\ functors' = IF functors = <<>> THEN <<>> ELSE Tail(functors)
  /\ UNCHANGED <<quit_, callingPendingFunctors_, pendingFunctors_, call, submitted>>
  /\ UNCHANGED pollVars

RunFunctor ==
  /\ Step("run", "body")
  /\ functors # <<>>
  /\ executed' = Append(executed, Head(functors))
  /\ functors' = Tail(functors)
  /\ UNCHANGED <<quit_, callingPendingFunctors_, pendingFunctors_, call, submitted>>
  /\ UNCHANGED pollVars

ReturnFromFunctor ==
  /\ Step("body", "run")
  /\ UNCHANGED <<quit_, call, submitted>>
  /\ UNCHANGED queueVars
  /\ UNCHANGED pollVars

\* Mutant: the for loop stops as soon as quit_ is set.
LeaveDoPendingFunctorsOnQuit ==
  /\ Step("run", "check")
  /\ functors = <<>> \/ quit_
  /\ callingPendingFunctors_' = FALSE
  /\ UNCHANGED <<quit_, pendingFunctors_, functors, executed, call, submitted>>
  /\ UNCHANGED pollVars

LeaveDoPendingFunctors ==
  /\ Step("run", "check")
  /\ functors = <<>>
  /\ callingPendingFunctors_' = FALSE
  /\ UNCHANGED <<quit_, pendingFunctors_, functors, executed, call, submitted>>
  /\ UNCHANGED pollVars

\* The kernel makes another descriptor of this poller ready.
IoEvent ==
  /\ ioReady' = TRUE
  /\ UNCHANGED <<pc, quit_, wakeupFd_, activeChannels_, call, submitted>>
  /\ UNCHANGED queueVars

-----------------------------------------------------------------------------

Calls(t) ==
  \/ \E f \in Functors : QueueInLoop(t, f) \/ RunInLoop(t, f)
  \/ Quit(t)

Wakeups(t) == WakeupQueued(t) \/ WakeupQuit(t)

Returns == ReturnFromCallback \/ ReturnFromFunctor

LoopSteps ==
  \/ StartLoop \/ CheckQuit
  \/ Poll \/ HandleRead \/ HandleEvent
  \/ EnterDoPendingFunctors \/ SwapFunctors \/ RunFunctor \/ LeaveDoPendingFunctors

Next ==
  \/ \E t \in Callers : Calls(t) \/ Wakeups(t)
  \/ LoopSteps \/ Returns
  \/ PollInterrupted \/ IoEvent

SafetySpec == Init /\ [][Next]_vars

-----------------------------------------------------------------------------
(* Properties.                                                             *)

TypeOK ==
  /\ pc \in PCs
  /\ quit_ \in BOOLEAN
  /\ callingPendingFunctors_ \in BOOLEAN
  /\ pendingFunctors_ \in Seq(Functors)
  /\ functors \in Seq(Functors)
  /\ wakeupFd_ \in BOOLEAN
  /\ ioReady \in BOOLEAN
  /\ activeChannels_ \in SUBSET Channels
  /\ call \in [Callers -> {"idle", "queued", "quitting"}]
  /\ submitted \in Seq(Functors)
  /\ executed \in Seq(Functors)

\* No functor is lost, repeated or overtaken (doPendingFunctors swaps the
\* queue out while other threads push): at every moment what has been run,
\* what is left of the batch and what is queued make up what was submitted.
FunctorsConserved == submitted = executed \o functors \o pendingFunctors_

\* A wakeup is on its way or already in the eventfd.
WakeupPending == wakeupFd_ \/ \E t \in Callers : call[t] # "idle"

\* The loop never sleeps on work: while it is in epoll_wait with a functor
\* queued or quit_ set, the eventfd is readable or the thread that queued or
\* quit is about to write it.
NoLostWakeup ==
  pc = "poll" /\ (pendingFunctors_ # <<>> \/ quit_) => WakeupPending

\* loop() ends only between batches: quit() never drops the rest of a batch
\* that doPendingFunctors has taken, and the flag is down again.
QuitBetweenBatches ==
  pc \in {"check", "poll", "done"} => functors = <<>> /\ ~callingPendingFunctors_

\* quit() on a loop that is running ends it, whoever calls it and wherever
\* the loop thread is.
QuitStopsLoop == quit_ /\ pc # "ready" ~> pc = "done"

\* The loop implements the task queue.
TQ == INSTANCE TaskQueue WITH ran <- executed, stopped <- (pc = "done")

ImplementsTaskQueue == TQ!Spec
=============================================================================
