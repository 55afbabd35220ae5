------------------------- MODULE EventLoop_proofs -------------------------
(***************************************************************************)
(* EventLoop and EventLoopThread, for any number of threads, functors and  *)
(* calls.                                                                  *)
(***************************************************************************)
EXTENDS EventLoopThread, SequenceTheorems, TLAPS

\* The type of the state is preserved by every step of the loop and of the
\* threads that call it (EventLoop.cc, all of it).
THEOREM TypeCorrect == SafetySpec => []TypeOK
<1>1. ASSUME Init PROVE TypeOK
  <2>1. <<>> \in Seq(Functors)
    OBVIOUS
  <2>2. call \in [Callers -> {"idle", "queued", "quitting"}]
    BY <1>1 DEF Init
  <2> QED
    BY <1>1, <2>1, <2>2 DEF Init, TypeOK, PCs, Channels
<1>2. TypeOK /\ [Next]_vars => TypeOK'
  <2> SUFFICES ASSUME TypeOK, [Next]_vars PROVE TypeOK'
    OBVIOUS
  <2> USE DEF TypeOK, PCs, Channels, Callers, queueVars, pollVars
  <2>1. ASSUME NEW t \in Callers, NEW f \in Functors, QueueInLoop(t, f)
        PROVE  TypeOK'
    BY <2>1 DEF QueueInLoop
  <2>2. ASSUME NEW t \in Callers, NEW f \in Functors, RunInLoop(t, f)
        PROVE  TypeOK'
    BY <2>1, <2>2 DEF RunInLoop
  <2>3. ASSUME NEW t \in Callers, Quit(t)
        PROVE  TypeOK'
    BY <2>3 DEF Quit
  <2>4. ASSUME NEW t \in Callers, Wakeups(t)
        PROVE  TypeOK'
    BY <2>4 DEF Wakeups, WakeupQueued, WakeupQuit, WakeupIf
  <2>5. CASE StartLoop \/ CheckQuit \/ Returns
    BY <2>5 DEF StartLoop, CheckQuit, Returns, ReturnFromCallback, ReturnFromFunctor, Step
  <2>6. CASE Poll \/ PollInterrupted
    BY <2>6 DEF Poll, PollInterrupted, Step, Ready
  <2>7. CASE HandleRead \/ HandleEvent
    BY <2>7 DEF HandleRead, HandleEvent, Step
  <2>8. CASE EnterDoPendingFunctors \/ SwapFunctors \/ LeaveDoPendingFunctors
    BY <2>8 DEF EnterDoPendingFunctors, SwapFunctors, LeaveDoPendingFunctors, Step
  <2>9. CASE RunFunctor
    BY <2>9 DEF RunFunctor, Step
  <2>10. CASE IoEvent
    BY <2>10 DEF IoEvent
  <2>11. CASE UNCHANGED vars
    BY <2>11 DEF vars
  <2> QED
    BY <2>1, <2>2, <2>3, <2>4, <2>5, <2>6, <2>7, <2>8, <2>9, <2>10, <2>11
    DEF Next, Calls, LoopSteps
<1> QED
  BY <1>1, <1>2, PTL DEF SafetySpec

-----------------------------------------------------------------------------
(* FIFO, exactly once.                                                     *)

\* Taking the head of the batch and appending it to what has run changes
\* nothing in the concatenation of the three (RunFunctor).
LEMMA MoveHead ==
  ASSUME NEW S, NEW a \in Seq(S), NEW b \in Seq(S), NEW c \in Seq(S), b # <<>>
  PROVE  Append(a, Head(b)) \o Tail(b) \o c = a \o b \o c
<1>1. Append(a, Head(b)) \o Tail(b) = a \o b
  <2>1. Head(b) \in S /\ Tail(b) \in Seq(S) /\ b = <<Head(b)>> \o Tail(b)
    BY HeadTailProperties, SMTT(60)
  <2>2. Append(a, Head(b)) = a \o <<Head(b)>>
    BY <2>1
  <2>3. <<Head(b)>> \in Seq(S)
    BY <2>1
  <2>4. (a \o <<Head(b)>>) \o Tail(b) = a \o (<<Head(b)>> \o Tail(b))
    <3>1. \A s, t, u \in Seq(S) : (s \o t) \o u = s \o (t \o u)
      BY ConcatAssociative, SMTT(60)
    <3> QED
      BY <2>1, <2>3, <3>1
  <2> QED
    BY <2>1, <2>2, <2>4, Zenon
<1> QED
  BY <1>1

\* Pushing at the end of the queue pushes at the end of the concatenation
\* (QueueInLoop).
LEMMA PushLast ==
  ASSUME NEW S, NEW a \in Seq(S), NEW b \in Seq(S), NEW c \in Seq(S), NEW e \in S
  PROVE  a \o b \o Append(c, e) = Append(a \o b \o c, e)
OBVIOUS

\* What doPendingFunctors keeps true of its local batch and of its flag.
BatchInv ==
  /\ pc \notin {"run", "body"} => functors = <<>>
  /\ callingPendingFunctors_ <=> (pc \in {"swap", "run", "body"})

FifoInv == TypeOK /\ BatchInv /\ FunctorsConserved

\* FifoInv is inductive: FunctorsConserved alone is not, because the swap
\* keeps it only when the old batch is empty.
LEMMA FifoInductive ==
  /\ Init => BatchInv /\ FunctorsConserved
  /\ FifoInv /\ TypeOK' /\ [Next]_vars => BatchInv' /\ FunctorsConserved'
<1>1. Init => BatchInv /\ FunctorsConserved
  BY DEF Init, BatchInv, FunctorsConserved
<1>2. ASSUME FifoInv, TypeOK', [Next]_vars
      PROVE  BatchInv' /\ FunctorsConserved'
  <2> USE DEF FifoInv, TypeOK, BatchInv, FunctorsConserved, queueVars, pollVars
  <2>1. ASSUME NEW t \in Callers, NEW f \in Functors, QueueInLoop(t, f)
        PROVE  BatchInv' /\ FunctorsConserved'
    <3>1. BatchInv'
      BY <2>1, <1>2 DEF QueueInLoop
    <3>2. FunctorsConserved'
      <4>1. executed \o functors \o Append(pendingFunctors_, f)
              = Append(executed \o functors \o pendingFunctors_, f)
        <5>1. executed \in Seq(Functors) /\ functors \in Seq(Functors)
                /\ pendingFunctors_ \in Seq(Functors)
          BY <1>2
        <5> HIDE DEF FifoInv, TypeOK, FunctorsConserved, BatchInv
        <5> QED
          BY <5>1, PushLast
      <4> QED
        BY <2>1, <1>2, <4>1 DEF QueueInLoop
    <3> QED
      BY <3>1, <3>2
  <2>2. ASSUME NEW t \in Callers, NEW f \in Functors, RunInLoop(t, f)
        PROVE  BatchInv' /\ FunctorsConserved'
    BY <2>1, <2>2 DEF RunInLoop
  <2>3. ASSUME NEW t \in Callers, Quit(t) \/ Wakeups(t)
        PROVE  BatchInv' /\ FunctorsConserved'
    BY <2>3, <1>2 DEF Quit, Wakeups, WakeupQueued, WakeupQuit, WakeupIf
  <2>4. CASE StartLoop \/ CheckQuit \/ Returns \/ Poll \/ PollInterrupted
                \/ HandleRead \/ HandleEvent \/ IoEvent
    BY <2>4, <1>2 DEF StartLoop, CheckQuit, Returns, ReturnFromCallback, ReturnFromFunctor,
       Poll, PollInterrupted, HandleRead, HandleEvent, IoEvent, Step
  <2>5. CASE EnterDoPendingFunctors \/ LeaveDoPendingFunctors
    BY <2>5, <1>2 DEF EnterDoPendingFunctors, LeaveDoPendingFunctors, Step
  <2>6. CASE SwapFunctors
    <3>1. functors = <<>> /\ functors' = pendingFunctors_ /\ pendingFunctors_' = <<>>
      BY <2>6, <1>2 DEF SwapFunctors, Step
    <3>2. executed \o <<>> \o pendingFunctors_ = executed \o pendingFunctors_ \o <<>>
      BY <1>2
    <3> QED
      BY <2>6, <3>1, <3>2, <1>2 DEF SwapFunctors, Step
  <2>7. CASE RunFunctor
    <3>1. BatchInv'
      BY <2>7, <1>2 DEF RunFunctor, Step
    <3>2. FunctorsConserved'
      <4>1. /\ functors # <<>>
            /\ executed' = Append(executed, Head(functors)) /\ functors' = Tail(functors)
            /\ pendingFunctors_' = pendingFunctors_ /\ submitted' = submitted
        BY <2>7 DEF RunFunctor, Step
      <4> QED
        BY <1>2, <4>1, MoveHead
    <3> QED
      BY <3>1, <3>2
  <2>8. CASE UNCHANGED vars
    BY <2>8, <1>2 DEF vars
  <2> QED
    BY <1>2, <2>1, <2>2, <2>3, <2>4, <2>5, <2>6, <2>7, <2>8 DEF Next, Calls, LoopSteps
<1> QED
  BY <1>1, <1>2

LEMMA FifoInvariant == SafetySpec => []FifoInv
BY TypeCorrect, FifoInductive, PTL DEF SafetySpec, FifoInv

\* queueInLoop and doPendingFunctors never lose, repeat or reorder a functor,
\* for any number of threads, functors and calls.
THEOREM FunctorsAreConserved == SafetySpec => []FunctorsConserved
BY FifoInvariant, PTL DEF FifoInv

\* quit() never cuts a batch short: the loop tests quit_ only with the batch
\* used up.
THEOREM QuitsBetweenBatches == SafetySpec => []QuitBetweenBatches
<1>1. FifoInv => QuitBetweenBatches
  BY DEF FifoInv, BatchInv, QuitBetweenBatches
<1> QED
  BY <1>1, FifoInvariant, PTL
-----------------------------------------------------------------------------
(* The loop implements the task queue (safety part).                       *)

\* The head of the batch is the oldest submitted functor that has not run.
LEMMA HeadIsOldest ==
  ASSUME NEW S, NEW a \in Seq(S), NEW b \in Seq(S), NEW c \in Seq(S), b # <<>>
  PROVE  /\ Len(a) < Len(a \o b \o c)
         /\ (a \o b \o c)[Len(a) + 1] = Head(b)
OBVIOUS

\* Every step of EventLoop is a step of TaskQueue or leaves it alone, so
\* callers may rely on first-in first-out, exactly-once execution.
THEOREM RefinesTaskQueue == SafetySpec => TQ!SafetySpec
<1>1. Init => TQ!Init
  BY DEF Init, TQ!Init
<1>2. ASSUME FifoInv, [Next]_vars
      PROVE  [TQ!Next]_(TQ!vars)
  <2> USE DEF TQ!vars, queueVars, pollVars
  <2>1. ASSUME NEW t \in Callers, NEW f \in Functors, QueueInLoop(t, f)
        PROVE  TQ!Next
    BY <2>1 DEF QueueInLoop, TQ!Submit, TQ!Next
  <2>2. ASSUME NEW t \in Callers, NEW f \in Functors, RunInLoop(t, f)
        PROVE  TQ!Next
    BY <2>1, <2>2 DEF RunInLoop
  <2>3. ASSUME NEW t \in Callers, Quit(t) \/ Wakeups(t)
        PROVE  UNCHANGED TQ!vars
    BY <2>3 DEF Quit, Wakeups, WakeupQueued, WakeupQuit, WakeupIf
  <2>4. CASE StartLoop \/ Returns \/ Poll \/ PollInterrupted
                \/ HandleRead \/ HandleEvent \/ IoEvent
                \/ EnterDoPendingFunctors \/ SwapFunctors \/ LeaveDoPendingFunctors
    BY <2>4 DEF StartLoop, Returns, ReturnFromCallback, ReturnFromFunctor,
       Poll, PollInterrupted, HandleRead, HandleEvent, IoEvent, EnterDoPendingFunctors,
       SwapFunctors, LeaveDoPendingFunctors, Step
  <2>5. CASE CheckQuit
    BY <2>5 DEF CheckQuit, Step, TQ!Stop, TQ!Next
  <2>6. CASE RunFunctor
    <3>1. /\ executed \in Seq(Functors) /\ functors \in Seq(Functors)
          /\ pendingFunctors_ \in Seq(Functors) /\ functors # <<>>
          /\ submitted = executed \o functors \o pendingFunctors_
      BY <1>2, <2>6 DEF FifoInv, TypeOK, FunctorsConserved, RunFunctor
    <3>2. Len(executed) < Len(submitted) /\ submitted[Len(executed) + 1] = Head(functors)
      BY <3>1, HeadIsOldest
    <3> QED
      BY <2>6, <3>2 DEF RunFunctor, Step, TQ!Run, TQ!Next
  <2>7. CASE UNCHANGED vars
    BY <2>7 DEF vars
  <2> QED
    BY <1>2, <2>1, <2>2, <2>3, <2>4, <2>5, <2>6, <2>7 DEF Next, Calls, LoopSteps
<1> QED
  BY <1>1, <1>2, FifoInvariant, PTL DEF SafetySpec, TQ!SafetySpec

-----------------------------------------------------------------------------
(* No lost wakeup.                                                         *)

\* Another thread has a write of the eventfd ahead of it, or has made it.
ForeignWakeup == wakeupFd_ \/ \E t \in Threads : call[t] # "idle"

\* From the end of the swap to the next epoll_wait, every functor in the queue
\* has its wakeup; quit_ has one while the loop is in epoll_wait.  The loop
\* thread itself is inside a call only while it runs user code, so the call it
\* has not finished does not reach epoll_wait.
WakeInv ==
  /\ call[LoopThread] # "idle" => pc \in {"callback", "body"}
  /\ pc \in {"ready", "run", "body", "check", "poll"} /\ pendingFunctors_ # <<>>
       => ForeignWakeup \/ call[LoopThread] = "queued"
  /\ pc = "poll" /\ quit_ => ForeignWakeup

\* WakeInv holds initially and every step keeps it, if no code of the loop
\* thread uses the loop before loop() (~InitCallback).
LEMMA WakeInductive ==
  ASSUME ~InitCallback
  PROVE  /\ Init => WakeInv
         /\ FifoInv /\ WakeInv /\ [Next]_vars => WakeInv'
<1>1. Init => WakeInv
  BY DEF Init, WakeInv, Callers
<1>2. ASSUME FifoInv, WakeInv, [Next]_vars PROVE WakeInv'
  <2> USE <1>2, LoopThreadAssumption
      DEF FifoInv, TypeOK, BatchInv, WakeInv, ForeignWakeup, Callers, InLoopThread,
          queueVars, pollVars
  <2>1. ASSUME NEW t \in Callers, NEW f \in Functors, QueueInLoop(t, f)
        PROVE  WakeInv'
    BY <2>1 DEF QueueInLoop, CanCall
  <2>2. ASSUME NEW t \in Callers, NEW f \in Functors, RunInLoop(t, f)
        PROVE  WakeInv'
    BY <2>1, <2>2 DEF RunInLoop
  <2>3. ASSUME NEW t \in Callers, Quit(t)
        PROVE  WakeInv'
    BY <2>3 DEF Quit, CanCall
  <2>4. ASSUME NEW t \in Callers, WakeupQueued(t)
        PROVE  WakeInv'
    BY <2>4 DEF WakeupQueued, WakeupIf
  <2>5. ASSUME NEW t \in Callers, WakeupQuit(t)
        PROVE  WakeInv'
    BY <2>5 DEF WakeupQuit, WakeupIf
  <2>6. CASE StartLoop \/ CheckQuit
    BY <2>6 DEF StartLoop, CheckQuit, Step
  <2>7. CASE Returns
    BY <2>7 DEF Returns, ReturnFromCallback, ReturnFromFunctor, Step
  <2>8. CASE Poll \/ PollInterrupted \/ HandleRead \/ HandleEvent \/ EnterDoPendingFunctors
    BY <2>8 DEF Poll, PollInterrupted, HandleRead, HandleEvent, EnterDoPendingFunctors, Step
  <2>9. CASE SwapFunctors \/ RunFunctor \/ LeaveDoPendingFunctors
    BY <2>9 DEF SwapFunctors, RunFunctor, LeaveDoPendingFunctors, Step
  <2>10. CASE IoEvent
    BY <2>10 DEF IoEvent
  <2>11. CASE UNCHANGED vars
    BY <2>11 DEF vars
  <2> QED
    BY <2>1, <2>2, <2>3, <2>4, <2>5, <2>6, <2>7, <2>8, <2>9, <2>10, <2>11
    DEF Next, Calls, Wakeups, LoopSteps
<1> QED
  BY <1>1, <1>2

\* The loop never sleeps in epoll_wait on a queued functor or on quit_ without
\* a wakeup in the eventfd or on its way, for any number of threads.
THEOREM WakeupIsNeverLost == ASSUME ~InitCallback PROVE SafetySpec => []NoLostWakeup
<1>1. FifoInv /\ WakeInv => NoLostWakeup
  BY DEF FifoInv, WakeInv, NoLostWakeup, WakeupPending, ForeignWakeup, Callers
<1> QED
  BY <1>1, FifoInvariant, WakeInductive, PTL DEF SafetySpec

-----------------------------------------------------------------------------
(* The loop in its EventLoopThread.                                        *)

\* The loop of an EventLoopThread is an EventLoop: startLoop, threadFunc and
\* the destructor make no step of it that EventLoop.cc does not have, so all
\* of the above holds of it.
THEOREM ThreadRunsALoop == ThreadSpec => SafetySpec
<1>1. ThreadInit => Init
  BY DEF ThreadInit
<1>2. ASSUME [ThreadNext]_allVars PROVE [Next]_vars
  <2>1. CASE UNCHANGED allVars
    BY <2>1 DEF allVars, vars
  <2>2. CASE Start \/ Destroy \/ StartReturns \/ StartLoopReturns \/ Join
    BY <2>2 DEF Start, Destroy, StartReturns, StartLoopReturns, Join
  <2>3. CASE DestroyQuit
    BY <2>3, OwnerAssumption DEF DestroyQuit, Next, Calls, Callers
  <2>4. CASE SemPost \/ Construct \/ Publish \/ ClearLoop \/ ThreadFuncReturns
    BY <2>4 DEF SemPost, Construct, Publish, ClearLoop, ThreadFuncReturns
  <2>5. CASE \/ ChildLoop(LoopSteps) \/ ChildLoop(ReturnFromCallback) \/ ChildLoop(ReturnFromFunctor)
             \/ ChildLoop(PollInterrupted) \/ ChildLoop(IoEvent)
    BY <2>5 DEF ChildLoop, Next, Returns
  <2>6. CASE UseInLoop \/ \E t \in Threads : Use(t)
    BY <2>6 DEF UseInLoop, Use, Next, Callers
  <2>7. CASE \E t \in Callers : FinishCall(t)
    BY <2>7 DEF FinishCall, Next
  <2> QED
    BY <1>2, <2>1, <2>2, <2>3, <2>4, <2>5, <2>6, <2>7 DEF ThreadNext, OwnerSteps, ChildSteps
<1> QED
  BY <1>1, <1>2, PTL DEF ThreadSpec, SafetySpec

\* Where owner and child are when the loop is there: it is published exactly
\* while the child is inside loop(), whoever has a pointer to it has it from
\* then on, and loop() has not returned unless quit_ is set.
Published == {"looping", "cleared", "exited"}

ThreadInv ==
  /\ owner = "new" => child = "none"
  /\ loop_ = (child = "looping")
  /\ child \notin Published => pc = "ready"
  /\ child \in {"cleared", "exited"} => pc = "done"
  /\ pc = "done" => quit_
  /\ owner = "using" => child \in Published
  /\ \A t \in Threads : call[t] = "queued" => child \in Published

LEMMA ThreadInductive ==
  /\ ThreadInit => ThreadInv
  /\ TypeOK /\ ThreadInv /\ [ThreadNext]_allVars => ThreadInv'
<1>1. ThreadInit => ThreadInv
  BY DEF ThreadInit, Init, ThreadInv, Published, Callers
<1>2. ASSUME TypeOK, ThreadInv, [ThreadNext]_allVars PROVE ThreadInv'
  <2> USE <1>2, LoopThreadAssumption, OwnerAssumption
      DEF ThreadInv, Published, TypeOK, Callers, threadVars
  <2>1. CASE UNCHANGED allVars
    BY <2>1 DEF allVars, vars
  <2>2. CASE Start \/ StartReturns \/ StartLoopReturns \/ Join \/ Destroy
    BY <2>2 DEF Start, StartReturns, StartLoopReturns, Join, Destroy, vars
  <2>3. CASE DestroyQuit
    BY <2>3 DEF DestroyQuit, Quit
  <2>4. CASE SemPost \/ Construct \/ Publish \/ ClearLoop \/ ThreadFuncReturns
    BY <2>4 DEF SemPost, Construct, Publish, ClearLoop, ThreadFuncReturns, vars
  <2>5. CASE ChildLoop(LoopSteps)
    BY <2>5 DEF ChildLoop, LoopSteps, StartLoop, CheckQuit, Poll, HandleRead, HandleEvent,
                EnterDoPendingFunctors, SwapFunctors, RunFunctor, LeaveDoPendingFunctors, Step
  <2>6. CASE \/ ChildLoop(ReturnFromCallback) \/ ChildLoop(ReturnFromFunctor)
             \/ ChildLoop(PollInterrupted) \/ ChildLoop(IoEvent)
    BY <2>6 DEF ChildLoop, ReturnFromCallback, ReturnFromFunctor, PollInterrupted, IoEvent, Step
  <2>7. CASE UseInLoop
    BY <2>7 DEF UseInLoop, Calls, QueueInLoop, RunInLoop, Quit
  <2>8. ASSUME NEW t \in Threads, Use(t) PROVE ThreadInv'
    BY <2>8 DEF Use, Calls, QueueInLoop, RunInLoop, Quit
  <2>9. ASSUME NEW t \in Callers, FinishCall(t) PROVE ThreadInv'
    BY <2>9 DEF FinishCall, Wakeups, WakeupQueued, WakeupQuit
  <2> QED
    BY <2>1, <2>2, <2>3, <2>4, <2>5, <2>6, <2>7, <2>8, <2>9 DEF ThreadNext, OwnerSteps, ChildSteps
<1> QED
  BY <1>1, <1>2

\* startLoop (EventLoopThread.cc:31) returns a loop that exists and that its
\* thread runs, and a thread that has queued a functor finds it so for its
\* wakeup, as long as nobody has quit the loop.
THEOREM LoopIsAliveInUse == ThreadSpec => []LoopAliveInUse
<1>1. TypeOK /\ ThreadInv => LoopAliveInUse
  BY DEF TypeOK, ThreadInv, Published, LoopAliveInUse
<1>2. ThreadSpec => []TypeOK
  BY ThreadRunsALoop, TypeCorrect, PTL
<1> QED
  BY <1>1, <1>2, ThreadInductive, PTL DEF ThreadSpec
=============================================================================
