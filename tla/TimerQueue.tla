----------------------------- MODULE TimerQueue -----------------------------
(***************************************************************************)
(* TimerQueue and Timer (src/src/TimerQueue.cc, src/src/Timer.cc): timers  *)
(* ordered by expiration, one timerfd that is armed for the earliest, and  *)
(* the loop thread that runs what has expired.                             *)
(*                                                                         *)
(* Time is counted in ticks and passes at any moment, callbacks included.  *)
(* The timerfd's clock and Timestamp::now() are taken to run alike; the    *)
(* code assumes so, too.  A timer is added by another thread, as a functor *)
(* of the loop, or by user code on the loop's own thread, at once.         *)
(***************************************************************************)
EXTENDS Integers, FiniteSetsExt, SequencesExt

CONSTANTS Timers,       \* the Timer objects, as addresses: natural numbers
          Interval,     \* Interval[t]: interval_, 0 for a one-shot timer
          MinDelay,     \* the least delay resetTimerfd sets (100 microseconds)
          MaxTime       \* bound on the clock

ASSUME TimersAssumption == Timers \subseteq Nat
ASSUME IntervalAssumption == Interval \in [Timers -> Nat]
ASSUME MinDelayAssumption == MinDelay \in Nat \ {0}
ASSUME MaxTimeAssumption == MaxTime \in Nat

VARIABLES
  now,            \* Timestamp::now()
  timers_,        \* the set of entries <<when, timer>>
  expiration_,    \* timer -> its expiration_
  alive,          \* the Timer objects that exist
  armed,          \* when the timerfd will fire, or Never
  readable,       \* it has fired and has not been read
  active,         \* epoll_wait has reported it, handleRead has not run yet
  pending,        \* addTimerInLoop functors of the loop, oldest first
  pc,             \* the loop thread: idle, run or reset
  expired,        \* what is left of the vector of handleRead
  done,           \* the part of it that has been run
  runs            \* history: timer -> the expirations its callback ran for

vars == <<now, timers_, expiration_, alive, armed, readable, active, pending,
          pc, expired, done, runs>>
fdVars == <<armed, readable, active>>
handleVars == <<pc, expired, done, runs>>

Never == -1

Init ==
  /\ now = 0
  /\ timers_ = {}
  /\ expiration_ = [t \in Timers |-> 0]
  /\ alive = {}
  /\ armed = Never
  /\ readable = FALSE
  /\ active = FALSE
  /\ pending = <<>>
  /\ pc = "idle"
  /\ expired = <<>>
  /\ done = <<>>
  /\ runs = [t \in Timers |-> 0]

\* The order of std::pair<Timestamp, Timer*>.
Before(a, b) == a[1] < b[1] \/ (a[1] = b[1] /\ a[2] < b[2])

Earliest(entries) == Min({e[1] : e \in entries})

\* resetTimerfd; timerfd_settime also forgets an expiration nobody has read.
ResetTimerfd(expiration) ==
  /\ armed' = now + Max({expiration - now, MinDelay})
  /\ readable' = FALSE

\* Mutant: only the first timer counts as the earliest.
EarliestChangedFirstOnly(when) == timers_ = {}

\* insert: does this timer become the earliest?
EarliestChanged(when) == timers_ = {} \/ when < Earliest(timers_)

\* addTimerInLoop: insert, and set the timerfd if this is the earliest now.
AddTimerInLoop(t, when) ==
  /\ timers_' = timers_ \cup {<<when, t>>}
  /\ IF EarliestChanged(when) THEN ResetTimerfd(when) ELSE UNCHANGED <<armed, readable>>

\* The constructor of Timer.
Construct(t, when) ==
  /\ t \notin alive /\ runs[t] = 0
  /\ when <= MaxTime
  /\ alive' = alive \cup {t}
  /\ expiration_' = [expiration_ EXCEPT ![t] = when]

\* addTimer on another thread: runInLoop queues addTimerInLoop.
AddTimer(t, when) ==
  /\ Construct(t, when)
  /\ pending' = Append(pending, t)
  /\ UNCHANGED <<now, timers_>>
  /\ UNCHANGED fdVars
  /\ UNCHANGED handleVars

\* The loop runs the functor.
RunPending ==
  /\ pc = "idle"
  /\ ~active
  /\ pending # <<>>
  /\ AddTimerInLoop(Head(pending), expiration_[Head(pending)])
  /\ pending' = Tail(pending)
  /\ UNCHANGED <<now, expiration_, alive, active>>
  /\ UNCHANGED handleVars

\* addTimer on the loop's thread: in a timer's callback or any other.
AddTimerHere(t, when) ==
  /\ pc = "idle" \/ (pc = "run" /\ done # <<>>)
  /\ Construct(t, when)
  /\ AddTimerInLoop(t, when)
  /\ UNCHANGED <<now, active, pending>>
  /\ UNCHANGED handleVars

\* epoll_wait reports the timerfd.
Poll ==
  /\ pc = "idle"
  /\ readable
  /\ ~active
  /\ active' = TRUE
  /\ UNCHANGED <<now, timers_, expiration_, alive, armed, readable, pending>>
  /\ UNCHANGED handleVars

\* Mutant: entries are expired one tick too early.
GetExpiredEarly(time) == {e \in timers_ : e[1] <= time + 1}

\* getExpired: the entries not later than this ...
GetExpired(time) == {e \in timers_ : e[1] <= time}

\* ... copied in the order of the set, of which there is one.
InOrder(entries) ==
  {s \in SetToSeqs(entries) : \A i, j \in DOMAIN s : i < j => Before(s[i], s[j])}

ReadTimerFd == readable' = FALSE

\* handleRead up to the loop over expired: the timerfd is read.
HandleRead ==
  /\ pc = "idle"
  /\ active
  /\ active' = FALSE
  /\ ReadTimerFd
  /\ expired' \in InOrder(GetExpired(now))
  /\ timers_' = timers_ \ GetExpired(now)
  /\ pc' = "run"
  /\ UNCHANGED <<now, expiration_, alive, armed, pending, done, runs>>

\* it.second->run()
RunTimer ==
  /\ pc = "run"
  /\ expired # <<>>
  /\ LET t == Head(expired)[2] IN runs' = [runs EXCEPT ![t] = @ + 1]
  /\ done' = Append(done, Head(expired))
  /\ expired' = Tail(expired)
  /\ UNCHANGED <<now, timers_, expiration_, alive, pending, pc>>
  /\ UNCHANGED fdVars

StartReset ==
  /\ pc = "run"
  /\ expired = <<>>
  /\ pc' = "reset"
  /\ UNCHANGED <<now, timers_, expiration_, alive, pending, expired, done, runs>>
  /\ UNCHANGED fdVars

\* Timer::restart: the next expiration of a timer that repeats.
Restart(t) == now + Interval[t]

\* Mutant: a one-shot timer is inserted again.
ResetRepeatsAll ==
  /\ pc = "reset"
  /\ done # <<>>
  /\ LET t == Head(done)[2]
         next == Restart(t)
     IN  /\ expiration_' = [expiration_ EXCEPT ![t] = next]
         /\ timers_' = timers_ \cup {<<next, t>>}
         /\ alive' = IF Interval[t] > 0 THEN alive ELSE alive \ {t}
  /\ ResetTimerfd(Earliest(timers_'))
  /\ done' = Tail(done)
  /\ UNCHANGED <<now, active, pending, pc, expired, runs>>

\* One round of reset: a timer that repeats is restarted from now and inserted,
\* another is deleted; the timerfd is set for the earliest that is left.
Reset ==
  /\ pc = "reset"
  /\ done # <<>>
  /\ LET t == Head(done)[2]
         next == Restart(t)
     IN  IF Interval[t] > 0
           THEN /\ expiration_' = [expiration_ EXCEPT ![t] = next]
                /\ timers_' = timers_ \cup {<<next, t>>}
                /\ UNCHANGED alive
           ELSE /\ alive' = alive \ {t}
                /\ UNCHANGED <<expiration_, timers_>>
  /\ IF timers_' # {} THEN ResetTimerfd(Earliest(timers_')) ELSE UNCHANGED <<armed, readable>>
  /\ done' = Tail(done)
  /\ UNCHANGED <<now, active, pending, pc, expired, runs>>

HandleReadReturns ==
  /\ pc = "reset"
  /\ done = <<>>
  /\ pc' = "idle"
  /\ UNCHANGED <<now, timers_, expiration_, alive, pending, expired, done, runs>>
  /\ UNCHANGED fdVars

\* Time passes, and the timerfd fires when it is due.
Tick ==
  /\ now < MaxTime
  /\ now' = now + 1
  /\ IF armed # Never /\ armed <= now'
       THEN armed' = Never /\ readable' = TRUE
       ELSE UNCHANGED <<armed, readable>>
  /\ UNCHANGED <<timers_, expiration_, alive, active, pending>>
  /\ UNCHANGED handleVars

Next ==
  \/ \E t \in Timers, when \in 0 .. MaxTime : AddTimer(t, when) \/ AddTimerHere(t, when)
  \/ RunPending \/ Poll \/ HandleRead \/ RunTimer \/ StartReset \/ Reset \/ HandleReadReturns
  \/ Tick

Spec == Init /\ [][Next]_vars

-----------------------------------------------------------------------------
(* Properties.                                                             *)

TypeOK ==
  /\ now \in 0 .. MaxTime
  /\ timers_ \subseteq Nat \X Timers
  /\ expiration_ \in [Timers -> Nat]
  /\ alive \subseteq Timers
  /\ armed \in Nat \cup {Never}
  /\ readable \in BOOLEAN /\ active \in BOOLEAN
  /\ pending \in Seq(Timers)
  /\ pc \in {"idle", "run", "reset"}
  /\ expired \in Seq(Nat \X Timers) /\ done \in Seq(Nat \X Timers)
  /\ runs \in [Timers -> Nat]

\* No timer is forgotten: whenever timers are waiting and the queue is not in
\* the middle of handleRead, the timerfd has fired or will fire no later than
\* the earliest of them (or the least delay from now).
ArmedForEarliest ==
  pc = "idle" /\ timers_ # {} =>
    \/ readable \/ active
    \/ armed # Never /\ armed <= Max({Earliest(timers_), now + MinDelay})

\* The set is keyed by the expiration of living timers, each once: no entry
\* points to a Timer that reset has deleted, or is out of date.
EntriesAreLive ==
  /\ \A e \in timers_ : e[2] \in alive /\ e[1] = expiration_[e[2]]
  /\ \A e \in ToSet(expired) \cup ToSet(done) : e[2] \in alive
  /\ \A e \in ToSet(expired) \cup ToSet(done), d \in timers_ : e[2] # d[2]

\* A callback never runs before its time, and a one-shot timer's only once.
NeverEarly ==
  [][\A t \in Timers : runs'[t] # runs[t] =>
       /\ expiration_[t] <= now
       /\ Interval[t] = 0 => runs[t] = 0]_vars
=============================================================================
