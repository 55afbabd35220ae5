------------------------- MODULE TimerQueue_proofs -------------------------
(***************************************************************************)
(* TimerQueue, for any set of timers, any intervals and any times.         *)
(***************************************************************************)
EXTENDS TimerQueue, ListLemmas, FiniteSetTheorems, WellFoundedInduction

-----------------------------------------------------------------------------
(* Minima and maxima.                                                      *)

\* A set of natural numbers has a least element.
LEMMA LeastExists ==
  ASSUME NEW T \in SUBSET Nat, T # {}
  PROVE  \E x \in T : \A y \in T : x <= y
<1>1. PICK x \in T : \A y \in T : ~ (<<y, x>> \in OpToRel(<, Nat))
  BY NatLessThanWellFounded, WFMin
<1>2. \A y \in T : <<y, x>> \in OpToRel(<, Nat) <=> y < x
  BY DEF OpToRel
<1>3. \A y \in T : ~ (y < x)
  BY <1>1, <1>2, Zenon
<1>4. \A y \in T : x <= y
  BY <1>3
<1> QED
  BY <1>4

\* What Min finds there.
LEMMA MinIs ==
  ASSUME NEW T \in SUBSET Nat, T # {}
  PROVE  Min(T) \in T /\ \A y \in T : Min(T) <= y
BY LeastExists DEF Min

\* The larger of two numbers.
LEMMA MaxIs ==
  ASSUME NEW a \in Int, NEW b \in Int
  PROVE  Max({a, b}) = IF a >= b THEN a ELSE b
<1>1. CASE a >= b
  <2>1. a \in {a, b} /\ \A y \in {a, b} : a >= y
    BY <1>1
  <2>2. Max({a, b}) \in {a, b} /\ \A y \in {a, b} : Max({a, b}) >= y
    BY <2>1 DEF Max
  <2> QED
    BY <1>1, <2>2
<1>2. CASE ~(a >= b)
  <2>1. b \in {a, b} /\ \A y \in {a, b} : b >= y
    BY <1>2
  <2>2. Max({a, b}) \in {a, b} /\ \A y \in {a, b} : Max({a, b}) >= y
    BY <2>1 DEF Max
  <2> QED
    BY <1>2, <2>2
<1> QED
  BY <1>1, <1>2

\* The earliest expiration of a set of entries.
LEMMA EarliestIs ==
  ASSUME NEW entries \in SUBSET (Nat \X Timers), entries # {}
  PROVE  /\ Earliest(entries) \in Nat
         /\ \E e \in entries : e[1] = Earliest(entries)
         /\ \A e \in entries : Earliest(entries) <= e[1]
<1> DEFINE T == {e[1] : e \in entries}
<1>1. T \in SUBSET Nat /\ T # {}
  OBVIOUS
<1>2. Min(T) \in T /\ \A y \in T : Min(T) <= y
  <2> HIDE DEF T
  <2> QED
    BY <1>1, MinIs
<1> QED
  BY <1>1, <1>2 DEF Earliest

-----------------------------------------------------------------------------
(* Types.                                                                  *)

\* The list that handleRead makes of the expired entries.
LEMMA InOrderIs ==
  ASSUME NEW entries \in SUBSET (Nat \X Timers), NEW s \in InOrder(entries),
         IsFiniteSet(entries)
  PROVE  /\ s \in Seq(entries) /\ s \in Seq(Nat \X Timers)
         /\ entries # {} => s # <<>>
         /\ \A i, j \in 1 .. Len(s) : i # j => s[i] # s[j]
<1>1. Cardinality(entries) \in Nat
  BY FS_CardinalityType
<1> DEFINE n == Cardinality(entries)
<1>2. s \in [1 .. n -> entries] /\ \A i, j \in 1 .. n : i # j => s[i] # s[j]
  BY DEF InOrder, SetToSeqs
<1>3. entries # {} => n # 0
  BY FS_EmptySet
<1> HIDE DEF n
<1>4. s \in Seq(entries) /\ Len(s) = n
  <2>1. s \in Seq(entries)
    BY <1>1, <1>2, SeqDef DEF n
  <2>2. s \in [1 .. Len(s) -> entries] /\ Len(s) \in Nat
    BY <2>1, LenProperties
  <2>3. DOMAIN s = 1 .. n /\ DOMAIN s = 1 .. Len(s)
    BY <1>2, <2>2
  <2> QED
    BY <1>1, <2>1, <2>2, <2>3 DEF n
<1>5. s \in Seq(Nat \X Timers)
  BY <1>4, SeqMonotonic
<1>6. entries # {} => s # <<>>
  BY <1>3, <1>4, EmptySeq
<1> QED
  BY <1>2, <1>4, <1>5, <1>6

\* ResetTimerfd sets the timerfd to a time that is not Never.
LEMMA ResetTimerfdIs ==
  ASSUME now \in Nat, NEW when \in Nat, ResetTimerfd(when)
  PROVE  /\ armed' \in Nat /\ armed' # Never /\ readable' = FALSE
         /\ when <= armed'
         /\ armed' = IF when >= now + MinDelay THEN when ELSE now + MinDelay
<1>1. MinDelay \in Nat /\ when - now \in Int
  BY MinDelayAssumption
<1>2. Max({when - now, MinDelay}) = IF when - now >= MinDelay THEN when - now ELSE MinDelay
  BY <1>1, MaxIs
<1> QED
  BY <1>1, <1>2 DEF ResetTimerfd, Never

\* TypeOK, with a finite set of entries.
Types == TypeOK /\ IsFiniteSet(timers_)

LEMMA AddTimerInLoopType ==
  ASSUME Types, NEW t \in Timers, NEW when \in Nat, AddTimerInLoop(t, when)
  PROVE  /\ timers_' \subseteq Nat \X Timers /\ IsFiniteSet(timers_')
         /\ armed' \in Nat \cup {Never} /\ readable' \in BOOLEAN
<1>1. timers_' \subseteq Nat \X Timers /\ IsFiniteSet(timers_')
  <2>1. timers_' = timers_ \cup {<<when, t>>} /\ timers_ \subseteq Nat \X Timers
    BY DEF AddTimerInLoop, Types, TypeOK
  <2>2. timers_' \subseteq Nat \X Timers
    BY <2>1
  <2>3. IsFiniteSet(timers_ \cup {<<when, t>>})
    BY FS_AddElement DEF Types
  <2> QED
    BY <2>1, <2>2, <2>3
<1>2. now \in Nat
  BY MaxTimeAssumption DEF Types, TypeOK
<1>3. armed' \in Nat \cup {Never} /\ readable' \in BOOLEAN
  BY <1>2, ResetTimerfdIs DEF AddTimerInLoop, Types, TypeOK
<1> QED
  BY <1>1, <1>3

LEMMA InitTypes == Init => Types
<1> SUFFICES ASSUME Init PROVE Types
  OBVIOUS
<1>1. <<>> \in Seq(Timers) /\ <<>> \in Seq(Nat \X Timers)
  OBVIOUS
<1>2. IsFiniteSet({})
  BY FS_EmptySet
<1>3. now \in 0 .. MaxTime /\ armed \in Nat \cup {Never}
  BY MaxTimeAssumption DEF Init
<1>4. pending \in Seq(Timers) /\ expired \in Seq(Nat \X Timers) /\ done \in Seq(Nat \X Timers)
  BY <1>1 DEF Init
<1> QED
  BY <1>2, <1>3, <1>4 DEF Init, Types, TypeOK

LEMMA StepTypes == Types /\ [Next]_vars => Types'
<1> SUFFICES ASSUME Types, [Next]_vars PROVE Types'
  OBVIOUS
<1> USE DEF Types, TypeOK, fdVars, handleVars
<1>1. now \in Nat /\ MaxTime \in Nat
  BY MaxTimeAssumption
<1>2. ASSUME NEW t \in Timers, NEW when \in 0 .. MaxTime, AddTimer(t, when)
      PROVE  Types'
  <2>1. pending' \in Seq(Timers)
    BY <1>2, AppendProperties DEF AddTimer
  <2>2. expiration_' \in [Timers -> Nat] /\ alive' \subseteq Timers
    BY <1>1, <1>2 DEF AddTimer, Construct
  <2> QED
    BY <1>2, <2>1, <2>2 DEF AddTimer
<1>3. ASSUME NEW t \in Timers, NEW when \in 0 .. MaxTime, AddTimerHere(t, when)
      PROVE  Types'
  <2>1. /\ timers_' \subseteq Nat \X Timers /\ IsFiniteSet(timers_')
        /\ armed' \in Nat \cup {Never} /\ readable' \in BOOLEAN
    BY <1>1, <1>3, AddTimerInLoopType DEF AddTimerHere
  <2>2. expiration_' \in [Timers -> Nat] /\ alive' \subseteq Timers
    BY <1>1, <1>3 DEF AddTimerHere, Construct
  <2> QED
    BY <1>3, <2>1, <2>2 DEF AddTimerHere
<1>4. CASE RunPending
  <2>1. Head(pending) \in Timers /\ Tail(pending) \in Seq(Timers)
    BY <1>4, HeadTailProperties DEF RunPending
  <2>2. /\ timers_' \subseteq Nat \X Timers /\ IsFiniteSet(timers_')
        /\ armed' \in Nat \cup {Never} /\ readable' \in BOOLEAN
    BY <1>4, <2>1, AddTimerInLoopType DEF RunPending
  <2> QED
    BY <1>4, <2>1, <2>2 DEF RunPending
<1>5. CASE Poll
  BY <1>5 DEF Poll
<1>6. CASE HandleRead
  <2>1. GetExpired(now) \subseteq timers_
    BY DEF GetExpired
  <2>2. IsFiniteSet(GetExpired(now)) /\ IsFiniteSet(timers_')
    BY <1>6, <2>1, FS_Subset DEF HandleRead
  <2>3. expired' \in Seq(Nat \X Timers)
    BY <1>6, <2>1, <2>2, InOrderIs DEF HandleRead
  <2> QED
    BY <1>6, <2>2, <2>3 DEF HandleRead, ReadTimerFd
<1>7. CASE RunTimer
  <2>1. Head(expired) \in Nat \X Timers /\ Tail(expired) \in Seq(Nat \X Timers)
    BY <1>7, HeadTailProperties DEF RunTimer
  <2>2. done' \in Seq(Nat \X Timers)
    BY <1>7, <2>1, AppendProperties DEF RunTimer
  <2>3. runs' \in [Timers -> Nat]
    <3> DEFINE t == Head(expired)[2]
    <3>1. t \in Timers /\ runs' = [runs EXCEPT ![t] = @ + 1]
      BY <1>7, <2>1 DEF RunTimer
    <3> HIDE DEF t
    <3>2. runs[t] + 1 \in Nat
      BY <3>1
    <3> QED
      BY <3>1, <3>2
  <2> QED
    BY <1>7, <2>1, <2>2, <2>3 DEF RunTimer
<1>8. CASE StartReset \/ HandleReadReturns
  BY <1>8 DEF StartReset, HandleReadReturns
<1>9. CASE Reset
  <2> DEFINE t == Head(done)[2]
  <2>1. t \in Timers /\ Tail(done) \in Seq(Nat \X Timers)
    <3>1. done \in Seq(Nat \X Timers) /\ done # <<>>
      BY <1>9 DEF Reset
    <3>2. Head(done) \in Nat \X Timers /\ Tail(done) \in Seq(Nat \X Timers)
      BY <3>1, HeadTailProperties
    <3> QED
      BY <3>2
  <2>2. Restart(t) \in Nat
    <3> HIDE DEF t
    <3>1. Interval[t] \in Nat
      BY <2>1, IntervalAssumption
    <3> QED
      BY <1>1, <3>1 DEF Restart
  <2>3. /\ expiration_' = [expiration_ EXCEPT ![t] = Restart(t)] \/ expiration_' = expiration_
        /\ timers_' = timers_ \cup {<<Restart(t), t>>} \/ timers_' = timers_
        /\ alive' \subseteq alive
    BY <1>9 DEF Reset
  <2> HIDE DEF t
  <2>4. expiration_' \in [Timers -> Nat] /\ timers_' \subseteq Nat \X Timers
    <3>1. expiration_' \in [Timers -> Nat]
      BY <2>1, <2>2, <2>3
    <3>2. <<Restart(t), t>> \in Nat \X Timers
      BY <2>1, <2>2
    <3>3. timers_' \subseteq Nat \X Timers
      BY <2>3, <3>2
    <3> QED
      BY <3>1, <3>3
  <2>5. IsFiniteSet(timers_')
    <3>1. IsFiniteSet(timers_ \cup {<<Restart(t), t>>})
      BY FS_AddElement
    <3> QED
      BY <2>3, <3>1
  <2>6. armed' \in Nat \cup {Never} /\ readable' \in BOOLEAN
    <3>1. CASE timers_' = {}
      BY <1>9, <3>1 DEF Reset
    <3>2. CASE timers_' # {}
      <4>1. Earliest(timers_') \in Nat
        BY <2>4, <3>2, EarliestIs
      <4> QED
        BY <1>1, <1>9, <3>2, <4>1, ResetTimerfdIs DEF Reset
    <3> QED
      BY <3>1, <3>2
  <2> QED
    BY <1>9, <2>1, <2>3, <2>4, <2>5, <2>6 DEF Reset
<1>10. CASE Tick
  <2>1. now' \in 0 .. MaxTime
    BY <1>1, <1>10 DEF Tick
  <2>2. armed' \in Nat \cup {Never} /\ readable' \in BOOLEAN
    <3>1. (armed' = Never /\ readable' = TRUE) \/ (armed' = armed /\ readable' = readable)
      BY <1>10, Zenon DEF Tick
    <3> QED
      BY <3>1
  <2> QED
    BY <1>10, <2>1, <2>2 DEF Tick
<1>11. CASE UNCHANGED vars
  BY <1>11 DEF vars
<1> QED
  BY <1>2, <1>3, <1>4, <1>5, <1>6, <1>7, <1>8, <1>9, <1>10, <1>11 DEF Next

\* The state keeps its type (TimerQueue.cc, all of it).
THEOREM TypeCorrect == Spec => []TypeOK
<1>1. Spec => []Types
  BY InitTypes, StepTypes, PTL DEF Spec
<1> QED
  BY <1>1, PTL DEF Types

-----------------------------------------------------------------------------
(* The timerfd.                                                            *)

\* The timerfd is set to a time at which an entry is due and no later than
\* any entry, the least delay aside.
ArmedExact ==
  /\ armed # Never
  /\ \E e \in timers_ : e[1] <= armed
  /\ \A e \in timers_ : armed <= e[1] \/ armed <= now + MinDelay

\* It has fired, and an entry is due.
Fired == (readable \/ active) /\ \E e \in timers_ : e[1] <= now

\* Between handleRead's rounds the vector says that reset will set it.
PcInv ==
  /\ pc = "idle" => expired = <<>> /\ done = <<>>
  /\ pc = "reset" => expired = <<>>

ArmInv ==
  /\ PcInv
  /\ timers_ # {} => ArmedExact \/ Fired \/ expired # <<>> \/ done # <<>>

LEMMA ArmInit == Init => ArmInv
BY DEF Init, ArmInv, PcInv

\* addTimerInLoop leaves the timerfd set for the earliest if it was.
LEMMA AddTimerInLoopArms ==
  ASSUME Types, NEW t \in Timers, NEW when \in Nat, AddTimerInLoop(t, when),
         now' = now, active' = active,
         timers_ # {} => ArmedExact \/ Fired
  PROVE  (ArmedExact \/ Fired)'
<1>1. /\ now \in Nat /\ MinDelay \in Nat /\ armed \in Nat \cup {Never}
      /\ timers_ \in SUBSET (Nat \X Timers)
      /\ \A e \in timers_ : e[1] \in Nat
  BY MaxTimeAssumption, MinDelayAssumption DEF Types, TypeOK
<1>2. timers_' = timers_ \cup {<<when, t>>}
  BY DEF AddTimerInLoop
<1>3. CASE EarliestChanged(when)
  <2>1. \A e \in timers_ : when <= e[1]
    BY <1>1, <1>3, EarliestIs DEF EarliestChanged
  <2>2. /\ armed' # Never /\ when <= armed'
        /\ armed' = IF when >= now + MinDelay THEN when ELSE now + MinDelay
    BY <1>1, <1>3, ResetTimerfdIs DEF AddTimerInLoop
  <2>3. \E e \in timers_' : e[1] <= armed'
    <3>1. <<when, t>> \in timers_' /\ <<when, t>>[1] <= armed'
      BY <1>2, <2>2
    <3> QED
      BY <3>1
  <2>4. \A e \in timers_' : armed' <= e[1] \/ armed' <= now + MinDelay
    <3> SUFFICES ASSUME NEW e \in timers_'
                 PROVE  armed' <= e[1] \/ armed' <= now + MinDelay
      OBVIOUS
    <3>1. when <= e[1] /\ e[1] \in Nat
      BY <1>1, <1>2, <2>1
    <3> QED
      BY <1>1, <2>2, <3>1
  <2> QED
    BY <2>2, <2>3, <2>4 DEF ArmedExact
<1>4. CASE ~EarliestChanged(when)
  <2>1. timers_ # {} /\ armed' = armed /\ readable' = readable
    BY <1>4 DEF AddTimerInLoop, EarliestChanged
  <2>2. PICK f \in timers_ : f[1] <= when
    <3>1. Earliest(timers_) <= when /\ \E e \in timers_ : e[1] = Earliest(timers_)
      BY <1>1, <1>4, <2>1, EarliestIs DEF EarliestChanged
    <3> QED
      BY <3>1
  <2>3. CASE ArmedExact
    <3>1. armed' # Never /\ \E e \in timers_' : e[1] <= armed'
      BY <1>2, <2>1, <2>3 DEF ArmedExact
    <3>2. armed \in Nat
      BY <1>1, <2>3 DEF ArmedExact
    <3>3. armed <= when \/ armed <= now + MinDelay
      BY <1>1, <2>2, <2>3, <3>2 DEF ArmedExact
    <3>4. \A e \in timers_' : armed' <= e[1] \/ armed' <= now + MinDelay
      BY <1>2, <2>1, <2>3, <3>3 DEF ArmedExact
    <3> QED
      BY <3>1, <3>4 DEF ArmedExact
  <2>4. CASE Fired
    <3>1. \E e \in timers_' : e[1] <= now
      BY <1>2, <2>4 DEF Fired
    <3> QED
      BY <2>1, <2>4, <3>1 DEF Fired
  <2> QED
    BY <2>1, <2>3, <2>4
<1> QED
  BY <1>3, <1>4

LEMMA PcStep == Types /\ PcInv /\ [Next]_vars => PcInv'
<1> SUFFICES ASSUME Types, PcInv, [Next]_vars PROVE PcInv'
  OBVIOUS
<1> USE DEF PcInv, fdVars, handleVars
<1>1. ASSUME NEW t \in Timers, NEW when \in 0 .. MaxTime,
             AddTimer(t, when) \/ AddTimerHere(t, when)
      PROVE  PcInv'
  BY <1>1 DEF AddTimer, AddTimerHere
<1>2. CASE RunPending \/ Poll \/ Tick \/ UNCHANGED vars
  BY <1>2 DEF RunPending, Poll, Tick, vars
<1>3. CASE HandleRead \/ RunTimer
  BY <1>3 DEF HandleRead, RunTimer
<1>4. CASE StartReset \/ Reset \/ HandleReadReturns
  BY <1>4 DEF StartReset, Reset, HandleReadReturns
<1> QED
  BY <1>1, <1>2, <1>3, <1>4 DEF Next

LEMMA ArmStep == Types /\ ArmInv /\ [Next]_vars => ArmInv'
<1> SUFFICES ASSUME Types, ArmInv, [Next]_vars PROVE ArmInv'
  OBVIOUS
<1> DEFINE Set == timers_ # {} => ArmedExact \/ Fired \/ expired # <<>> \/ done # <<>>
<1>1. PcInv'
  BY PcStep DEF ArmInv
<1>2. /\ now \in Nat /\ MinDelay \in Nat /\ armed \in Nat \cup {Never}
      /\ timers_ \in SUBSET (Nat \X Timers)
      /\ \A e \in timers_ : e[1] \in Nat
  BY MaxTimeAssumption, MinDelayAssumption DEF Types, TypeOK
<1> SUFFICES Set'
  BY <1>1 DEF ArmInv
<1>3. Set /\ PcInv
  BY DEF ArmInv
<1>4. ASSUME NEW t \in Timers, NEW when \in 0 .. MaxTime, AddTimer(t, when)
      PROVE  Set'
  BY <1>3, <1>4 DEF AddTimer, fdVars, handleVars, ArmedExact, Fired
<1>5. ASSUME NEW t \in Timers, NEW when \in 0 .. MaxTime, AddTimerHere(t, when)
      PROVE  Set'
  <2>1. CASE expired # <<>> \/ done # <<>>
    BY <1>5, <2>1 DEF AddTimerHere, handleVars
  <2>2. CASE expired = <<>> /\ done = <<>>
    <3>1. /\ AddTimerInLoop(t, when) /\ now' = now /\ active' = active
          /\ timers_ # {} => ArmedExact \/ Fired
          /\ when \in Nat
      BY <1>3, <1>5, <2>2 DEF AddTimerHere
    <3>2. (ArmedExact \/ Fired)'
      BY <3>1, AddTimerInLoopArms
    <3> QED
      BY <3>2
  <2> QED
    BY <2>1, <2>2
<1>6. CASE RunPending
  <2>1. Head(pending) \in Timers /\ expiration_[Head(pending)] \in Nat
    <3>1. Head(pending) \in Timers
      BY <1>6, HeadTailProperties DEF RunPending, Types, TypeOK
    <3> QED
      BY <3>1 DEF Types, TypeOK
  <2>2. /\ AddTimerInLoop(Head(pending), expiration_[Head(pending)])
        /\ now' = now /\ active' = active
        /\ timers_ # {} => ArmedExact \/ Fired
    BY <1>3, <1>6 DEF RunPending, PcInv
  <2>3. (ArmedExact \/ Fired)'
    BY <2>1, <2>2, AddTimerInLoopArms
  <2> QED
    BY <2>3
<1>7. CASE Poll
  BY <1>3, <1>7 DEF Poll, handleVars, ArmedExact, Fired
<1>8. CASE HandleRead
  <2> DEFINE E == GetExpired(now)
  <2>1. E \in SUBSET (Nat \X Timers) /\ IsFiniteSet(E)
    BY <1>2, FS_Subset DEF GetExpired, Types
  <2>2. expired' \in InOrder(E) /\ timers_' = timers_ \ E
    BY <1>8 DEF HandleRead
  <2>3. CASE E # {}
    <3> HIDE DEF E
    <3>1. expired' # <<>>
      BY <2>1, <2>2, <2>3, InOrderIs
    <3> QED
      BY <3>1
  <2>4. CASE E = {}
    <3>1. timers_' = timers_ /\ ~Fired
      BY <2>2, <2>4 DEF GetExpired, Fired
    <3>2. timers_ # {} => ArmedExact
      BY <1>3, <1>8, <3>1 DEF HandleRead, PcInv
    <3>3. armed' = armed /\ now' = now
      BY <1>8 DEF HandleRead
    <3> QED
      BY <3>1, <3>2, <3>3 DEF ArmedExact
  <2> QED
    BY <2>3, <2>4
<1>9. CASE RunTimer
  <2>1. done' # <<>>
    <3>1. done \in Seq(Nat \X Timers) /\ Head(expired) \in Nat \X Timers
      BY <1>9, HeadTailProperties DEF RunTimer, Types, TypeOK
    <3>2. \A s \in Seq(Nat \X Timers), x \in Nat \X Timers : Append(s, x) # <<>>
      BY AppendProperties, SMTT(20)
    <3>3. Append(done, Head(expired)) # <<>>
      BY <3>1, <3>2, Zenon
    <3> QED
      BY <1>9, <3>3 DEF RunTimer
  <2> QED
    BY <2>1
<1>10. CASE StartReset \/ HandleReadReturns
  BY <1>3, <1>10 DEF StartReset, HandleReadReturns, fdVars, ArmedExact, Fired
<1>11. CASE Reset
  <2> SUFFICES ASSUME timers_' # {} PROVE ArmedExact'
    OBVIOUS
  <2>1. timers_' \in SUBSET (Nat \X Timers) /\ now' = now
    BY <1>11, StepTypes DEF Types, TypeOK, Reset
  <2> DEFINE w == Earliest(timers_')
  <2>2. w \in Nat /\ (\E e \in timers_' : e[1] = w) /\ \A e \in timers_' : w <= e[1]
    BY <2>1, EarliestIs
  <2>3. ResetTimerfd(w)
    BY <1>11 DEF Reset
  <2> HIDE DEF w
  <2>4. /\ armed' # Never /\ w <= armed'
        /\ armed' = IF w >= now + MinDelay THEN w ELSE now + MinDelay
    BY <1>2, <2>2, <2>3, ResetTimerfdIs
  <2>5. \E e \in timers_' : e[1] <= armed'
    BY <2>2, <2>4
  <2>6. \A e \in timers_' : armed' <= e[1] \/ armed' <= now + MinDelay
    BY <1>2, <2>1, <2>2, <2>4
  <2> QED
    BY <2>1, <2>4, <2>5, <2>6 DEF ArmedExact
<1>12. CASE Tick
  <2>1. now' = now + 1 /\ timers_' = timers_ /\ active' = active /\ expired' = expired /\ done' = done
    BY <1>12 DEF Tick, handleVars
  <2>2. CASE Fired
    <3>1. (readable \/ active)'
      BY <1>12, <2>1, <2>2 DEF Tick, Fired
    <3>2. \E e \in timers_' : e[1] <= now'
      BY <1>2, <2>1, <2>2 DEF Fired
    <3> QED
      BY <3>1, <3>2 DEF Fired
  <2>3. CASE ArmedExact
    <3>1. armed \in Nat
      BY <1>2, <2>3 DEF ArmedExact
    <3>2. CASE armed <= now'
      <4>1. readable' = TRUE
        BY <1>12, <2>3, <3>2 DEF Tick, ArmedExact
      <4>2. \E e \in timers_' : e[1] <= now'
        BY <1>2, <2>1, <2>3, <3>1, <3>2 DEF ArmedExact
      <4> QED
        BY <4>1, <4>2 DEF Fired
    <3>3. CASE ~(armed <= now')
      <4>1. armed' = armed
        BY <1>12, <3>3 DEF Tick
      <4>2. \A e \in timers_ : armed <= e[1] \/ armed <= now + 1 + MinDelay
        BY <1>2, <2>3, <3>1 DEF ArmedExact
      <4> QED
        BY <2>1, <2>3, <4>1, <4>2 DEF ArmedExact
    <3> QED
      BY <3>2, <3>3
  <2> QED
    BY <1>3, <2>1, <2>2, <2>3
<1>13. CASE UNCHANGED vars
  BY <1>3, <1>13 DEF vars, ArmedExact, Fired
<1> QED
  BY <1>4, <1>5, <1>6, <1>7, <1>8, <1>9, <1>10, <1>11, <1>12, <1>13 DEF Next

\* Outside handleRead the timerfd has fired, or fires for the earliest.
LEMMA ArmImplies == Types /\ ArmInv => ArmedForEarliest
<1> SUFFICES ASSUME Types, ArmInv, pc = "idle", timers_ # {}, ~readable, ~active
             PROVE  armed # Never /\ armed <= Max({Earliest(timers_), now + MinDelay})
  BY DEF ArmedForEarliest
<1>1. ArmedExact
  BY DEF ArmInv, PcInv, Fired
<1>2. now \in Nat /\ MinDelay \in Nat /\ timers_ \in SUBSET (Nat \X Timers) /\ armed \in Nat
  BY <1>1, MaxTimeAssumption, MinDelayAssumption DEF Types, TypeOK, ArmedExact
<1> DEFINE w == Earliest(timers_)
<1>3. w \in Nat /\ \E e \in timers_ : e[1] = w
  BY <1>2, EarliestIs
<1> HIDE DEF w
<1>4. armed <= w \/ armed <= now + MinDelay
  BY <1>1, <1>3 DEF ArmedExact
<1>5. Max({w, now + MinDelay}) = IF w >= now + MinDelay THEN w ELSE now + MinDelay
  BY <1>2, <1>3, MaxIs
<1>6. armed <= Max({w, now + MinDelay})
  BY <1>2, <1>3, <1>4, <1>5
<1> QED
  BY <1>1, <1>6 DEF ArmedExact, w

\* No timer is forgotten, whatever timers are added during the callbacks and
\* however long these take: outside handleRead the timerfd has fired or will
\* fire no later than the earliest entry (insert, resetTimerfd, reset).
THEOREM TimerfdIsArmed == Spec => []ArmedForEarliest
<1>1. Init => Types /\ ArmInv
  BY InitTypes, ArmInit
<1>2. Types /\ ArmInv /\ [Next]_vars => (Types /\ ArmInv)'
  BY StepTypes, ArmStep
<1> QED
  BY <1>1, <1>2, ArmImplies, PTL DEF Spec

-----------------------------------------------------------------------------
(* Where a timer is.                                                       *)

\* Every timer that is queued, waits, has expired or has run exists, and it is
\* in one of these places only; an entry has its timer's expiration until the
\* timer is restarted.
Placed(X, D, P) ==
  /\ \A e \in timers_ : e[2] \in alive /\ e[1] = expiration_[e[2]]
  /\ \A e \in X : e[2] \in alive /\ e[1] = expiration_[e[2]] /\ e[1] <= now
  /\ \A e \in D : e[2] \in alive /\ e[1] = expiration_[e[2]]
  /\ \A t \in P : t \in alive
  /\ \A e \in X, d \in timers_ : e[2] # d[2]
  /\ \A e \in D, d \in timers_ : e[2] # d[2]
  /\ \A e \in X, d \in D : e[2] # d[2]
  /\ \A t \in P, e \in timers_ \cup X \cup D : t # e[2]

\* A one-shot timer that has run is nowhere it could run from again.
Once(X, P) ==
  \A t \in Timers : Interval[t] = 0 /\ runs[t] # 0 =>
    t \notin P /\ \A e \in timers_ \cup X : t # e[2]

\* With the lists as sets, and each timer in its list once.
PlaceInv ==
  /\ Placed(Elements(expired), Elements(done), Elements(pending))
  /\ Once(Elements(expired), Elements(pending))
  /\ Distinct(expired) /\ Distinct(done) /\ Distinct(pending)

LEMMA PairsAreEqual ==
  ASSUME NEW e \in Nat \X Timers, NEW d \in Nat \X Timers, e[1] = d[1], e[2] = d[2]
  PROVE  e = d
OBVIOUS

LEMMA PlaceInit == Init => PlaceInv
<1> SUFFICES ASSUME Init PROVE PlaceInv
  OBVIOUS
<1>1. expired = <<>> /\ done = <<>> /\ pending = <<>> /\ timers_ = {}
  BY DEF Init
<1>2. Elements(<<>>) = {} /\ Distinct(<<>>)
  BY DEF Elements, Distinct
<1>3. \A t \in Timers : runs[t] = 0
  BY DEF Init
<1> QED
  BY <1>1, <1>2, <1>3 DEF PlaceInv, Placed, Once

LEMMA PlaceStep == Types /\ PcInv /\ PlaceInv /\ [Next]_vars => PlaceInv'
<1> SUFFICES ASSUME Types, PcInv, PlaceInv, [Next]_vars PROVE PlaceInv'
  OBVIOUS
<1> DEFINE X == Elements(expired)
           D == Elements(done)
           P == Elements(pending)
           N == Nat \X Timers
<1>1. /\ now \in Nat /\ timers_ \subseteq N /\ X \subseteq N /\ D \subseteq N /\ P \subseteq Timers
      /\ expiration_ \in [Timers -> Nat] /\ alive \subseteq Timers /\ runs \in [Timers -> Nat]
      /\ expired \in Seq(N) /\ done \in Seq(N) /\ pending \in Seq(Timers)
  BY MaxTimeAssumption, ElementsType DEF Types, TypeOK
<1>2. /\ Placed(X, D, P) /\ Once(X, P)
      /\ Distinct(expired) /\ Distinct(done) /\ Distinct(pending)
  BY DEF PlaceInv
<1>3. SUFFICES /\ Placed(X, D, P)' /\ Once(X, P)'
               /\ Distinct(expired') /\ Distinct(done') /\ Distinct(pending')
  BY DEF PlaceInv, Distinct
<1>4. Elements(<<>>) = {} /\ Distinct(<<>>)
  BY DEF Elements, Distinct
<1>5. ASSUME NEW t \in Timers, NEW when \in 0 .. MaxTime, AddTimer(t, when)
      PROVE  /\ Placed(X, D, P)' /\ Once(X, P)'
             /\ Distinct(expired') /\ Distinct(done') /\ Distinct(pending')
  <2>1. /\ t \notin alive /\ runs[t] = 0 /\ alive' = alive \cup {t}
        /\ expiration_' = [expiration_ EXCEPT ![t] = when]
        /\ pending' = Append(pending, t)
        /\ timers_' = timers_ /\ now' = now /\ runs' = runs
        /\ expired' = expired /\ done' = done
    BY <1>5 DEF AddTimer, Construct, handleVars
  <2>2. X' = X /\ D' = D /\ P' = P \cup {t}
    BY <1>1, <2>1, AppendSet
  <2>3. Distinct(pending')
    <3>1. \A u \in P : u # t
      BY <1>2, <2>1 DEF Placed
    <3> QED
      BY <1>1, <1>2, <2>1, <3>1, DistinctAppend
  <2> HIDE DEF X, D, P
  <2>4. Placed(X, D, P)'
    BY <1>1, <1>2, <2>1, <2>2 DEF Placed
  <2>5. Once(X, P)'
    BY <1>1, <1>2, <2>1, <2>2 DEF Once
  <2> QED
    BY <1>2, <2>1, <2>3, <2>4, <2>5
<1>6. ASSUME NEW t \in Timers, NEW when \in 0 .. MaxTime, AddTimerHere(t, when)
      PROVE  /\ Placed(X, D, P)' /\ Once(X, P)'
             /\ Distinct(expired') /\ Distinct(done') /\ Distinct(pending')
  <2>1. /\ t \notin alive /\ runs[t] = 0 /\ alive' = alive \cup {t}
        /\ expiration_' = [expiration_ EXCEPT ![t] = when]
        /\ timers_' = timers_ \cup {<<when, t>>}
        /\ pending' = pending /\ now' = now /\ runs' = runs
        /\ expired' = expired /\ done' = done
    BY <1>6 DEF AddTimerHere, AddTimerInLoop, Construct, handleVars
  <2>2. X' = X /\ D' = D /\ P' = P
    BY <2>1
  <2> HIDE DEF X, D, P
  <2>3. Placed(X, D, P)'
    BY <1>1, <1>2, <2>1, <2>2 DEF Placed
  <2>4. Once(X, P)'
    BY <1>1, <1>2, <2>1, <2>2 DEF Once
  <2> QED
    BY <1>2, <2>1, <2>3, <2>4
<1>7. CASE RunPending
  <2> DEFINE t == Head(pending)
  <2>1. /\ pending # <<>> /\ pending' = Tail(pending)
        /\ timers_' = timers_ \cup {<<expiration_[t], t>>}
        /\ expiration_' = expiration_ /\ alive' = alive /\ now' = now /\ runs' = runs
        /\ expired' = expired /\ done' = done
    BY <1>7 DEF RunPending, AddTimerInLoop, handleVars
  <2>2. X' = X /\ D' = D /\ P = P' \cup {t} /\ t \in Timers
    BY <1>1, <2>1, TailSet
  <2>3. Distinct(pending') /\ t \notin P'
    BY <1>1, <1>2, <2>1, DistinctTail
  <2> HIDE DEF X, D, P, t
  <2>4. Placed(X, D, P)'
    <3>1. t \in alive /\ \A e \in timers_ \cup X \cup D : t # e[2]
      BY <1>2, <2>2 DEF Placed
    <3>2. \A e \in timers_' : e[2] \in alive /\ e[1] = expiration_[e[2]]
      BY <1>2, <2>1, <3>1 DEF Placed
    <3>3. \A u \in P', e \in timers_' \cup X \cup D : u # e[2]
      BY <1>2, <2>1, <2>2, <2>3 DEF Placed
    <3>4. \A e \in X \cup D, d \in timers_' : e[2] # d[2]
      BY <1>2, <2>1, <3>1 DEF Placed
    <3> QED
      BY <1>2, <2>1, <2>2, <3>2, <3>3, <3>4 DEF Placed
  <2>5. Once(X, P)'
    BY <1>1, <1>2, <2>1, <2>2, <2>3 DEF Once
  <2> QED
    BY <1>2, <2>1, <2>3, <2>4, <2>5
<1>8. CASE HandleRead
  <2> DEFINE E == GetExpired(now)
  <2>1. /\ expired' \in InOrder(E) /\ timers_' = timers_ \ E
        /\ expiration_' = expiration_ /\ alive' = alive /\ now' = now /\ runs' = runs
        /\ pending' = pending /\ done' = done
    BY <1>8 DEF HandleRead
  <2>2. E \subseteq timers_ /\ \A e \in E : e[1] <= now
    BY DEF GetExpired
  <2>3. IsFiniteSet(E) /\ E \in SUBSET N
    BY <1>1, <2>2, FS_Subset DEF Types
  <2>4. expired = <<>> /\ D = {} /\ D' = {} /\ P' = P
    BY <1>4, <1>8, <2>1 DEF PcInv, HandleRead
  <2> HIDE DEF E
  <2>5. expired' \in Seq(E) /\ Distinct(expired')
    BY <2>1, <2>3, InOrderIs DEF Distinct
  <2>6. X' \subseteq E
    BY <2>5, ElementsType
  <2> HIDE DEF X, D, P
  <2>7. \A e \in E, d \in timers_ \ E : e[2] # d[2]
    <3> SUFFICES ASSUME NEW e \in E, NEW d \in timers_ \ E, e[2] = d[2] PROVE FALSE
      OBVIOUS
    <3>1. e[1] = d[1]
      BY <1>2, <2>2 DEF Placed
    <3>2. e \in N /\ d \in N
      BY <1>1, <2>2
    <3>3. e = d
      BY <3>1, <3>2, PairsAreEqual
    <3> QED
      BY <3>3
  <2>8. Placed(X, D, P)'
    BY <1>2, <2>1, <2>2, <2>4, <2>6, <2>7 DEF Placed
  <2>9. Once(X, P)'
    BY <1>2, <2>1, <2>2, <2>4, <2>6 DEF Once
  <2> QED
    BY <1>2, <2>1, <2>5, <2>8, <2>9
<1>9. CASE RunTimer
  <2> DEFINE h == Head(expired)
             t == h[2]
  <2>1. /\ expired # <<>> /\ expired' = Tail(expired) /\ done' = Append(done, h)
        /\ runs' = [runs EXCEPT ![t] = @ + 1]
        /\ expiration_' = expiration_ /\ alive' = alive /\ now' = now /\ timers_' = timers_
        /\ pending' = pending
    BY <1>9 DEF RunTimer
  <2>2. X = X' \cup {h} /\ h \in N
    BY <1>1, <2>1, TailSet
  <2>3. D' = D \cup {h} /\ P' = P
    <3>1. done \in Seq(N) /\ h \in N
      BY <1>1, <2>2
    <3> HIDE DEF h, N
    <3>2. \A s \in Seq(N), x \in N : Elements(Append(s, x)) = Elements(s) \cup {x}
      BY AppendSet, Zenon
    <3>3. Elements(Append(done, h)) = Elements(done) \cup {h}
      BY <3>1, <3>2, Zenon
    <3> QED
      BY <2>1, <3>3
  <2>4. Distinct(expired') /\ \A e \in X' : e # h
    BY <1>1, <1>2, <2>1, DistinctTail
  <2>5. Distinct(done')
    <3>1. \A e \in D : e # h
      BY <1>2, <2>2 DEF Placed
    <3> QED
      BY <1>1, <1>2, <2>1, <2>2, <3>1, DistinctAppend
  <2>6. t \in Timers
    BY <2>2
  <2> HIDE DEF X, D, P, h
  <2>7. \A e \in X' : e[2] # t
    <3> SUFFICES ASSUME NEW e \in X', e[2] = h[2] PROVE FALSE
      OBVIOUS
    <3>1. e[1] = h[1]
      BY <1>2, <2>2 DEF Placed
    <3>2. e \in N /\ h \in N
      BY <1>1, <2>2
    <3>3. e = h
      BY <3>1, <3>2, PairsAreEqual
    <3> QED
      BY <2>4, <3>3
  <2>8. Placed(X, D, P)'
    BY <1>2, <2>1, <2>2, <2>3, <2>7 DEF Placed
  <2>9. Once(X, P)'
    <3>1. t \notin P /\ \A e \in timers_ : t # e[2]
      BY <1>2, <2>2 DEF Placed
    <3>2. \A u \in Timers : u # t => runs'[u] = runs[u]
      BY <1>1, <2>1
    <3> HIDE DEF t
    <3>3. ASSUME NEW u \in Timers, Interval[u] = 0, runs'[u] # 0
          PROVE  u \notin P /\ \A e \in timers_ \cup X' : u # e[2]
      <4>1. CASE u = t
        BY <2>7, <3>1, <4>1
      <4>2. CASE u # t
        BY <1>2, <2>2, <3>2, <3>3, <4>2 DEF Once
      <4> QED
        BY <4>1, <4>2
    <3> QED
      BY <2>1, <2>3, <3>3 DEF Once
  <2> QED
    BY <1>2, <2>1, <2>4, <2>5, <2>8, <2>9
<1>10. CASE Reset
  <2> DEFINE h == Head(done)
             t == h[2]
             next == Restart(t)
  <2>1. /\ done # <<>> /\ done' = Tail(done) /\ expired = <<>> /\ expired' = <<>>
        /\ runs' = runs /\ now' = now /\ pending' = pending
    BY <1>10 DEF Reset, PcInv
  <2>2. D = D' \cup {h} /\ h \in N /\ X = {} /\ X' = {} /\ P' = P
    BY <1>1, <1>4, <2>1, TailSet
  <2>3. Distinct(done') /\ \A e \in D' : e # h
    BY <1>1, <1>2, <2>1, DistinctTail
  <2>4. t \in Timers
    BY <2>2
  <2>5. \/ /\ Interval[t] > 0
           /\ expiration_' = [expiration_ EXCEPT ![t] = next]
           /\ timers_' = timers_ \cup {<<next, t>>} /\ alive' = alive
        \/ alive' = alive \ {t} /\ expiration_' = expiration_ /\ timers_' = timers_
    BY <1>10 DEF Reset
  <2> HIDE DEF X, D, P, h, next
  <2>6. \A e \in D' : e[2] # t
    <3> SUFFICES ASSUME NEW e \in D', e[2] = h[2] PROVE FALSE
      OBVIOUS
    <3>1. e[1] = h[1]
      BY <1>2, <2>2 DEF Placed
    <3>2. e \in N /\ h \in N
      BY <1>1, <2>2
    <3>3. e = h
      BY <3>1, <3>2, PairsAreEqual
    <3> QED
      BY <2>3, <3>3
  <2>7. t \notin P /\ t \in alive /\ \A e \in timers_ : t # e[2]
    BY <1>2, <2>2 DEF Placed
  <2> HIDE DEF t
  <2>8. Placed(X, D, P)'
    <3>1. CASE /\ expiration_' = [expiration_ EXCEPT ![t] = next]
               /\ timers_' = timers_ \cup {<<next, t>>} /\ alive' = alive
      BY <1>1, <1>2, <2>2, <2>4, <2>6, <2>7, <3>1 DEF Placed
    <3>2. CASE alive' = alive \ {t} /\ expiration_' = expiration_ /\ timers_' = timers_
      BY <1>2, <2>2, <2>6, <2>7, <3>2 DEF Placed
    <3> QED
      BY <2>5, <3>1, <3>2
  <2>9. Once(X, P)'
    <3>1. CASE Interval[t] > 0 /\ timers_' = timers_ \cup {<<next, t>>}
      <4>1. Interval[t] # 0
        BY <3>1
      <4> QED
        BY <1>2, <2>1, <2>2, <3>1, <4>1 DEF Once
    <3>2. CASE timers_' = timers_
      BY <1>2, <2>1, <2>2, <3>2 DEF Once
    <3> QED
      BY <2>5, <3>1, <3>2
  <2> QED
    BY <1>2, <1>4, <2>1, <2>3, <2>8, <2>9
<1>11. CASE Tick
  <2>1. /\ now' = now + 1 /\ timers_' = timers_ /\ expiration_' = expiration_
        /\ alive' = alive /\ runs' = runs
        /\ expired' = expired /\ done' = done /\ pending' = pending
    BY <1>11 DEF Tick, handleVars
  <2>2. X' = X /\ D' = D /\ P' = P
    BY <2>1
  <2> HIDE DEF X, D, P
  <2>3. \A e \in X : e[1] <= now'
    BY <1>1, <1>2, <2>1 DEF Placed
  <2> QED
    BY <1>2, <2>1, <2>2, <2>3 DEF Placed, Once
<1>12. CASE Poll \/ StartReset \/ HandleReadReturns \/ UNCHANGED vars
  <2>1. /\ now' = now /\ timers_' = timers_ /\ expiration_' = expiration_
        /\ alive' = alive /\ runs' = runs
        /\ expired' = expired /\ done' = done /\ pending' = pending
    BY <1>12 DEF Poll, StartReset, HandleReadReturns, vars, handleVars
  <2>2. X' = X /\ D' = D /\ P' = P
    BY <2>1
  <2> HIDE DEF X, D, P
  <2> QED
    BY <1>2, <2>1, <2>2 DEF Placed, Once
<1> QED
  BY <1>5, <1>6, <1>7, <1>8, <1>9, <1>10, <1>11, <1>12 DEF Next

\* What the three invariants say together is inductive.
QueueInv == Types /\ PcInv /\ PlaceInv

LEMMA AlwaysQueueInv == Spec => []QueueInv
<1>1. Init => QueueInv
  BY InitTypes, ArmInit, PlaceInit DEF QueueInv, ArmInv
<1>2. QueueInv /\ [Next]_vars => QueueInv'
  BY StepTypes, PcStep, PlaceStep DEF QueueInv
<1> QED
  BY <1>1, <1>2, PTL DEF Spec

\* No entry is left of a timer that reset has deleted, none is out of date,
\* and a timer that is being run is not in the set as well (getExpired, reset).
THEOREM AlwaysEntriesAreLive == Spec => []EntriesAreLive
<1>1. QueueInv => EntriesAreLive
  BY DEF QueueInv, PlaceInv, Placed, EntriesAreLive, ToSet, Elements
<1> QED
  BY <1>1, AlwaysQueueInv, PTL

\* A callback runs when its timer's expiration has passed, and that of a
\* one-shot timer runs once (getExpired, handleRead, reset).
THEOREM CallbacksNeverEarly == Spec => NeverEarly
<1>1. QueueInv /\ [Next]_vars =>
        [\A t \in Timers : runs'[t] # runs[t] =>
           /\ expiration_[t] <= now
           /\ Interval[t] = 0 => runs[t] = 0]_vars
  <2> SUFFICES ASSUME QueueInv, [Next]_vars
               PROVE  \A t \in Timers : runs'[t] # runs[t] =>
                        expiration_[t] <= now /\ (Interval[t] = 0 => runs[t] = 0)
    OBVIOUS
  <2>1. CASE RunTimer
    <3> DEFINE h == Head(expired)
    <3>1. expired \in Seq(Nat \X Timers) /\ runs \in [Timers -> Nat] /\ PlaceInv
      BY DEF QueueInv, Types, TypeOK
    <3>2. expired # <<>> /\ runs' = [runs EXCEPT ![h[2]] = @ + 1]
      BY <2>1 DEF RunTimer
    <3>3. h \in Elements(expired) /\ h \in Nat \X Timers
      BY <3>1, <3>2, TailSet
    <3>4. expiration_[h[2]] <= now
      BY <3>1, <3>3 DEF PlaceInv, Placed
    <3>5. Interval[h[2]] = 0 => runs[h[2]] = 0
      BY <3>1, <3>3 DEF PlaceInv, Once
    <3> HIDE DEF h
    <3>6. \A t \in Timers : runs'[t] # runs[t] => t = h[2]
      BY <3>1, <3>2
    <3> QED
      BY <3>4, <3>5, <3>6
  <2>2. CASE ~RunTimer
    <3>1. runs' = runs
      BY <2>2 DEF Next, AddTimer, AddTimerHere, RunPending, Poll, HandleRead, StartReset,
                        Reset, HandleReadReturns, Tick, vars, handleVars
    <3> QED
      BY <3>1
  <2> QED
    BY <2>1, <2>2
<1> QED
  BY <1>1, AlwaysQueueInv, PTL DEF Spec, NeverEarly
=============================================================================
