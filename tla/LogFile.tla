------------------------------ MODULE LogFile ------------------------------
(***************************************************************************)
(* LogFile (src/log/LogFile.cc) and the FileUtil it writes to, as a record *)
(* that each member function maps to the next one:                         *)
(*   lines          everything handed to the files so far, in order        *)
(*   onDisk         how many of the lines are certainly outside the        *)
(*                  process: flushed, or in a file that has been closed    *)
(*   writtenBytes   of the open file                                       *)
(*   count, startOfPeriod, lastRoll, lastFlush      the members            *)
(* and four history fields: at, the time of the last append; since, the    *)
(* time at which the oldest line that is not on disk was written; stale,   *)
(* how many appends the open file has had in a period that is not its own; *)
(* checked, the period has been looked at.                                 *)
(*                                                                         *)
(* Times are seconds of time(NULL), which is taken not to go back.         *)
(***************************************************************************)
EXTENDS Integers, Sequences

CONSTANTS RollSize,         \* rollsize_
          FlushInterval,    \* flushInterval_
          CheckEveryN,      \* checkEveryN_
          RollPerSeconds    \* kRollPerSeconds_

ASSUME RollAssumption ==
  /\ RollSize \in Nat /\ FlushInterval \in Nat
  /\ CheckEveryN \in Nat \ {0} /\ RollPerSeconds \in Nat \ {0}

\* The members before the constructor's body.  count_ is not initialised.
NewLogFile(count) ==
  [lines |-> <<>>, onDisk |-> 0, writtenBytes |-> 0, count |-> count,
   startOfPeriod |-> 0, lastRoll |-> 0, lastFlush |-> 0,
   at |-> 0, since |-> 0, stale |-> 0, checked |-> FALSE]

Period(now) == (now \div RollPerSeconds) * RollPerSeconds

Flush(f) == [f EXCEPT !.onDisk = Len(f.lines), !.at = 0, !.since = 0]

\* rollFile: a new file replaces the open one, whose fclose flushes it, unless
\* the open one has been opened in this very second.
RollFile(f, now) ==
  IF now > f.lastRoll
    THEN [Flush(f) EXCEPT !.lastFlush = now, !.lastRoll = now, !.startOfPeriod = Period(now),
                          !.writtenBytes = 0, !.stale = 0]
    ELSE f

\* appendInlock up to ++count_, with FileUtil::append: fwrite takes the lines,
\* of len bytes, or fails after some of them, and then none are counted.
\* ++count_ stops at checkEveryN_, from where on all its values are alike.
Write(f, lines, len, failed, now) ==
  [f EXCEPT !.lines = f.lines \o lines,
            !.writtenBytes = IF failed THEN f.writtenBytes ELSE f.writtenBytes + len,
            !.count = IF f.count < CheckEveryN THEN f.count + 1 ELSE f.count,
            !.at = now,
            !.since = IF f.onDisk = Len(f.lines) THEN now ELSE f.since,
            !.stale = IF Period(now) # f.startOfPeriod THEN f.stale + 1 ELSE f.stale]

\* Mutant: the period is looked at before the size.
RollDuePeriodFirst(f, now) ==
  IF f.count >= CheckEveryN THEN Period(now) # f.startOfPeriod ELSE f.writtenBytes > RollSize

\* Mutant: the period is never looked at.
RollDueBySizeOnly(f, now) == f.writtenBytes > RollSize

\* The size is looked at after every append, the period only after every
\* checkEveryN_-th.
RollDue(f, now) ==
  \/ f.writtenBytes > RollSize
  \/ f.count >= CheckEveryN /\ Period(now) # f.startOfPeriod

\* count_ starts again when the period has been looked at.
CountAgain(f) ==
  IF f.writtenBytes <= RollSize /\ f.count >= CheckEveryN
    THEN [f EXCEPT !.count = 0, !.checked = TRUE]
    ELSE f

\* Mutant: the interval starts again without a flush.
FlushIfDueForgotten(f, now) ==
  IF now - f.lastFlush > FlushInterval THEN [f EXCEPT !.lastFlush = now] ELSE f

FlushIfDue(f, now) ==
  IF now - f.lastFlush > FlushInterval THEN Flush([f EXCEPT !.lastFlush = now]) ELSE f

\* The rest of appendInlock.  rollFile reads the time again, as later.
RollAndFlush(f, now, later) ==
  LET counted == CountAgain(f)
  IN  FlushIfDue(IF RollDue(f, now) THEN RollFile(counted, later) ELSE counted, now)
=============================================================================
