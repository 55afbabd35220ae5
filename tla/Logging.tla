------------------------------ MODULE Logging ------------------------------
(***************************************************************************)
(* The log from the LOG_ macros to the disk: Logger's lines are output by  *)
(* asyncLog (src/src/main.cc), that is, appended to AsyncLogging, which    *)
(* writes them to its LogFile.  Only the output of a line is shared        *)
(* between threads, so a whole line is one step; the abort() that follows  *)
(* a FATAL line is another, and the other threads go on in between.        *)
(*                                                                         *)
(* The initial state is that of main() after setOutput().  g_flush stays   *)
(* defaultFlush, which flushes stdout and nothing of AsyncLogging.         *)
(***************************************************************************)
EXTENDS AsyncLogging, Logger

CONSTANTS Bodies,         \* the messages: sequences of pieces
          OpenLogging     \* OPEN_LOGGING is defined

ASSUME OpenLoggingAssumption == OpenLogging \in BOOLEAN
ASSUME BodiesAssumption ==
  \A body \in Bodies : body \in Seq(Piece) /\ LogLine(body).size \in Lens

VARIABLES
  streams,    \* history: what was in the LogStream of each line
  fatal,      \* a thread has output a FATAL line and is about to abort
  aborted     \* abort() has been called: the process has ended

loggerVars == <<streams, fatal, aborted>>
allVars == <<vars, loggerVars>>

\* LOG_DEBUG always logs; the other macros are empty without OPEN_LOGGING.
\* INFO, WARN and ERROR lines are handled like DEBUG ones.
Levels == IF OpenLogging THEN {"DEBUG", "FATAL"} ELSE {"DEBUG"}

LoggingInit ==
  /\ Init
  /\ streams = <<>>
  /\ fatal = FALSE
  /\ aborted = FALSE

\* ~Logger up to g_output, which is asyncLog.
Log(level, body) ==
  /\ AppendLine(LogLine(body).size)
  /\ streams' = Append(streams, LogLine(body))
  /\ fatal' = (fatal \/ level = "FATAL")
  /\ UNCHANGED aborted

\* The rest of ~Logger for a FATAL line: g_flush() and abort().
Abort ==
  /\ fatal
  /\ aborted' = TRUE
  /\ UNCHANGED <<vars, streams, fatal>>

LoggedBackEnd == ~aborted /\ BackEnd /\ UNCHANGED loggerVars

LoggingNext ==
  \/ LoggedBackEnd
  \/ /\ ~aborted
     /\ \/ \E level \in Levels, body \in Bodies : Log(level, body)
        \/ Main /\ UNCHANGED loggerVars
        \/ Abort

\* The back end runs; the end of its wait is the timeout's at the latest.
LoggingSpec == LoggingInit /\ [][LoggingNext]_allVars /\ WF_allVars(LoggedBackEnd)

-----------------------------------------------------------------------------
(* Properties.                                                             *)

EndsWithNewline(b) == b.lines[Len(b.lines)] = Newline

\* A line has its newline unless the pieces before it have filled the small
\* buffer to the last byte that append uses; no line outgrows that buffer, so
\* every one fits into a large buffer; and what is appended is what was built.
LinesAreWhole ==
  \A i \in DOMAIN streams :
    /\ streams[i].size < kSmallBufferSize
    /\ EndsWithNewline(streams[i]) \/ streams[i].size = kSmallBufferSize - 1
    /\ appended[i].len = streams[i].size

OnDisk(n) == \E i \in 1 .. output.onDisk : output.lines[i].n = n

\* While logging runs, every line reaches the disk, full buffers or not, if
\* its write does not fail.
LinesReachDisk ==
  \A n \in 1 .. MaxLines :
    Len(appended) >= n /\ running_ ~> OnDisk(n) \/ n \in lost \/ ~running_ \/ aborted

\* stop() ends the back end, even if it comes between the test of running_ and
\* the wait.
StopEndsBackEnd == ~running_ /\ bpc # "none" ~> bpc = "exited" \/ aborted
=============================================================================
