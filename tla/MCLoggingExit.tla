--------------------------- MODULE MCLoggingExit ---------------------------
(* Logging with a history variable: how many lines had been appended when  *)
(* stop() stored running_.                                                 *)
EXTENDS MCLogging

VARIABLE stopAt

ExitInit == LoggingInit /\ stopAt = 0

ExitNext ==
  /\ LoggingNext
  /\ stopAt' = IF running_ /\ ~running_' THEN Len(appended) ELSE stopAt

ExitSpec == ExitInit /\ [][ExitNext]_<<allVars, stopAt>>

\* The comment at the end of threadFunc (AsyncLogging.cc:214-215): all data is
\* written when the back end ends, at least what was appended before stop().
AllWrittenAtExit == bpc = "exited" => Len(output.lines) >= stopAt
=============================================================================
