----------------------------- MODULE MCLogging -----------------------------
(* Logging with large buffers of three ordinary lines, and messages that   *)
(* leave room for everything, and for neither line number nor newline.     *)
EXTENDS Logging

MCBodies == {<<Text(1354)>>, <<Number(5), Text(4048)>>}
MCCounts == {-1, 1}
MCLens == {LogLine(body).size : body \in MCBodies}
=============================================================================
