----------------------------- MODULE TaskQueue -----------------------------
(***************************************************************************)
(* What EventLoop's task queue promises to its callers: tasks submitted    *)
(* from any thread are run one at a time, in the order of submission, each *)
(* exactly once, and every one of them eventually, unless the loop stops.  *)
(***************************************************************************)
EXTENDS Naturals, Sequences

CONSTANT Functors       \* what can be submitted

VARIABLES submitted,    \* every task ever submitted, in order
          ran,          \* every task ever started, in order
          stopped       \* the executor has left its loop for good

vars == <<submitted, ran, stopped>>

Init == submitted = <<>> /\ ran = <<>> /\ stopped = FALSE

\* A task may be submitted at any time, even to an executor that has stopped.
Submit(f) ==
    /\ submitted' = Append(submitted, f)
    /\ UNCHANGED <<ran, stopped>>

\* The oldest task that has not been started is started.
Run ==
    /\ ~stopped
    /\ Len(ran) < Len(submitted)
    /\ ran' = Append(ran, submitted[Len(ran) + 1])
    /\ UNCHANGED <<submitted, stopped>>

Stop ==
    /\ ~stopped
    /\ stopped' = TRUE
    /\ UNCHANGED <<submitted, ran>>

Next == (\E f \in Functors : Submit(f)) \/ Run \/ Stop

SafetySpec == Init /\ [][Next]_vars

Spec == SafetySpec /\ WF_vars(Run)
=============================================================================
