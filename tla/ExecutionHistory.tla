-------------------------- MODULE ExecutionHistory --------------------------
(***************************************************************************)
(* What the execution history promises to a client that lists it: the      *)
(* abstract specification that RitualExecution implements.                 *)
(*                                                                         *)
(* An execution is a row with the set of steps done so far.  Rituals run   *)
(* one execution at a time, steps are done in order, an execution ends     *)
(* once, with a status that is a function of what was done, and the loss   *)
(* of the daemon aborts everything that was running in one step.  There    *)
(* are no locks, no recovery statements and no calls here.                 *)
(***************************************************************************)
EXTENDS Naturals

CONSTANTS Rituals, Executions, N, None

VARIABLE history   \* execution -> [ritual, status, done]

Init == history = [e \in Executions |-> [ritual |-> None, status |-> None, done |-> {}]]

Running(r) == {e \in Executions : history[e].status = "running" /\ history[e].ritual = r}

\* A run is accepted when the ritual has no running execution.
Begin(e, r) ==
    /\ history[e].status = None
    /\ Running(r) = {}
    /\ history' = [history EXCEPT ![e] = [ritual |-> r, status |-> "running", done |-> {}]]

\* The next step succeeds or is skipped.
DoStep(e, k) ==
    /\ history[e].status = "running"
    /\ history[e].done = 1..(k - 1)
    /\ history' = [history EXCEPT ![e].done = 1..k]

\* The run ends; its status follows from the steps done.
Finish(e) ==
    /\ history[e].status = "running"
    /\ history' = [history EXCEPT ![e].status =
                     IF history[e].done = 1..N THEN "succeeded"
                     ELSE IF history[e].done = {} THEN "failed" ELSE "partial"]

\* The daemon was lost.
AbortRunning ==
    history' = [e \in Executions |->
                  IF history[e].status = "running"
                  THEN [history[e] EXCEPT !.status = "aborted"]
                  ELSE history[e]]

Next ==
    \/ \E e \in Executions, r \in Rituals : Begin(e, r)
    \/ \E e \in Executions, k \in 1..N : DoStep(e, k)
    \/ \E e \in Executions : Finish(e)
    \/ AbortRunning

Spec == Init /\ [][Next]_history
=============================================================================
