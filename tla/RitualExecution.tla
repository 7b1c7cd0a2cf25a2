--------------------------- MODULE RitualExecution ---------------------------
(***************************************************************************)
(* The execution of a ritual: its durable history (tables executions,      *)
(* execution_steps and ritual_execution_locks of crates/fubun-storage), the *)
(* execute_steps loop of crates/fubun-core/src/lib.rs that writes it, the  *)
(* loss of the daemon at any point and the recovery at the next start.     *)
(*                                                                         *)
(* The storage thread serves one request at a time, so a request is one    *)
(* step, unless it is several statements outside a transaction: then each  *)
(* statement is a step and the daemon may be lost between two of them      *)
(* (update_execution and abort_running_executions).                        *)
(*                                                                         *)
(* The action itself is AdapterManager's business; here it returns any of  *)
(* its outcomes.                                                           *)
(***************************************************************************)
EXTENDS Naturals, FiniteSets

CONSTANTS
    Rituals,     \* ritual ids
    Executions,  \* execution ids, fresh for every run
    N,           \* the number of actions of a ritual
    None         \* "no such value"

VARIABLES
    exec,    \* execution -> its row
    steps,   \* execution -> the status of each of its step rows
    locks,   \* ritual -> the execution that holds its lock row, or None
    run,     \* execution -> where its execute_steps call stands (in memory)
    daemon   \* the state of the daemon process

vars == <<exec, steps, locks, run, daemon>>

StepIndex == 1..N

GoodStatuses     == {"succeeded", "skipped"}
OpenStatuses     == {"pending", "running"}
StepStatuses     == GoodStatuses \cup OpenStatuses \cup {"failed", "aborted"}
TerminalStatuses == {"succeeded", "failed", "partial", "aborted"}
FailureCodes     == {"ritual_timeout", "action_failed", "dispatch_error", "daemon_restarted"}

ASSUME ConstantsAssumption ==
    /\ N \in Nat \ {0}
    /\ None \notin Rituals \cup Executions
    /\ None \notin {"running"} \cup TerminalStatuses \cup FailureCodes

\* The ways adapters.execute can end that are recorded as a step status.  A
\* dispatch error other than a deadline timeout is recorded as failed.
Outcomes == [status : GoodStatuses, code : {None}]
              \cup [status : {"failed"}, code : {"action_failed", "dispatch_error"}]

ExecRow == [ritual : Rituals \cup {None},
            status : {None, "running"} \cup TerminalStatuses,
            code   : FailureCodes \cup {None}]

\* pc of an execute_steps call.
Pcs == {"none",        \* not called, or lost with the daemon
        "ready",       \* at the head of the loop
        "dispatched",  \* the step is marked running, the action is under way
        "record",      \* the action has ended, the step is not yet written
        "finalize",    \* out of the loop with a failure code
        "unlock",      \* the execution row is final, the lock row is not deleted
        "returned",
        "failed"}      \* ended early because storage returned an error

Call == [pc         : Pcs,
         index      : Nat \ {0},
         successful : Nat,
         code       : FailureCodes \cup {None},
         outcome    : Outcomes \cup {None}]

NoCall == [pc |-> "none", index |-> 1, successful |-> 0, code |-> None, outcome |-> None]

TypeOK ==
    /\ exec \in [Executions -> ExecRow]
    /\ steps \in [Executions -> [StepIndex -> StepStatuses]]
    /\ locks \in [Rituals -> Executions \cup {None}]
    /\ run \in [Executions -> Call]
    /\ \A e \in Executions : run[e].pc = "record" => run[e].outcome \in Outcomes
    /\ daemon \in {"serving", "down", "opened", "executions_aborted", "steps_aborted"}

Init ==
    /\ exec = [e \in Executions |-> [ritual |-> None, status |-> None, code |-> None]]
    /\ steps = [e \in Executions |-> [k \in StepIndex |-> "pending"]]
    /\ locks = [r \in Rituals |-> None]
    /\ run = [e \in Executions |-> NoCall]
    /\ daemon = "serving"

GoodSteps(e) == {k \in StepIndex : steps[e][k] \in GoodStatuses}
OpenSteps(e) == {k \in StepIndex : steps[e][k] \in OpenStatuses}

-----------------------------------------------------------------------------
(***************************************************************************)
(* A run.                                                                  *)
(***************************************************************************)

\* Mutant: an existing lock row is replaced instead of refusing the run.
StartExecutionUnlocked(e, r) ==
    /\ daemon = "serving"
    /\ exec[e].status = None
    /\ exec' = [exec EXCEPT ![e] = [ritual |-> r, status |-> "running", code |-> None]]
    /\ steps' = [steps EXCEPT ![e] = [k \in StepIndex |-> "pending"]]
    /\ locks' = [locks EXCEPT ![r] = e]
    /\ run' = [run EXCEPT ![e] = [NoCall EXCEPT !.pc = "ready"]]
    /\ UNCHANGED daemon

\* start_execution, one transaction: the execution row, the lock row and the
\* step rows.  With the lock row of the ritual present it is rolled back.
StartExecution(e, r) ==
    /\ daemon = "serving"
    /\ exec[e].status = None
    /\ locks[r] = None
    /\ exec' = [exec EXCEPT ![e] = [ritual |-> r, status |-> "running", code |-> None]]
    /\ steps' = [steps EXCEPT ![e] = [k \in StepIndex |-> "pending"]]
    /\ locks' = [locks EXCEPT ![r] = e]
    /\ run' = [run EXCEPT ![e] = [NoCall EXCEPT !.pc = "ready"]]
    /\ UNCHANGED daemon

\* The deadline has passed at the head of the loop.
DeadlinePassed(e) ==
    /\ run[e].pc = "ready"
    /\ run[e].index <= N
    /\ run' = [run EXCEPT ![e] = [@ EXCEPT !.pc = "finalize", !.code = "ritual_timeout"]]
    /\ UNCHANGED <<exec, steps, locks, daemon>>

\* update_step(running), then the action is dispatched.
BeginStep(e) ==
    /\ run[e].pc = "ready"
    /\ run[e].index <= N
    /\ steps' = [steps EXCEPT ![e][run[e].index] = "running"]
    /\ run' = [run EXCEPT ![e].pc = "dispatched"]
    /\ UNCHANGED <<exec, locks, daemon>>

\* adapters.execute returns a result, or an error that fails the step.
ActionReturns(e, outcome) ==
    /\ run[e].pc = "dispatched"
    /\ run' = [run EXCEPT ![e] = [@ EXCEPT !.pc = "record", !.outcome = outcome]]
    /\ UNCHANGED <<exec, steps, locks, daemon>>

\* The dispatch timed out on what was left of the ritual's deadline: the loop
\* is left with the step still running.
DeadlineTimeout(e) ==
    /\ run[e].pc = "dispatched"
    /\ run' = [run EXCEPT ![e] = [@ EXCEPT !.pc = "finalize", !.code = "ritual_timeout"]]
    /\ UNCHANGED <<exec, steps, locks, daemon>>

\* update_step with the outcome, then on to the next action or out of the loop.
RecordStep(e) ==
    LET call == run[e]
        good == call.outcome.status \in GoodStatuses
    IN  /\ call.pc = "record"
        /\ steps' = [steps EXCEPT ![e][call.index] = call.outcome.status]
        /\ run' = [run EXCEPT
                     ![e] = IF good
                            THEN [call EXCEPT !.pc = "ready", !.index = call.index + 1,
                                              !.successful = call.successful + 1,
                                              !.outcome = None]
                            ELSE [call EXCEPT !.pc = "finalize", !.code = call.outcome.code,
                                              !.outcome = None]]
        /\ UNCHANGED <<exec, locks, daemon>>

\* Mutant: steps that were not run are finalized as skipped.
FinalizeStepSkipped(e) ==
    /\ run[e].pc = "finalize"
    /\ \E k \in OpenSteps(e) : steps' = [steps EXCEPT ![e][k] = "skipped"]
    /\ UNCHANGED <<exec, locks, run, daemon>>

\* finalize_unfinished_steps: one update_step for the first open step.
FinalizeStep(e) ==
    /\ run[e].pc = "finalize"
    /\ \E k \in OpenSteps(e) :
          /\ \A j \in OpenSteps(e) : k <= j
          /\ steps' = [steps EXCEPT ![e][k] = "aborted"]
    /\ UNCHANGED <<exec, locks, run, daemon>>

\* The status the loop ends with.
Verdict(e) ==
    IF run[e].code = None THEN "succeeded"
    ELSE IF run[e].successful = 0 THEN "failed" ELSE "partial"

\* Past the loop (and the finalization), the check of terminal_step_invariant,
\* and update_execution's first statement: the execution row.
CommitExecution(e) ==
    /\ \/ run[e].pc = "ready" /\ run[e].index = N + 1
       \/ run[e].pc = "finalize"
    /\ OpenSteps(e) = {}
    /\ exec' = [exec EXCEPT ![e] = [@ EXCEPT !.status = Verdict(e), !.code = run[e].code]]
    /\ run' = [run EXCEPT ![e].pc = "unlock"]
    /\ UNCHANGED <<steps, locks, daemon>>

\* Mutant: update_execution without its second statement.
ReleaseLockForgotten(e) ==
    /\ run[e].pc = "unlock"
    /\ run' = [run EXCEPT ![e].pc = "returned"]
    /\ UNCHANGED <<exec, steps, locks, daemon>>

\* update_execution's second statement: the lock row of this execution.
ReleaseLock(e) ==
    /\ run[e].pc = "unlock"
    /\ locks' = [r \in Rituals |-> IF locks[r] = e THEN None ELSE locks[r]]
    /\ run' = [run EXCEPT ![e].pc = "returned"]
    /\ UNCHANGED <<exec, steps, daemon>>

\* A storage request fails (update_step, get_resource, update_execution): the
\* call returns internal_error and leaves the rows as they are.
StorageFails(e) ==
    /\ run[e].pc \in {"ready", "dispatched", "record", "finalize", "unlock"}
    /\ run' = [run EXCEPT ![e].pc = "failed"]
    /\ UNCHANGED <<exec, steps, locks, daemon>>

-----------------------------------------------------------------------------
(***************************************************************************)
(* The daemon is lost and started again.                                   *)
(***************************************************************************)

\* A crash, at any point.  It also stands for a start that gives up on an error.
Crash ==
    /\ daemon # "down"
    /\ daemon' = "down"
    /\ run' = [e \in Executions |-> NoCall]
    /\ UNCHANGED <<exec, steps, locks>>

\* Storage::open.
Restart ==
    /\ daemon = "down"
    /\ daemon' = "opened"
    /\ UNCHANGED <<exec, steps, locks, run>>

\* Mutant: every execution that did not succeed is aborted.
AbortUnsuccessful ==
    /\ daemon = "opened"
    /\ exec' = [e \in Executions |->
                  IF exec[e].status \notin {None, "succeeded"}
                  THEN [exec[e] EXCEPT !.status = "aborted", !.code = "daemon_restarted"]
                  ELSE exec[e]]
    /\ daemon' = "executions_aborted"
    /\ UNCHANGED <<steps, locks, run>>

\* abort_running_executions, first statement.
AbortExecutions ==
    /\ daemon = "opened"
    /\ exec' = [e \in Executions |->
                  IF exec[e].status = "running"
                  THEN [exec[e] EXCEPT !.status = "aborted", !.code = "daemon_restarted"]
                  ELSE exec[e]]
    /\ daemon' = "executions_aborted"
    /\ UNCHANGED <<steps, locks, run>>

\* Mutant: only the step that was running is aborted.
AbortRunningSteps ==
    /\ daemon = "executions_aborted"
    /\ steps' = [e \in Executions |->
                   IF exec[e].status = "aborted" /\ exec[e].code = "daemon_restarted"
                   THEN [k \in StepIndex |-> IF steps[e][k] = "running"
                                             THEN "aborted" ELSE steps[e][k]]
                   ELSE steps[e]]
    /\ daemon' = "steps_aborted"
    /\ UNCHANGED <<exec, locks, run>>

\* Second statement: the open steps of every execution a restart has aborted,
\* those of an earlier, interrupted recovery included.
AbortSteps ==
    /\ daemon = "executions_aborted"
    /\ steps' = [e \in Executions |->
                   IF exec[e].status = "aborted" /\ exec[e].code = "daemon_restarted"
                   THEN [k \in StepIndex |-> IF steps[e][k] \in OpenStatuses
                                             THEN "aborted" ELSE steps[e][k]]
                   ELSE steps[e]]
    /\ daemon' = "steps_aborted"
    /\ UNCHANGED <<exec, locks, run>>

\* Mutant: the recovery has no third statement.
DeleteLocksForgotten ==
    /\ daemon = "steps_aborted"
    /\ daemon' = "serving"
    /\ UNCHANGED <<exec, steps, locks, run>>

\* Third statement; then the daemon serves.
DeleteLocks ==
    /\ daemon = "steps_aborted"
    /\ locks' = [r \in Rituals |-> None]
    /\ daemon' = "serving"
    /\ UNCHANGED <<exec, steps, run>>

-----------------------------------------------------------------------------
\* execute_steps, one call.
ExecuteSteps(e) ==
    \/ DeadlinePassed(e)
    \/ BeginStep(e)
    \/ \E outcome \in Outcomes : ActionReturns(e, outcome)
    \/ DeadlineTimeout(e)
    \/ RecordStep(e)
    \/ FinalizeStep(e)
    \/ CommitExecution(e)
    \/ ReleaseLock(e)

\* abort_running_executions.
Recover == AbortExecutions \/ AbortSteps \/ DeleteLocks

Next ==
    \/ \E e \in Executions, r \in Rituals : StartExecution(e, r)
    \/ \E e \in Executions : ExecuteSteps(e) \/ StorageFails(e)
    \/ Crash
    \/ Restart
    \/ Recover

Spec == Init /\ [][Next]_vars

\* The executor is an ordinary task of the daemon and an action returns or times
\* out (AdapterManager!WaitingReturns), so an enabled step of a call is taken.
\* Crashes, storage errors and restarts are up to the environment.
FairSpec == Spec /\ \A e \in Executions : WF_vars(ExecuteSteps(e))

-----------------------------------------------------------------------------
(***************************************************************************)
(* Properties.                                                             *)
(***************************************************************************)

\* A ritual has at most one running execution, in the table and not only in the
\* daemon's memory, whatever crashes and interrupted recoveries came before.
SingleRunning ==
    \A e, f \in Executions :
        /\ exec[e].status = "running"
        /\ exec[f].status = "running"
        /\ exec[e].ritual = exec[f].ritual
        => e = f

\* While the daemon serves, a running row is the work of a call in progress or
\* of one that storage failed, and a lock row is held for exactly such a row or
\* for a call about to delete it: no lock outlives its execution through a
\* crash, which would refuse every later run of the ritual.
LocksAccountedFor ==
    daemon = "serving" =>
        /\ \A r \in Rituals : locks[r] # None =>
              /\ exec[locks[r]].ritual = r
              /\ run[locks[r]].pc \notin {"none", "returned"}
        /\ \A e \in Executions : exec[e].status = "running" =>
              /\ locks[exec[e].ritual] = e
              /\ run[e].pc \notin {"none", "unlock", "returned"}

\* A terminal execution has no pending or running step, except inside the
\* recovery that is about to abort them; README.md states it as a guarantee.
TerminalStepsClosed ==
    \A e \in Executions :
        exec[e].status \in TerminalStatuses =>
            \/ OpenSteps(e) = {}
            \/ daemon # "serving" /\ daemon # "steps_aborted" /\ exec[e].code = "daemon_restarted"

\* The status of an execution summarises its steps: succeeded means every step
\* succeeded or was skipped, partial means some but not all, failed means none.
StatusSummarisesSteps ==
    \A e \in Executions :
        /\ exec[e].status = "succeeded" => GoodSteps(e) = StepIndex
        /\ exec[e].status = "failed"    => GoodSteps(e) = {}
        /\ exec[e].status = "partial"   => GoodSteps(e) # {} /\ GoodSteps(e) # StepIndex
        /\ exec[e].status = "aborted" <=> exec[e].code = "daemon_restarted"

\* Actions run strictly in order and nothing is run after a failure: every step
\* before one that was begun has succeeded or was skipped.  At most one step is
\* running.  It holds for what a crash leaves behind as well.
SequentialSteps ==
    \A e \in Executions : \A j, k \in StepIndex :
        j < k /\ steps[e][k] \notin {"pending", "aborted"} => steps[e][j] \in GoodStatuses

\* The terminal_step_invariant check of execute_steps never refuses: a call that
\* has left the loop without a failure has no open step.
CommitNeverRefused ==
    \A e \in Executions :
        run[e].pc = "ready" /\ run[e].index = N + 1 => OpenSteps(e) = {}

\* History is written once: neither a later call nor a recovery changes a
\* terminal execution row, or a step row that has reached its final status.
HistoryImmutable ==
    [][\A e \in Executions :
          /\ exec[e].status \in TerminalStatuses => exec'[e] = exec[e]
          /\ exec[e].status # None =>
                \A k \in StepIndex \ OpenSteps(e) : steps'[e][k] = steps[e][k]]_vars

\* A started run comes to an end with its lock released, unless storage fails
\* it or the daemon is lost.
RunEnds ==
    \A e \in Executions :
        exec[e].status = "running"
          ~> \/ exec[e].status \in TerminalStatuses /\ \A r \in Rituals : locks[r] # e
             \/ run[e].pc = "failed"
             \/ daemon # "serving"

-----------------------------------------------------------------------------
(***************************************************************************)
(* Refinement: the tables, read the way a client lists them, are an        *)
(* ExecutionHistory.  Locks, calls and recovery statements are hidden.     *)
(***************************************************************************)

HistoryView ==
    [e \in Executions |-> [ritual |-> exec[e].ritual,
                           status |-> exec[e].status,
                           done   |-> GoodSteps(e)]]

History == INSTANCE ExecutionHistory WITH history <- HistoryView

\* Every behaviour of the executor, its crashes and its recoveries is a behaviour
\* of the abstract history.
ImplementsHistory == History!Spec
=============================================================================
