------------------------ MODULE RitualExecutionProofs ------------------------
(***************************************************************************)
(* Proofs about RitualExecution, for every set of rituals and executions   *)
(* and every number of actions.                                            *)
(***************************************************************************)
EXTENDS RitualExecution, TLAPS

\* Every variable keeps its type: the rows stay in the vocabulary the tables and
\* the recovery statements of crates/fubun-storage know.
THEOREM TypeCorrect == Spec => []TypeOK
<1>1. Init => TypeOK
  BY DEF Init, TypeOK, ExecRow, StepStatuses, OpenStatuses, Call, NoCall, Pcs
<1>2. TypeOK /\ [Next]_vars => TypeOK'
  <2> SUFFICES ASSUME TypeOK, [Next]_vars
               PROVE  TypeOK'
    OBVIOUS
  <2> USE DEF TypeOK
  <2>1. CASE UNCHANGED vars
    BY <2>1 DEF vars
  <2>2. ASSUME NEW e \in Executions, NEW r \in Rituals, StartExecution(e, r)
        PROVE  TypeOK'
    BY <2>2 DEF StartExecution, ExecRow, StepStatuses, OpenStatuses, Call, NoCall, Pcs
  <2>3. ASSUME NEW e \in Executions, DeadlinePassed(e)
        PROVE  TypeOK'
    <3>1. run' \in [Executions -> Call]
      BY <2>3 DEF DeadlinePassed, Call, Pcs, FailureCodes
    <3>2. QED
      BY <2>3, <3>1 DEF DeadlinePassed
  <2>4. ASSUME NEW e \in Executions, BeginStep(e)
        PROVE  TypeOK'
    <3>1. run' \in [Executions -> Call]
      BY <2>4 DEF BeginStep, Call, Pcs
    <3>2. steps' \in [Executions -> [StepIndex -> StepStatuses]]
      BY <2>4 DEF BeginStep, StepStatuses, OpenStatuses
    <3>3. QED
      BY <2>4, <3>1, <3>2 DEF BeginStep
  <2>5. ASSUME NEW e \in Executions, NEW outcome \in Outcomes, ActionReturns(e, outcome)
        PROVE  TypeOK'
    <3>1. run' \in [Executions -> Call]
      BY <2>5 DEF ActionReturns, Call, Pcs
    <3>2. QED
      BY <2>5, <3>1 DEF ActionReturns
  <2>6. ASSUME NEW e \in Executions, DeadlineTimeout(e)
        PROVE  TypeOK'
    <3>1. run' \in [Executions -> Call]
      BY <2>6 DEF DeadlineTimeout, Call, Pcs, FailureCodes
    <3>2. QED
      BY <2>6, <3>1 DEF DeadlineTimeout
  <2>7. ASSUME NEW e \in Executions, RecordStep(e)
        PROVE  TypeOK'
    <3>1. run[e] \in Call /\ run[e].outcome \in Outcomes
      BY <2>7 DEF RecordStep
    <3>2. run'[e] \in Call /\ run'[e].pc # "record"
      <4>1. CASE run[e].outcome.status \in GoodStatuses
        <5>1. run'[e] = [run[e] EXCEPT !.pc = "ready", !.index = run[e].index + 1,
                                       !.successful = run[e].successful + 1,
                                       !.outcome = None]
          BY <2>7, <4>1 DEF RecordStep
        <5>2. run[e].index + 1 \in Nat \ {0} /\ run[e].successful + 1 \in Nat
          BY <3>1 DEF Call
        <5>3. QED
          BY <3>1, <5>1, <5>2 DEF Call, Pcs
      <4>2. CASE run[e].outcome.status \notin GoodStatuses
        <5>1. run'[e] = [run[e] EXCEPT !.pc = "finalize", !.code = run[e].outcome.code,
                                       !.outcome = None]
          BY <2>7, <4>2 DEF RecordStep
        <5>2. run[e].outcome.code \in FailureCodes \cup {None}
          BY <3>1 DEF Outcomes, FailureCodes
        <5>3. QED
          BY <3>1, <5>1, <5>2 DEF Call, Pcs
      <4>3. QED
        BY <4>1, <4>2
    <3>3. run' \in [Executions -> Call] /\ \A f \in Executions \ {e} : run'[f] = run[f]
      BY <2>7, <3>2 DEF RecordStep
    <3>4. steps' \in [Executions -> [StepIndex -> StepStatuses]]
      BY <2>7, <3>1 DEF RecordStep, Outcomes, StepStatuses, GoodStatuses
    <3>5. QED
      BY <2>7, <3>2, <3>3, <3>4 DEF RecordStep
  <2>8. ASSUME NEW e \in Executions, FinalizeStep(e)
        PROVE  TypeOK'
    BY <2>8 DEF FinalizeStep, OpenSteps, StepStatuses
  <2>9. ASSUME NEW e \in Executions, CommitExecution(e)
        PROVE  TypeOK'
    <3>1. run' \in [Executions -> Call]
      BY <2>9 DEF CommitExecution, Call, Pcs
    <3>2. run[e].code \in FailureCodes \cup {None} /\ Verdict(e) \in TerminalStatuses
      BY DEF Call, Verdict, TerminalStatuses
    <3>3. exec' \in [Executions -> ExecRow]
      BY <2>9, <3>2 DEF CommitExecution, ExecRow
    <3>4. QED
      BY <2>9, <3>1, <3>3 DEF CommitExecution
  <2>10. ASSUME NEW e \in Executions, ReleaseLock(e)
         PROVE  TypeOK'
    <3>1. run' \in [Executions -> Call]
      BY <2>10 DEF ReleaseLock, Call, Pcs
    <3>2. QED
      BY <2>10, <3>1 DEF ReleaseLock
  <2>11. ASSUME NEW e \in Executions, StorageFails(e)
         PROVE  TypeOK'
    <3>1. run' \in [Executions -> Call]
      BY <2>11 DEF StorageFails, Call, Pcs
    <3>2. QED
      BY <2>11, <3>1 DEF StorageFails
  <2>12. CASE Crash
    BY <2>12 DEF Crash, Call, NoCall, Pcs
  <2>13. CASE Restart
    BY <2>13 DEF Restart
  <2>14. CASE AbortExecutions
    BY <2>14 DEF AbortExecutions, ExecRow, TerminalStatuses, FailureCodes
  <2>15. CASE AbortSteps
    BY <2>15 DEF AbortSteps, StepStatuses
  <2>16. CASE DeleteLocks
    BY <2>16 DEF DeleteLocks
  <2>17. QED
    BY <2>1, <2>2, <2>3, <2>4, <2>5, <2>6, <2>7, <2>8, <2>9, <2>10, <2>11, <2>12,
       <2>13, <2>14, <2>15, <2>16
       DEF Next, ExecuteSteps, Recover
<1>3. QED
  BY <1>1, <1>2, PTL DEF Spec

-----------------------------------------------------------------------------
(***************************************************************************)
(* Locks.  SingleRunning and LocksAccountedFor are not inductive: what     *)
(* makes them so is that a running row holds its lock through every crash  *)
(* and every interrupted recovery, up to the statement that aborts it.     *)
(***************************************************************************)

\* Where a call still has the execution row to write.
ActivePcs == {"ready", "dispatched", "record", "finalize"}

\* A lock row names a started execution of its ritual.
LocksNamed ==
    \A r \in Rituals : locks[r] # None =>
        exec[locks[r]].ritual = r /\ exec[locks[r]].status # None

\* A running row holds the lock of its ritual.
RunningLocked ==
    \A e \in Executions : exec[e].status = "running" =>
        exec[e].ritual \in Rituals /\ locks[exec[e].ritual] = e

\* A call in progress is about a running row, one past its commit is not.
CallsMatchRows ==
    \A e \in Executions :
        /\ run[e].pc \in ActivePcs => exec[e].status = "running"
        /\ run[e].pc = "unlock" => exec[e].status \in TerminalStatuses

\* Recovery runs alone and starts by ending every running row.
RecoveryAlone ==
    /\ daemon # "serving" => \A e \in Executions : run[e].pc = "none"
    /\ daemon \in {"executions_aborted", "steps_aborted"} =>
          \A e \in Executions : exec[e].status # "running"

LockInv ==
    /\ LocksNamed
    /\ RunningLocked
    /\ CallsMatchRows
    /\ RecoveryAlone
    /\ LocksAccountedFor

\* A step of a call that moves inside the loop or ends it on a storage error.
QuietStep(e) ==
    /\ exec' = exec /\ locks' = locks /\ daemon' = daemon
    /\ \A f \in Executions \ {e} : run'[f] = run[f]
    /\ \/ run[e].pc \in ActivePcs /\ run'[e].pc \in ActivePcs
       \/ run[e].pc \in ActivePcs \cup {"unlock"} /\ run'[e].pc = "failed"

\* Which steps of execute_steps leave the execution row and the lock alone.
LEMMA QuietSteps ==
    ASSUME TypeOK, NEW e \in Executions,
           \/ DeadlinePassed(e) \/ BeginStep(e) \/ DeadlineTimeout(e)
           \/ \E outcome \in Outcomes : ActionReturns(e, outcome)
           \/ RecordStep(e) \/ FinalizeStep(e) \/ StorageFails(e)
    PROVE  QuietStep(e)
<1>0. run \in [Executions -> Call] /\ run[e] \in Call
  BY DEF TypeOK
<1>1. CASE DeadlinePassed(e)
  BY <1>0, <1>1 DEF DeadlinePassed, QuietStep, ActivePcs, Call
<1>2. CASE BeginStep(e)
  BY <1>0, <1>2 DEF BeginStep, QuietStep, ActivePcs, Call
<1>3. CASE DeadlineTimeout(e)
  BY <1>0, <1>3 DEF DeadlineTimeout, QuietStep, ActivePcs, Call
<1>4. CASE \E outcome \in Outcomes : ActionReturns(e, outcome)
  <2>1. PICK outcome \in Outcomes : ActionReturns(e, outcome)
    BY <1>4
  <2>2. run'[e] = [run[e] EXCEPT !.pc = "record", !.outcome = outcome]
    BY <1>0, <2>1 DEF ActionReturns
  <2>3. run'[e].pc = "record"
    BY <1>0, <2>2 DEF Call
  <2>4. QED
    BY <1>0, <2>1, <2>3 DEF ActionReturns, QuietStep, ActivePcs
<1>5. CASE RecordStep(e)
  <2>1. run'[e].pc \in {"ready", "finalize"}
    <3>1. run'[e] = IF run[e].outcome.status \in GoodStatuses
                    THEN [run[e] EXCEPT !.pc = "ready", !.index = run[e].index + 1,
                                        !.successful = run[e].successful + 1,
                                        !.outcome = None]
                    ELSE [run[e] EXCEPT !.pc = "finalize", !.code = run[e].outcome.code,
                                        !.outcome = None]
      BY <1>0, <1>5 DEF RecordStep
    <3>2. QED
      BY <1>0, <3>1 DEF Call
  <2>2. QED
    BY <1>0, <1>5, <2>1 DEF RecordStep, QuietStep, ActivePcs
<1>6. CASE FinalizeStep(e)
  BY <1>0, <1>6 DEF FinalizeStep, QuietStep, ActivePcs
<1>7. CASE StorageFails(e)
  BY <1>0, <1>7 DEF StorageFails, QuietStep, ActivePcs, Call
<1>8. QED
  BY <1>1, <1>2, <1>3, <1>4, <1>5, <1>6, <1>7

\* The lock invariant is inductive.
LEMMA LockInvStep == TypeOK /\ TypeOK' /\ LockInv /\ [Next]_vars => LockInv'
<1> SUFFICES ASSUME TypeOK, TypeOK', LockInv, [Next]_vars
             PROVE  LockInv'
  OBVIOUS
<1> USE DEF LockInv, LocksNamed, RunningLocked, CallsMatchRows, RecoveryAlone,
            LocksAccountedFor
<1>0. /\ exec \in [Executions -> ExecRow] /\ locks \in [Rituals -> Executions \cup {None}]
      /\ run \in [Executions -> Call] /\ None \notin Executions
      /\ None \notin TerminalStatuses /\ "running" # None /\ "running" \notin TerminalStatuses
  BY ConstantsAssumption DEF TypeOK, TerminalStatuses
<1>1. CASE UNCHANGED vars
  BY <1>1 DEF vars
<1>2. ASSUME NEW e \in Executions, NEW r \in Rituals, StartExecution(e, r)
      PROVE  LockInv'
  BY <1>0, <1>2 DEF StartExecution, NoCall, ActivePcs, ExecRow
<1>3. ASSUME NEW e \in Executions, QuietStep(e)
      PROVE  LockInv'
  BY <1>0, <1>3 DEF QuietStep, ActivePcs
<1>4. ASSUME NEW e \in Executions, CommitExecution(e)
      PROVE  LockInv'
  <2>1. exec'[e].status \in TerminalStatuses /\ exec'[e].ritual = exec[e].ritual
    BY <1>0, <1>4 DEF CommitExecution, Verdict, TerminalStatuses, ExecRow
  <2>2. run[e].pc \in ActivePcs /\ run'[e].pc = "unlock"
    BY <1>0, <1>4 DEF CommitExecution, ActivePcs, Call
  <2>3. \A f \in Executions \ {e} : exec'[f] = exec[f] /\ run'[f] = run[f]
    BY <1>0, <1>4 DEF CommitExecution
  <2>4. locks' = locks /\ daemon' = daemon
    BY <1>4 DEF CommitExecution
  <2>5. QED
    BY <1>0, <2>1, <2>2, <2>3, <2>4 DEF ActivePcs
<1>5. ASSUME NEW e \in Executions, ReleaseLock(e)
      PROVE  LockInv'
  BY <1>0, <1>5 DEF ReleaseLock, ActivePcs, Call
<1>6. CASE Crash
  BY <1>0, <1>6 DEF Crash, NoCall, ActivePcs
<1>7. CASE Restart
  BY <1>0, <1>7 DEF Restart, ActivePcs
<1>8. CASE AbortExecutions
  <2>1. \A e \in Executions :
           /\ exec'[e].ritual = exec[e].ritual
           /\ exec'[e].status # "running"
           /\ exec[e].status # None => exec'[e].status # None
    <3> TAKE e \in Executions
    <3>1. CASE exec[e].status = "running"
      <4>1. exec'[e] = [exec[e] EXCEPT !.status = "aborted", !.code = "daemon_restarted"]
        BY <1>8, <3>1 DEF AbortExecutions
      <4>2. QED
        BY <1>0, <3>1, <4>1 DEF ExecRow, TerminalStatuses
    <3>2. CASE exec[e].status # "running"
      BY <1>8, <3>2 DEF AbortExecutions
    <3>3. QED
      BY <3>1, <3>2
  <2>2. \A e \in Executions : run'[e].pc = "none"
    BY <1>8 DEF AbortExecutions
  <2>3. locks' = locks /\ daemon' = "executions_aborted"
    BY <1>8 DEF AbortExecutions
  <2>4. LocksNamed'
    <3> SUFFICES ASSUME NEW r \in Rituals, locks[r] # None
                 PROVE  exec'[locks[r]].ritual = r /\ exec'[locks[r]].status # None
      BY <2>3
    <3>1. locks[r] \in Executions
      BY <1>0
    <3>2. exec[locks[r]].ritual = r /\ exec[locks[r]].status # None
      OBVIOUS
    <3>3. QED
      BY <2>1, <3>1, <3>2
  <2>5. CallsMatchRows'
    BY <2>2 DEF ActivePcs
  <2>6. RunningLocked' /\ RecoveryAlone' /\ LocksAccountedFor'
    BY <2>1, <2>2, <2>3
  <2>7. QED
    BY <2>4, <2>5, <2>6
<1>9. CASE AbortSteps
  BY <1>0, <1>9 DEF AbortSteps, ActivePcs
<1>10. CASE DeleteLocks
  BY <1>0, <1>10 DEF DeleteLocks, ActivePcs
<1>11. QED
  BY <1>1, <1>2, <1>3, <1>4, <1>5, <1>6, <1>7, <1>8, <1>9, <1>10, QuietSteps
     DEF Next, ExecuteSteps, Recover

\* The lock invariant holds in every reachable state, restarts included.
LEMMA LockInvariant == Spec => []LockInv
<1>1. Init => LockInv
  BY ConstantsAssumption
     DEF Init, NoCall, LockInv, LocksNamed, RunningLocked, CallsMatchRows, RecoveryAlone,
         LocksAccountedFor, ActivePcs
<1>2. QED
  BY <1>1, LockInvStep, TypeCorrect, PTL DEF Spec

\* A ritual never has two running rows, through every crash and every recovery
\* that was itself interrupted between two statements of abort_running_executions.
THEOREM RunsExcludeEachOther == Spec => []SingleRunning
<1>1. LockInv => SingleRunning
  BY DEF LockInv, RunningLocked, SingleRunning
<1>2. QED
  BY <1>1, LockInvariant, PTL

\* No lock row outlives its execution once the daemon serves again.
THEOREM LocksNeverLeak == Spec => []LocksAccountedFor
<1>1. LockInv => LocksAccountedFor
  BY DEF LockInv
<1>2. QED
  BY <1>1, LockInvariant, PTL

-----------------------------------------------------------------------------
(***************************************************************************)
(* Steps.  What an execution's status says about its steps follows from    *)
(* where its call stands: the steps before the current one are done, the   *)
(* current one is as the pc says, the later ones are untouched.            *)
(***************************************************************************)

CallMatchesSteps(e) ==
    /\ run[e].pc \in ActivePcs =>
          /\ run[e].successful = run[e].index - 1
          /\ run[e].index <= N + 1
          /\ \A k \in StepIndex : steps[e][k] \in GoodStatuses <=> k < run[e].index
    /\ run[e].pc \in ActivePcs \ {"finalize"} =>
          /\ run[e].code = None
          /\ \A k \in StepIndex : k > run[e].index => steps[e][k] = "pending"
    /\ run[e].pc = "ready" /\ run[e].index <= N => steps[e][run[e].index] = "pending"
    /\ run[e].pc \in {"dispatched", "record"} =>
          run[e].index <= N /\ steps[e][run[e].index] = "running"
    /\ run[e].pc = "finalize" =>
          /\ run[e].index <= N
          /\ run[e].code \in FailureCodes \ {"daemon_restarted"}

\* The four invariants below, for one execution and step by step.
StepsClosed(e) ==
    exec[e].status \in TerminalStatuses =>
        \/ \A k \in StepIndex : steps[e][k] \notin OpenStatuses
        \/ /\ daemon \in {"down", "opened", "executions_aborted"}
           /\ exec[e].code = "daemon_restarted"

Summary(e) ==
    /\ exec[e].status = "succeeded" => \A k \in StepIndex : steps[e][k] \in GoodStatuses
    /\ exec[e].status = "failed" => \A k \in StepIndex : steps[e][k] \notin GoodStatuses
    /\ exec[e].status = "partial" => /\ \E k \in StepIndex : steps[e][k] \in GoodStatuses
                                     /\ \E k \in StepIndex : steps[e][k] \notin GoodStatuses
    /\ exec[e].status = "aborted" <=> exec[e].code = "daemon_restarted"

InOrder(e) ==
    \A j, k \in StepIndex :
        j < k /\ steps[e][k] \notin {"pending", "aborted"} => steps[e][j] \in GoodStatuses

RowInv(e) == CallMatchesSteps(e) /\ StepsClosed(e) /\ Summary(e) /\ InOrder(e)

StepInv == \A e \in Executions : RowInv(e)

\* The step invariant implies what a client sees of an execution and its steps.
LEMMA StepInvImplies ==
    ASSUME TypeOK, StepInv
    PROVE  TerminalStepsClosed /\ StatusSummarisesSteps /\ SequentialSteps /\ CommitNeverRefused
<1>1. TerminalStepsClosed
  BY DEF TypeOK, StepInv, RowInv, StepsClosed, TerminalStepsClosed, OpenSteps
<1>2. StatusSummarisesSteps
  BY DEF StepInv, RowInv, Summary, StatusSummarisesSteps, GoodSteps
<1>3. SequentialSteps
  BY DEF StepInv, RowInv, InOrder, SequentialSteps
<1>4. CommitNeverRefused
  BY ConstantsAssumption
     DEF TypeOK, StepInv, RowInv, CallMatchesSteps, CommitNeverRefused, OpenSteps, StepIndex,
         ActivePcs, GoodStatuses, OpenStatuses
<1>5. QED
  BY <1>1, <1>2, <1>3, <1>4

\* A step that does not touch an execution keeps what is known of it.
LEMMA RowUntouched ==
    ASSUME NEW f \in Executions, RowInv(f), daemon' = daemon,
           exec'[f] = exec[f], steps'[f] = steps[f], run'[f] = run[f]
    PROVE  RowInv(f)'
BY DEF RowInv, CallMatchesSteps, StepsClosed, Summary, InOrder

\* A step of one call touches one execution.
LEMMA CallTouchesOne ==
    ASSUME TypeOK, NEW e \in Executions,
           ExecuteSteps(e) \/ StorageFails(e) \/ \E r \in Rituals : StartExecution(e, r)
    PROVE  /\ daemon' = daemon
           /\ \A f \in Executions \ {e} :
                 exec'[f] = exec[f] /\ steps'[f] = steps[f] /\ run'[f] = run[f]
<1>1. CASE \E r \in Rituals : StartExecution(e, r)
  BY <1>1 DEF TypeOK, StartExecution
<1>2. CASE StorageFails(e)
  BY <1>2 DEF TypeOK, StorageFails
<1>3. CASE DeadlinePassed(e) \/ BeginStep(e) \/ DeadlineTimeout(e) \/ FinalizeStep(e)
  BY <1>3 DEF TypeOK, DeadlinePassed, BeginStep, DeadlineTimeout, FinalizeStep
<1>4. CASE RecordStep(e) \/ CommitExecution(e) \/ ReleaseLock(e)
  BY <1>4 DEF TypeOK, RecordStep, CommitExecution, ReleaseLock
<1>5. CASE \E outcome \in Outcomes : ActionReturns(e, outcome)
  BY <1>5 DEF TypeOK, ActionReturns
<1>6. QED
  BY <1>1, <1>2, <1>3, <1>4, <1>5 DEF ExecuteSteps

\* Each step of a call keeps the invariant of its own execution.
LEMMA CallKeepsRow ==
    ASSUME TypeOK, LockInv, NEW e \in Executions, RowInv(e),
           ExecuteSteps(e) \/ StorageFails(e) \/ \E r \in Rituals : StartExecution(e, r)
    PROVE  RowInv(e)'
<1> USE DEF RowInv, CallMatchesSteps, StepsClosed, Summary, InOrder
<1>0. /\ run \in [Executions -> Call] /\ run[e] \in Call /\ run[e].index \in Nat \ {0}
      /\ exec \in [Executions -> ExecRow] /\ exec[e] \in ExecRow
      /\ steps \in [Executions -> [StepIndex -> StepStatuses]]
      /\ N \in Nat \ {0} /\ StepIndex = 1..N
      /\ daemon' = daemon
      /\ run[e].pc \in ActivePcs => exec[e].status = "running"
  BY ConstantsAssumption, CallTouchesOne
     DEF TypeOK, Call, StepIndex, LockInv, CallsMatchRows
<1>1. ASSUME NEW r \in Rituals, StartExecution(e, r)
      PROVE  RowInv(e)'
  <2>1. /\ run'[e] = [NoCall EXCEPT !.pc = "ready"]
        /\ exec'[e] = [ritual |-> r, status |-> "running", code |-> None]
        /\ \A k \in StepIndex : steps'[e][k] = "pending"
    BY <1>0, <1>1 DEF StartExecution
  <2>2. /\ run'[e].pc = "ready" /\ run'[e].index = 1 /\ run'[e].successful = 0
        /\ run'[e].code = None
    BY <2>1 DEF NoCall
  <2>3. QED
    BY <1>0, <2>1, <2>2, ConstantsAssumption
       DEF ActivePcs, TerminalStatuses, FailureCodes, GoodStatuses
<1>2. CASE DeadlinePassed(e) \/ DeadlineTimeout(e)
  <2>1. /\ run'[e] = [run[e] EXCEPT !.pc = "finalize", !.code = "ritual_timeout"]
        /\ run[e].pc \in {"ready", "dispatched"} /\ run[e].index <= N
        /\ exec' = exec /\ steps' = steps
    BY <1>0, <1>2 DEF DeadlinePassed, DeadlineTimeout
  <2>2. /\ run'[e].pc = "finalize" /\ run'[e].code = "ritual_timeout"
        /\ run'[e].index = run[e].index /\ run'[e].successful = run[e].successful
    BY <1>0, <2>1 DEF Call
  <2>3. QED
    BY <1>0, <2>1, <2>2 DEF ActivePcs, FailureCodes
<1>3. CASE BeginStep(e)
  <2>1. /\ run'[e] = [run[e] EXCEPT !.pc = "dispatched"]
        /\ run[e].pc = "ready" /\ run[e].index \in StepIndex
        /\ exec' = exec
        /\ steps'[e] = [steps[e] EXCEPT ![run[e].index] = "running"]
    BY <1>0, <1>3 DEF BeginStep
  <2>2. /\ run'[e].pc = "dispatched" /\ run'[e].code = run[e].code
        /\ run'[e].index = run[e].index /\ run'[e].successful = run[e].successful
    BY <1>0, <2>1 DEF Call
  <2>3. QED
    BY <1>0, <2>1, <2>2 DEF ActivePcs, GoodStatuses, TerminalStatuses
<1>4. ASSUME NEW outcome \in Outcomes, ActionReturns(e, outcome)
      PROVE  RowInv(e)'
  <2>1. /\ run'[e] = [run[e] EXCEPT !.pc = "record", !.outcome = outcome]
        /\ run[e].pc = "dispatched"
        /\ exec' = exec /\ steps' = steps
    BY <1>0, <1>4 DEF ActionReturns
  <2>2. /\ run'[e].pc = "record" /\ run'[e].code = run[e].code
        /\ run'[e].index = run[e].index /\ run'[e].successful = run[e].successful
    BY <1>0, <2>1 DEF Call
  <2>3. QED
    BY <1>0, <2>1, <2>2 DEF ActivePcs
<1>5. CASE RecordStep(e)
  <2> DEFINE i == run[e].index
  <2>1. /\ run[e].pc = "record" /\ run[e].outcome \in Outcomes
        /\ exec' = exec
        /\ i \in StepIndex
        /\ steps'[e] = [steps[e] EXCEPT ![i] = run[e].outcome.status]
    BY <1>0, <1>5 DEF RecordStep, TypeOK
  <2>2. CASE run[e].outcome.status \in GoodStatuses
    <3>1. run'[e] = [run[e] EXCEPT !.pc = "ready", !.index = i + 1,
                                   !.successful = run[e].successful + 1, !.outcome = None]
      BY <1>0, <1>5, <2>2 DEF RecordStep
    <3>2. /\ run'[e].pc = "ready" /\ run'[e].code = run[e].code
          /\ run'[e].index = i + 1 /\ run'[e].successful = run[e].successful + 1
      BY <1>0, <3>1 DEF Call
    <3>3. \A k \in StepIndex : steps'[e][k] = IF k = i THEN run[e].outcome.status ELSE steps[e][k]
      BY <1>0, <2>1
    <3>4. CallMatchesSteps(e)'
      <4>1. \A k \in StepIndex : steps'[e][k] \in GoodStatuses <=> k < i + 1
        BY <1>0, <2>1, <2>2, <3>3 DEF ActivePcs
      <4>2. \A k \in StepIndex : k > i => steps'[e][k] = "pending"
        BY <1>0, <2>1, <3>3 DEF ActivePcs
      <4>3. i <= N /\ run[e].code = None /\ run[e].successful = i - 1
        BY <2>1 DEF ActivePcs
      <4>4. i + 1 <= N => steps'[e][i + 1] = "pending"
        <5>1. i \in Nat \ {0}
          BY <1>0
        <5>2. i + 1 <= N => i + 1 \in StepIndex /\ i + 1 > i
          BY <1>0, <5>1
        <5>3. QED
          BY <4>2, <5>2
      <4>5. i \in Nat /\ run'[e].successful = run'[e].index - 1 /\ run'[e].index <= N + 1
        BY <1>0, <3>2, <4>3
      <4>6. \A k \in StepIndex : steps'[e][k] \in GoodStatuses <=> k < run'[e].index
        BY <3>2, <4>1
      <4>7. \A k \in StepIndex : k > run'[e].index => steps'[e][k] = "pending"
        BY <1>0, <3>2, <4>2, <4>5
      <4>8. run'[e].index <= N => steps'[e][run'[e].index] = "pending"
        BY <3>2, <4>4
      <4>9. QED
        BY <3>2, <4>3, <4>5, <4>6, <4>7, <4>8 DEF ActivePcs
    <3>5. InOrder(e)'
      BY <1>0, <2>1, <2>2, <3>3 DEF ActivePcs, GoodStatuses
    <3>6. StepsClosed(e)' /\ Summary(e)'
      BY <1>0, <2>1 DEF ActivePcs, TerminalStatuses
    <3>7. QED
      BY <3>4, <3>5, <3>6
  <2>3. CASE run[e].outcome.status \notin GoodStatuses
    <3>1. run'[e] = [run[e] EXCEPT !.pc = "finalize", !.code = run[e].outcome.code,
                                   !.outcome = None]
      BY <1>0, <1>5, <2>3 DEF RecordStep
    <3>2. /\ run'[e].pc = "finalize" /\ run'[e].code = run[e].outcome.code
          /\ run'[e].index = i /\ run'[e].successful = run[e].successful
      BY <1>0, <3>1 DEF Call
    <3>3. run[e].outcome.code \in FailureCodes \ {"daemon_restarted"}
      BY <2>1, <2>3 DEF Outcomes, FailureCodes
    <3>4. \A k \in StepIndex : steps'[e][k] = IF k = i THEN run[e].outcome.status ELSE steps[e][k]
      BY <1>0, <2>1
    <3>5. QED
      BY <1>0, <2>1, <2>3, <3>2, <3>3, <3>4 DEF ActivePcs, GoodStatuses, TerminalStatuses
  <2>4. QED
    BY <2>2, <2>3
<1>6. CASE FinalizeStep(e)
  <2>1. PICK n \in StepIndex : /\ steps[e][n] \in OpenStatuses
                               /\ steps' = [steps EXCEPT ![e][n] = "aborted"]
    BY <1>6 DEF FinalizeStep, OpenSteps
  <2>2. /\ run[e].pc = "finalize" /\ run' = run /\ exec' = exec
    BY <1>6 DEF FinalizeStep
  <2>3. \A k \in StepIndex : steps'[e][k] = IF k = n THEN "aborted" ELSE steps[e][k]
    BY <1>0, <2>1
  <2>4. QED
    BY <1>0, <2>1, <2>2, <2>3 DEF ActivePcs, GoodStatuses, OpenStatuses, TerminalStatuses
<1>7. CASE CommitExecution(e)
  <2>1. /\ exec'[e] = [exec[e] EXCEPT !.status = Verdict(e), !.code = run[e].code]
        /\ run'[e] = [run[e] EXCEPT !.pc = "unlock"]
        /\ run[e].pc \in {"ready", "finalize"}
        /\ run[e].pc = "ready" => run[e].index = N + 1
        /\ steps' = steps
        /\ \A k \in StepIndex : steps[e][k] \notin OpenStatuses
    BY <1>0, <1>7 DEF CommitExecution, OpenSteps
  <2>2. run'[e].pc = "unlock" /\ exec'[e].status = Verdict(e) /\ exec'[e].code = run[e].code
    BY <1>0, <2>1 DEF Call, ExecRow
  <2>3. CASE run[e].pc = "ready"
    <3>1. exec'[e].status = "succeeded" /\ exec'[e].code = None
      BY <2>2, <2>3 DEF Verdict, ActivePcs
    <3>2. \A k \in StepIndex : steps[e][k] \in GoodStatuses
      BY <1>0, <2>1, <2>3 DEF ActivePcs
    <3>3. QED
      BY <2>1, <2>2, <3>1, <3>2, ConstantsAssumption DEF ActivePcs, FailureCodes
  <2>4. CASE run[e].pc = "finalize"
    <3>1. exec'[e].code # "daemon_restarted" /\ run[e].code # None
      BY <2>2, <2>4, ConstantsAssumption
    <3>2. CASE run[e].index = 1
      <4>1. exec'[e].status = "failed"
        BY <1>0, <2>2, <2>4, <3>1, <3>2 DEF Verdict, ActivePcs
      <4>2. \A k \in StepIndex : steps[e][k] \notin GoodStatuses
        BY <1>0, <2>4, <3>2 DEF ActivePcs
      <4>3. QED
        BY <2>1, <2>2, <3>1, <4>1, <4>2 DEF ActivePcs
    <3>3. CASE run[e].index # 1
      <4>1. exec'[e].status = "partial"
        BY <1>0, <2>2, <2>4, <3>1, <3>3 DEF Verdict, ActivePcs
      <4>2. steps[e][1] \in GoodStatuses /\ steps[e][N] \notin GoodStatuses
        BY <1>0, <2>4, <3>3 DEF ActivePcs
      <4>3. QED
        BY <1>0, <2>1, <2>2, <3>1, <4>1, <4>2 DEF ActivePcs
    <3>4. QED
      BY <3>2, <3>3
  <2>5. QED
    BY <2>1, <2>3, <2>4
<1>8. CASE ReleaseLock(e) \/ StorageFails(e)
  <2>1. run'[e].pc \in {"returned", "failed"} /\ exec' = exec /\ steps' = steps
    BY <1>0, <1>8 DEF ReleaseLock, StorageFails, Call
  <2>2. QED
    BY <1>0, <2>1 DEF ActivePcs
<1>9. QED
  BY <1>1, <1>2, <1>3, <1>4, <1>5, <1>6, <1>7, <1>8 DEF ExecuteSteps

\* A crash loses the calls and nothing else; each statement of the recovery keeps
\* what the next one relies on.
LEMMA RecoveryKeepsRows ==
    ASSUME TypeOK, LockInv, StepInv, Crash \/ Restart \/ Recover, NEW e \in Executions
    PROVE  RowInv(e)'
<1> USE DEF RowInv, CallMatchesSteps, StepsClosed, Summary, InOrder
<1>0. /\ RowInv(e)
      /\ exec \in [Executions -> ExecRow] /\ exec[e] \in ExecRow
      /\ steps \in [Executions -> [StepIndex -> StepStatuses]]
      /\ daemon # "serving" => run[e].pc = "none"
  BY DEF TypeOK, StepInv, LockInv, RecoveryAlone
<1>1. CASE Crash
  <2>1. run'[e].pc = "none" /\ exec' = exec /\ steps' = steps /\ daemon' = "down"
    BY <1>1 DEF Crash, NoCall
  <2>2. QED
    BY <1>0, <2>1 DEF ActivePcs
<1>2. CASE Restart
  BY <1>0, <1>2 DEF Restart, ActivePcs
<1>3. CASE AbortExecutions
  <2>1. run'[e].pc = "none" /\ steps' = steps /\ daemon' = "executions_aborted"
    BY <1>0, <1>3 DEF AbortExecutions
  <2>2. CASE exec[e].status = "running"
    <3>1. exec'[e] = [exec[e] EXCEPT !.status = "aborted", !.code = "daemon_restarted"]
      BY <1>3, <2>2 DEF AbortExecutions
    <3>2. exec'[e].status = "aborted" /\ exec'[e].code = "daemon_restarted"
      BY <1>0, <3>1 DEF ExecRow
    <3>3. QED
      BY <1>0, <2>1, <3>2 DEF ActivePcs
  <2>3. CASE exec[e].status # "running"
    <3>1. exec'[e] = exec[e]
      BY <1>3, <2>3 DEF AbortExecutions
    <3>2. QED
      BY <1>0, <1>3, <2>1, <3>1 DEF ActivePcs, AbortExecutions
  <2>4. QED
    BY <2>2, <2>3
<1>4. CASE AbortSteps
  <2>1. run'[e].pc = "none" /\ exec' = exec /\ daemon' = "steps_aborted"
    BY <1>0, <1>4 DEF AbortSteps
  <2>2. CASE exec[e].status = "aborted" /\ exec[e].code = "daemon_restarted"
    <3>1. \A k \in StepIndex : steps'[e][k] = IF steps[e][k] \in OpenStatuses
                                             THEN "aborted" ELSE steps[e][k]
      BY <1>4, <2>2 DEF AbortSteps
    <3>2. \A k \in StepIndex :
             /\ steps'[e][k] \notin OpenStatuses
             /\ steps'[e][k] \in GoodStatuses <=> steps[e][k] \in GoodStatuses
             /\ steps'[e][k] \notin {"pending", "aborted"} =>
                   steps[e][k] \notin {"pending", "aborted"}
      BY <3>1 DEF OpenStatuses, GoodStatuses
    <3>3. QED
      BY <1>0, <2>1, <2>2, <3>2 DEF ActivePcs
  <2>3. CASE ~(exec[e].status = "aborted" /\ exec[e].code = "daemon_restarted")
    <3>1. steps'[e] = steps[e]
      BY <1>4, <2>3 DEF AbortSteps
    <3>2. QED
      BY <1>0, <1>4, <2>1, <2>3, <3>1 DEF ActivePcs, AbortSteps
  <2>4. QED
    BY <2>2, <2>3
<1>5. CASE DeleteLocks
  BY <1>0, <1>5 DEF DeleteLocks, ActivePcs
<1>6. QED
  BY <1>1, <1>2, <1>3, <1>4, <1>5 DEF Recover

\* The step invariant holds in every reachable state, restarts included.
LEMMA StepInvariant == Spec => []StepInv
<1>1. Init => StepInv
  BY ConstantsAssumption
     DEF Init, NoCall, StepInv, RowInv, CallMatchesSteps, StepsClosed, Summary, InOrder,
         ActivePcs, TerminalStatuses, FailureCodes
<1>2. TypeOK /\ LockInv /\ StepInv /\ [Next]_vars => StepInv'
  <2> SUFFICES ASSUME TypeOK, LockInv, StepInv, [Next]_vars, NEW f \in Executions
               PROVE  RowInv(f)'
    BY DEF StepInv
  <2>0. RowInv(f)
    BY DEF StepInv
  <2>1. CASE UNCHANGED vars
    BY <2>0, <2>1, RowUntouched DEF vars
  <2>2. ASSUME NEW e \in Executions,
               ExecuteSteps(e) \/ StorageFails(e) \/ \E r \in Rituals : StartExecution(e, r)
        PROVE  RowInv(f)'
    <3>1. CASE f = e
      BY <2>0, <2>2, <3>1, CallKeepsRow
    <3>2. CASE f # e
      BY <2>0, <2>2, <3>2, CallTouchesOne, RowUntouched
    <3>3. QED
      BY <3>1, <3>2
  <2>3. CASE Crash \/ Restart \/ Recover
    BY <2>3, RecoveryKeepsRows
  <2>4. QED
    BY <2>1, <2>2, <2>3 DEF Next
<1>3. QED
  BY <1>1, <1>2, TypeCorrect, LockInvariant, PTL DEF Spec

\* A terminal execution has no open step (README.md), outside a recovery.
THEOREM TerminalRunsClosed == Spec => []TerminalStepsClosed
<1>1. TypeOK /\ StepInv => TerminalStepsClosed
  BY StepInvImplies
<1>2. QED
  BY <1>1, TypeCorrect, StepInvariant, PTL

\* The status a client reads is the summary of the steps it reads.
THEOREM StatusTruthful == Spec => []StatusSummarisesSteps
<1>1. TypeOK /\ StepInv => StatusSummarisesSteps
  BY StepInvImplies
<1>2. QED
  BY <1>1, TypeCorrect, StepInvariant, PTL

\* Actions are run in order and none is run after a failure.
THEOREM StepsSequential == Spec => []SequentialSteps
<1>1. TypeOK /\ StepInv => SequentialSteps
  BY StepInvImplies
<1>2. QED
  BY <1>1, TypeCorrect, StepInvariant, PTL

\* terminal_step_invariant never turns a finished run into an internal error.
THEOREM CommitAlwaysAccepted == Spec => []CommitNeverRefused
<1>1. TypeOK /\ StepInv => CommitNeverRefused
  BY StepInvImplies
<1>2. QED
  BY <1>1, TypeCorrect, StepInvariant, PTL

-----------------------------------------------------------------------------
(***************************************************************************)
(* Refinement of ExecutionHistory.                                         *)
(***************************************************************************)

\* A step that keeps every execution's ritual, status and good steps stutters.
LEMMA ViewUnchanged ==
    ASSUME \A e \in Executions :
              /\ exec'[e].ritual = exec[e].ritual
              /\ exec'[e].status = exec[e].status
              /\ \A k \in StepIndex : steps'[e][k] \in GoodStatuses <=> steps[e][k] \in GoodStatuses
    PROVE  HistoryView' = HistoryView
<1>1. \A e \in Executions : GoodSteps(e)' = GoodSteps(e)
  BY DEF GoodSteps
<1>2. QED
  BY <1>1 DEF HistoryView

\* The good steps of a call in progress are those before its index.
LEMMA GoodStepsOfCall ==
    ASSUME TypeOK, StepInv, NEW e \in Executions, run[e].pc \in ActivePcs
    PROVE  /\ GoodSteps(e) = 1..(run[e].index - 1)
           /\ run[e].index \in 1..(N + 1)
<1>1. /\ N \in Nat \ {0} /\ run[e].index \in Nat \ {0} /\ run[e].index <= N + 1
      /\ \A k \in StepIndex : steps[e][k] \in GoodStatuses <=> k < run[e].index
  BY ConstantsAssumption DEF TypeOK, Call, StepInv, RowInv, CallMatchesSteps
<1>2. QED
  BY <1>1 DEF GoodSteps, StepIndex

\* Every step of the executor, a crash or a recovery statement is a step of the
\* abstract history or leaves the view of it unchanged.
LEMMA StepRefines ==
    TypeOK /\ LockInv /\ StepInv /\ [Next]_vars => [History!Next]_HistoryView
<1> SUFFICES ASSUME TypeOK, LockInv, StepInv, [Next]_vars
             PROVE  History!Next \/ HistoryView' = HistoryView
  OBVIOUS
<1>0. /\ exec \in [Executions -> ExecRow] /\ run \in [Executions -> Call]
      /\ steps \in [Executions -> [StepIndex -> StepStatuses]]
      /\ N \in Nat \ {0} /\ StepIndex = 1..N
      /\ HistoryView \in [Executions -> [ritual : Rituals \cup {None},
                                        status : {None, "running"} \cup TerminalStatuses,
                                        done : SUBSET StepIndex]]
  BY ConstantsAssumption DEF TypeOK, StepIndex, HistoryView, ExecRow, GoodSteps
<1>1. CASE UNCHANGED vars
  BY <1>1, ViewUnchanged DEF vars
<1>2. ASSUME NEW e \in Executions, NEW r \in Rituals, StartExecution(e, r)
      PROVE  History!Next
  <2>1. History!Running(r) = {}
    BY <1>2, ConstantsAssumption
       DEF StartExecution, History!Running, HistoryView, LockInv, RunningLocked
  <2>2. HistoryView[e].status = None
    BY <1>2 DEF StartExecution, HistoryView
  <2>3. GoodSteps(e)' = {}
    BY <1>0, <1>2 DEF StartExecution, GoodSteps, GoodStatuses
  <2>4. \A f \in Executions \ {e} : HistoryView'[f] = HistoryView[f]
    BY <1>0, <1>2 DEF StartExecution, HistoryView, GoodSteps
  <2>5. HistoryView'[e] = [ritual |-> r, status |-> "running", done |-> {}]
    BY <1>0, <1>2, <2>3 DEF StartExecution, HistoryView
  <2>6. HistoryView' = [HistoryView EXCEPT ![e] = [ritual |-> r, status |-> "running", done |-> {}]]
    BY <1>0, <2>4, <2>5 DEF HistoryView
  <2>7. QED
    BY <2>1, <2>2, <2>6 DEF History!Next, History!Begin
<1>3. ASSUME NEW e \in Executions, RecordStep(e)
      PROVE  History!Next \/ HistoryView' = HistoryView
  <2> DEFINE i == run[e].index
  <2>1. /\ run[e].pc = "record" /\ run[e].outcome \in Outcomes /\ exec' = exec
        /\ exec[e].status = "running" /\ i \in StepIndex
        /\ steps' = [steps EXCEPT ![e][i] = run[e].outcome.status]
        /\ steps[e][i] \notin GoodStatuses
        /\ GoodSteps(e) = 1..(i - 1)
    BY <1>0, <1>3, GoodStepsOfCall
       DEF RecordStep, TypeOK, Call, LockInv, CallsMatchRows, StepInv, RowInv, CallMatchesSteps,
           ActivePcs, GoodStatuses
  <2>2. CASE run[e].outcome.status \in GoodStatuses
    <3>1. GoodSteps(e)' = 1..i
      BY <1>0, <2>1, <2>2 DEF GoodSteps
    <3>2. \A f \in Executions \ {e} : GoodSteps(f)' = GoodSteps(f)
      BY <1>0, <2>1 DEF GoodSteps
    <3>3. HistoryView' = [HistoryView EXCEPT ![e].done = 1..i]
      BY <1>0, <2>1, <3>1, <3>2 DEF HistoryView
    <3>4. HistoryView[e].status = "running" /\ HistoryView[e].done = 1..(i - 1)
      BY <2>1 DEF HistoryView
    <3>5. History!DoStep(e, i)
      BY <3>3, <3>4 DEF History!DoStep
    <3>6. QED
      BY <1>0, <2>1, <3>5 DEF History!Next
  <2>3. CASE run[e].outcome.status \notin GoodStatuses
    BY <1>0, <2>1, <2>3, ViewUnchanged
  <2>4. QED
    BY <2>2, <2>3
<1>4. ASSUME NEW e \in Executions, CommitExecution(e)
      PROVE  History!Next
  <2>1. /\ run[e].pc \in ActivePcs /\ exec[e].status = "running"
        /\ exec' = [exec EXCEPT ![e] = [@ EXCEPT !.status = Verdict(e), !.code = run[e].code]]
        /\ steps' = steps
        /\ run[e].index \in 1..(N + 1) /\ GoodSteps(e) = 1..(run[e].index - 1)
        /\ run[e].successful = run[e].index - 1
    BY <1>4, GoodStepsOfCall
       DEF CommitExecution, ActivePcs, LockInv, CallsMatchRows, StepInv, RowInv, CallMatchesSteps
  <2>2. \/ run[e].pc = "ready" /\ run[e].index = N + 1 /\ run[e].code = None
        \/ run[e].pc = "finalize" /\ run[e].index <= N /\ run[e].code # None
    BY <1>4, ConstantsAssumption
       DEF CommitExecution, ActivePcs, StepInv, RowInv, CallMatchesSteps
  <2>3. Verdict(e) = IF GoodSteps(e) = 1..N THEN "succeeded"
                     ELSE IF GoodSteps(e) = {} THEN "failed" ELSE "partial"
    <3>1. CASE run[e].index = N + 1 /\ run[e].code = None
      BY <1>0, <2>1, <3>1 DEF Verdict
    <3>2. CASE run[e].index <= N /\ run[e].code # None
      <4>1. GoodSteps(e) # 1..N /\ (GoodSteps(e) = {} <=> run[e].successful = 0)
        <5>1. N \in 1..N /\ N \notin 1..(run[e].index - 1)
          BY <1>0, <2>1, <3>2
        <5>2. run[e].index # 1 => 1 \in 1..(run[e].index - 1)
          BY <1>0, <2>1
        <5>3. QED
          BY <1>0, <2>1, <5>1, <5>2
      <4>2. QED
        BY <3>2, <4>1 DEF Verdict
    <3>3. QED
      BY <2>2, <3>1, <3>2
  <2>4. \A f \in Executions : GoodSteps(f)' = GoodSteps(f)
    BY <2>1 DEF GoodSteps
  <2>5. HistoryView[e].status = "running" /\ HistoryView[e].done = GoodSteps(e)
    BY <2>1 DEF HistoryView
  <2>6. /\ exec'[e].status = Verdict(e) /\ exec'[e].ritual = exec[e].ritual
        /\ \A f \in Executions \ {e} : exec'[f] = exec[f]
    BY <1>0, <2>1 DEF ExecRow
  <2>7. HistoryView' = [HistoryView EXCEPT ![e].status = Verdict(e)]
    BY <1>0, <2>4, <2>6 DEF HistoryView
  <2>8. History!Finish(e)
    BY <2>3, <2>5, <2>7 DEF History!Finish
  <2>9. QED
    BY <2>8 DEF History!Next
<1>5. CASE AbortExecutions
  <2>1. \A e \in Executions : GoodSteps(e)' = GoodSteps(e)
    BY <1>5 DEF AbortExecutions, GoodSteps
  <2>2. \A e \in Executions :
           HistoryView'[e] = IF HistoryView[e].status = "running"
                             THEN [HistoryView[e] EXCEPT !.status = "aborted"]
                             ELSE HistoryView[e]
    <3> TAKE e \in Executions
    <3>1. CASE exec[e].status = "running"
      <4>1. exec'[e] = [exec[e] EXCEPT !.status = "aborted", !.code = "daemon_restarted"]
        BY <1>5, <3>1 DEF AbortExecutions
      <4>2. exec'[e].status = "aborted" /\ exec'[e].ritual = exec[e].ritual
        BY <1>0, <4>1 DEF ExecRow
      <4>3. QED
        BY <2>1, <3>1, <4>2 DEF HistoryView
    <3>2. CASE exec[e].status # "running"
      BY <1>5, <2>1, <3>2 DEF AbortExecutions, HistoryView
    <3>3. QED
      BY <3>1, <3>2
  <2>3. History!AbortRunning
    BY <1>0, <2>2 DEF History!AbortRunning, HistoryView
  <2>4. QED
    BY <2>3 DEF History!Next
<1>6. ASSUME NEW e \in Executions,
             \/ DeadlinePassed(e) \/ DeadlineTimeout(e) \/ ReleaseLock(e) \/ StorageFails(e)
             \/ \E outcome \in Outcomes : ActionReturns(e, outcome)
      PROVE  HistoryView' = HistoryView
  BY <1>6, ViewUnchanged
     DEF DeadlinePassed, DeadlineTimeout, ReleaseLock, StorageFails, ActionReturns
<1>7. ASSUME NEW e \in Executions, BeginStep(e)
      PROVE  HistoryView' = HistoryView
  <2>1. run[e].index \in StepIndex /\ steps[e][run[e].index] \notin GoodStatuses
    BY <1>0, <1>7 DEF BeginStep, TypeOK, Call, StepInv, RowInv, CallMatchesSteps, GoodStatuses
  <2>2. QED
    BY <1>0, <1>7, <2>1, ViewUnchanged DEF BeginStep, GoodStatuses
<1>8. ASSUME NEW e \in Executions, FinalizeStep(e)
      PROVE  HistoryView' = HistoryView
  <2>1. PICK n \in StepIndex : /\ steps[e][n] \in OpenStatuses
                               /\ steps' = [steps EXCEPT ![e][n] = "aborted"]
    BY <1>8 DEF FinalizeStep, OpenSteps
  <2>2. QED
    BY <1>0, <1>8, <2>1, ViewUnchanged DEF FinalizeStep, OpenStatuses, GoodStatuses
<1>9. CASE AbortSteps
  <2>1. \A e \in Executions, k \in StepIndex :
           steps'[e][k] \in GoodStatuses <=> steps[e][k] \in GoodStatuses
    BY <1>0, <1>9 DEF AbortSteps, OpenStatuses, GoodStatuses
  <2>2. QED
    BY <1>9, <2>1, ViewUnchanged DEF AbortSteps
<1>10. CASE Crash \/ Restart \/ DeleteLocks
  BY <1>10, ViewUnchanged DEF Crash, Restart, DeleteLocks
<1>11. QED
  BY <1>1, <1>2, <1>3, <1>4, <1>5, <1>6, <1>7, <1>8, <1>9, <1>10
     DEF Next, ExecuteSteps, Recover

\* The executor, its crashes and its recoveries implement the abstract history.
THEOREM HistoryRefined == Spec => ImplementsHistory
<1>1. Init => History!Init
  <2> SUFFICES ASSUME Init
               PROVE  History!Init
    OBVIOUS
  <2>1. \A e \in Executions : GoodSteps(e) = {}
    BY DEF Init, GoodSteps, GoodStatuses
  <2>2. QED
    BY <2>1 DEF Init, History!Init, HistoryView
<1>2. QED
  BY <1>1, StepRefines, TypeCorrect, LockInvariant, StepInvariant, PTL
     DEF Spec, ImplementsHistory, History!Spec

\* History is written once: no later call and no recovery changes a terminal row
\* or a step that has its final status.
THEOREM HistoryNeverRewritten == Spec => HistoryImmutable
<1> DEFINE Kept(e) == /\ exec[e].status \in TerminalStatuses => exec'[e] = exec[e]
                      /\ exec[e].status # None =>
                            \A k \in StepIndex \ OpenSteps(e) : steps'[e][k] = steps[e][k]
<1>1. TypeOK /\ LockInv /\ StepInv /\ [Next]_vars => [\A e \in Executions : Kept(e)]_vars
  <2> SUFFICES ASSUME TypeOK, LockInv, StepInv, Next, NEW f \in Executions
               PROVE  Kept(f)
    OBVIOUS
  <2>0. /\ exec \in [Executions -> ExecRow] /\ steps \in [Executions -> [StepIndex -> StepStatuses]]
        /\ "running" \notin TerminalStatuses /\ None \notin TerminalStatuses
    BY ConstantsAssumption DEF TypeOK, TerminalStatuses
  <2>1. ASSUME NEW e \in Executions,
               ExecuteSteps(e) \/ StorageFails(e) \/ \E r \in Rituals : StartExecution(e, r)
        PROVE  Kept(f)
    <3>1. CASE f # e
      BY <2>1, <3>1, CallTouchesOne
    <3>2. CASE \E r \in Rituals : StartExecution(f, r)
      BY <2>0, <3>2 DEF StartExecution
    <3>3. CASE CommitExecution(f)
      BY <2>0, <3>3 DEF CommitExecution, LockInv, CallsMatchRows, ActivePcs
    <3>4. CASE BeginStep(f)
      <4>1. steps[f][run[f].index] \in OpenStatuses
        BY <3>4 DEF BeginStep, StepInv, RowInv, CallMatchesSteps, OpenStatuses
      <4>2. QED
        BY <2>0, <3>4, <4>1 DEF BeginStep, OpenSteps
    <3>5. CASE RecordStep(f)
      <4>1. steps[f][run[f].index] \in OpenStatuses
        BY <3>5 DEF RecordStep, StepInv, RowInv, CallMatchesSteps, OpenStatuses
      <4>2. QED
        BY <2>0, <3>5, <4>1 DEF RecordStep, OpenSteps
    <3>6. CASE FinalizeStep(f)
      BY <2>0, <3>6 DEF FinalizeStep, OpenSteps
    <3>7. CASE \/ DeadlinePassed(f) \/ DeadlineTimeout(f) \/ ReleaseLock(f) \/ StorageFails(f)
               \/ \E outcome \in Outcomes : ActionReturns(f, outcome)
      BY <3>7 DEF DeadlinePassed, DeadlineTimeout, ReleaseLock, StorageFails, ActionReturns
    <3>8. QED
      BY <2>1, <3>1, <3>2, <3>3, <3>4, <3>5, <3>6, <3>7 DEF ExecuteSteps
  <2>2. CASE Crash \/ Restart \/ DeleteLocks
    BY <2>2 DEF Crash, Restart, DeleteLocks
  <2>3. CASE AbortExecutions
    BY <2>0, <2>3 DEF AbortExecutions
  <2>4. CASE AbortSteps
    BY <2>0, <2>4 DEF AbortSteps, OpenSteps
  <2>5. QED
    BY <2>1, <2>2, <2>3, <2>4 DEF Next, Recover
<1>2. QED
  BY <1>1, TypeCorrect, LockInvariant, StepInvariant, PTL DEF Spec, HistoryImmutable
=============================================================================
