------------------------- MODULE JobLifecycleProofs -------------------------
(***************************************************************************)
(* Proofs about JobLifecycle for any number of workers, jobs, tokens, runs *)
(* and retries: the type invariant; that a handler is neither replayed nor *)
(* run twice at a time unless an operator retried its job; and that only   *)
(* the newest run of a job publishes a result.                             *)
(***************************************************************************)
EXTENDS JobLifecycle, TLAPS

-----------------------------------------------------------------------------
(* The rows that the actions write have the types of their columns.        *)

(* A row without a lease (update_job_status, complete_job_run).            *)
LEMMA NoLeaseType ==
    ASSUME NEW s \in JobStatus
    PROVE  NoLease(s) \in JobRow
BY DEF NoLease, JobRow

(* What cancel_job leaves in the jobs row.                                 *)
LEMMA CancelledType ==
    ASSUME TypeOK, NEW j \in Job
    PROVE  Cancelled(j) \in JobRow
<1>1. job[j] \in JobRow
  BY DEF TypeOK
<1>2. "cancelled" \in JobStatus
  BY DEF JobStatus
<1>3. [job[j] EXCEPT !.status = "cancelled"] \in JobRow
  BY <1>1, <1>2 DEF JobRow
<1> QED
  BY <1>1, <1>2, <1>3, NoLeaseType DEF Cancelled

(* The statuses requeue_expired_jobs writes into jobs and job_runs.        *)
LEMMA RecoveredType ==
    ASSUME NEW s \in ExecStatus
    PROVE  /\ RecoveredStatus(s) \in {"queued", "completed", "cancelled", "failed"}
           /\ RunStatusAfter(s) \in {"completed", "failed", "cancelled"}
BY DEF RecoveredStatus, RunStatusAfter, ExecStatus

(* The columns of a run that exists.                                       *)
LEMMA RunType ==
    ASSUME TypeOK, NEW r \in Runs
    PROVE  /\ r \in Run
           /\ run[r] \in RunRow
           /\ J(r) \in Job
           /\ W(r) \in Worker
<1>1. r \in 1..Len(run) /\ run \in Seq(RunRow) /\ Len(run) <= MaxRuns
  BY DEF TypeOK, Runs
<1>2. run[r] \in RunRow /\ r \in Run
  BY <1>1, JobAssumption DEF Run
<1> QED
  BY <1>2 DEF RunRow, J, W

(* A reservation after release.                                            *)
LEMMA ReleasedType ==
    ASSUME TypeOK, NEW j \in Job, NEW l, NEW rows
    PROVE  Released(j, l, rows) \in Run0
BY JobAssumption DEF TypeOK, Released, Run0
-----------------------------------------------------------------------------
(* The empty database and the processes before their first cycle.          *)
THEOREM InitType == Init => TypeOK
<1> SUFFICES ASSUME Init PROVE TypeOK
  OBVIOUS
<1>1. LeaseTypeOK
  <2>1. token \in 0..MaxToken
    BY MaxTokenAssumption DEF Init, LeaseInit
  <2> QED
    BY <2>1 DEF Init, LeaseInit, LeaseTypeOK
<1>2. 0 \in Run0 /\ 0 \in 0..MaxToken /\ 0 \in 0..MaxRetries /\ Len(run) <= MaxRuns
  BY MaxTokenAssumption, JobAssumption DEF Init, Run0
<1>3. run \in Seq(RunRow)
  BY DEF Init
<1>4. job \in [Job -> JobRow]
  BY DEF Init, JobRow, JobStatus
<1>5. api \in [op : ApiOp, job : Job \cup {NoJob}] /\ NoPlan \in [job : Job \cup {NoJob}, seen : ExecStatus]
  BY DEF Init, Idle, NoPlan, ApiOp, ExecStatus
<1>6. "idle" \in Phase /\ "none" \in Pc /\ "queued" \in ExecStatus
  BY DEF Phase, Pc, ExecStatus
<1> QED
  BY <1>1, <1>2, <1>3, <1>4, <1>5, <1>6 DEF Init, TypeOK

(* One leaf per action: the variables it writes keep their types.          *)
LEMMA TypeStep == TypeOK /\ [Next]_vars => TypeOK'
<1> SUFFICES ASSUME TypeOK, [Next]_vars
             PROVE  TypeOK'
  OBVIOUS
<1>a. /\ {"idle", "cancel", "retry_control", "retry_exec", "retry_job"} \subseteq ApiOp
      /\ {"idle", "leading", "recovering", "row_read", "row_marked", "row_written", "batch", "busy", "down"} \subseteq Phase
      /\ {"claimed", "checked", "reserved", "spawned", "waiting", "returned", "closing",
          "committing", "closed", "done", "dead"} \subseteq Pc
      /\ {"queued", "running", "cancel_requested", "completed", "failed", "cancelled",
          "interrupted"} \subseteq ExecStatus
      /\ {"reserved", "open"} \subseteq Unfinished
      /\ {"boot", "handler"} \subseteq Alive
  BY DEF ApiOp, Phase, Pc, ExecStatus, Unfinished, Alive
<1>b. Idle \in [op : ApiOp, job : Job \cup {NoJob}] /\ NoPlan \in [job : Job \cup {NoJob}, seen : ExecStatus]
  BY <1>a DEF Idle, NoPlan
<1>c. \A t \in {"queued", "resource_wait", "completed", "failed", "cancelled"} : NoLease(t) \in JobRow
  BY NoLeaseType DEF JobStatus
<1>d. 0 \in 0..MaxToken /\ 0 \in Run0
  BY MaxTokenAssumption, JobAssumption DEF Run0
<1>e. pc \in [Run -> Pc] /\ out \in [Run -> {"completed", "failed", "cancelled"}]
  BY DEF TypeOK
<1>f. exec \in [Job -> ExecStatus] /\ started \in [Job -> Nat]
  BY DEF TypeOK
<1>g. job \in [Job -> JobRow]
  BY DEF TypeOK
<1>h. row \in [Run -> {"none", "closed"} \cup Unfinished] /\ child \in [Run -> {"none", "gone"} \cup Alive]
  BY DEF TypeOK
<1> USE DEF apiVars, workerVars, runVars, treeVars, histVars
<1>1. CASE UNCHANGED vars
  BY <1>1 DEF vars, TypeOK, LeaseTypeOK, leaseVars
<1>2. ASSUME NEW j \in Job, Enqueue(j) PROVE TypeOK'
  BY <1>2, <1>c DEF Enqueue, TypeOK, LeaseTypeOK, leaseVars
<1>3. ASSUME NEW j \in Job, CancelExecution(j) PROVE TypeOK'
  BY <1>3, <1>a, CancelledType DEF CancelExecution, TypeOK, LeaseTypeOK, leaseVars
<1>4. ASSUME NEW j \in Job, CancelControl(j) PROVE TypeOK'
  BY <1>4, <1>a DEF CancelControl, TypeOK, LeaseTypeOK, leaseVars
<1>5. ASSUME NEW j \in Job, RetryCheck(j) PROVE TypeOK'
  BY <1>5, <1>a, JobAssumption DEF RetryCheck, TypeOK, LeaseTypeOK, leaseVars
<1>6. CASE CancelJob
  <2>1. job' \in [Job -> JobRow]
    BY <1>6, CancelledType DEF CancelJob, TypeOK
  <2> QED
    BY <1>6, <2>1, <1>b DEF CancelJob, TypeOK, LeaseTypeOK, leaseVars
<1>7. CASE RetryControl
  BY <1>7, <1>a DEF RetryControl, TypeOK, LeaseTypeOK, leaseVars
<1>8. CASE RetryExec
  BY <1>8, <1>a DEF RetryExec, TypeOK, LeaseTypeOK, leaseVars
<1>9. CASE RetryJob
  BY <1>9, <1>b, <1>c DEF RetryJob, TypeOK, LeaseTypeOK, leaseVars
<1>10. ASSUME NEW w \in Worker, GrantLease(w) PROVE TypeOK'
  BY <1>10, MaxTokenAssumption DEF GrantLease, Grant, TypeOK, LeaseTypeOK
<1>11. ASSUME NEW w \in Worker, Lead(w) PROVE TypeOK'
  BY <1>11, <1>a DEF Lead, TypeOK, LeaseTypeOK, leaseVars
<1>12. ASSUME NEW w \in Worker, RecoverSelect(w) PROVE TypeOK'
  BY <1>12, <1>a DEF RecoverSelect, TypeOK, LeaseTypeOK, leaseVars
<1>13. ASSUME NEW w \in Worker, RecoverRead(w) PROVE TypeOK'
  BY <1>13, <1>a DEF RecoverRead, TypeOK, LeaseTypeOK, leaseVars
<1>14. ASSUME NEW w \in Worker, RecoverJob(w) PROVE TypeOK'
  <2>1. plan[w].seen \in ExecStatus
    BY DEF TypeOK
  <2>2. NoLease(RecoveredStatus(plan[w].seen)) \in JobRow
    BY <2>1, <1>c, RecoveredType
  <2> QED
    BY <1>14, <2>2, <1>a DEF RecoverJob, TypeOK, LeaseTypeOK, leaseVars
<1>27. ASSUME NEW w \in Worker, RecoverExec(w) PROVE TypeOK'
  BY <1>27, <1>a DEF RecoverExec, TypeOK, LeaseTypeOK, leaseVars
<1>15. ASSUME NEW w \in Worker, RecoverRuns(w) PROVE TypeOK'
  <2>1. RunStatusAfter(plan[w].seen) \in {"completed", "failed", "cancelled"}
    BY RecoveredType DEF TypeOK
  <2>2. \A r \in Runs : [run[r] EXCEPT !.status = RunStatusAfter(plan[w].seen)] \in RunRow
    BY <2>1, RunType DEF RunRow
  <2>3. \A r \in Runs : run'[r] \in RunRow
    BY <1>15, <2>2, RunType DEF RecoverRuns
  <2>4. run' \in Seq(RunRow) /\ Len(run') = Len(run)
    BY <1>15, <2>3 DEF RecoverRuns, Runs, TypeOK
  <2> QED
    BY <1>15, <2>4, <1>a, <1>b DEF RecoverRuns, TypeOK, LeaseTypeOK, leaseVars
<1>16. ASSUME NEW w \in Worker, RecoverEnd(w) PROVE TypeOK'
  BY <1>16, <1>a DEF RecoverEnd, TypeOK, LeaseTypeOK, leaseVars
<1>17. ASSUME NEW w \in Worker, NoClaim(w) PROVE TypeOK'
  BY <1>17, <1>a, <1>d DEF NoClaim, EndCycle, TypeOK, LeaseTypeOK, leaseVars
<1>28. ASSUME NEW w \in Worker, CycleFails(w) PROVE TypeOK'
  BY <1>28, <1>a, <1>b, <1>d DEF CycleFails, TypeOK, LeaseTypeOK, leaseVars
<1>18. ASSUME NEW w \in Worker, Crash(w) PROVE TypeOK'
  BY <1>18, <1>a, <1>b, <1>d DEF Crash, TypeOK, LeaseTypeOK, leaseVars
<1>19. ASSUME NEW w \in Worker, NEW r \in Runs, RecoverProcess(w, r) PROVE TypeOK'
  <2>1. res' \in [Job -> Run0]
    BY <1>19, ReleasedType, RunType DEF RecoverProcess, TypeOK
  <2> QED
    BY <1>19, <2>1 DEF RecoverProcess, TypeOK, LeaseTypeOK, leaseVars
<1>20. ASSUME NEW w \in Worker, NEW j \in Job, Park(w, j) PROVE TypeOK'
  BY <1>20, <1>a, <1>c, <1>d DEF Park, EndCycle, TypeOK, LeaseTypeOK, leaseVars
<1>21. ASSUME NEW w \in Worker, NEW j \in Job, Unpark(w, j) PROVE TypeOK'
  BY <1>21, <1>c DEF Unpark, TypeOK, LeaseTypeOK, leaseVars
<1>22. ASSUME NEW w \in Worker, NEW j \in Job, Claim(w, j) PROVE TypeOK'
  <2> DEFINE r == Len(run) + 1
             l == IF res[j] = 0 THEN r ELSE res[j]
             new == [job |-> j, owner |-> w, token |-> tok[w], lease |-> l, status |-> "running"]
  <2>1. r \in Run /\ l \in Run0
    BY <1>22, JobAssumption DEF Claim, TypeOK, Run, Run0
  <2>2. new \in RunRow
    BY <2>1 DEF TypeOK, RunRow
  <2>3. run' \in Seq(RunRow) /\ Len(run') <= MaxRuns
    BY <1>22, <2>1, <2>2, JobAssumption DEF Claim, TypeOK, Run
  <2>4. [status |-> "running", owner |-> w, lease |-> "live"] \in JobRow
    BY DEF JobRow, JobStatus
  <2>5. res' \in [Job -> Run0] /\ job' \in [Job -> JobRow]
    BY <1>22, <2>1, <2>4 DEF Claim, TypeOK
  <2> QED
    BY <1>22, <2>3, <2>5, <1>a DEF Claim, TypeOK, LeaseTypeOK, leaseVars
<1>23. ASSUME NEW r \in Runs, RunNext(r) PROVE TypeOK'
  <2>a. r \in Run /\ J(r) \in Job /\ W(r) \in Worker
    BY RunType
  <2>b. Outcome(exec[J(r)]) \in {"completed", "failed"}
    BY DEF Outcome
  <2>1. CASE Launch(r)
    <3>1. \/ Goto(r, "closing") /\ \E t \in {"completed", "failed"} : out' = [out EXCEPT ![r] = t]
          \/ Goto(r, "checked") /\ out' = out
      BY <2>1, <2>b DEF Launch, CloseAs
    <3>2. pc' \in [Run -> Pc] /\ out' \in [Run -> {"completed", "failed", "cancelled"}]
      BY <3>1, <1>a, <1>e, <1>h DEF Goto
    <3> QED
      BY <2>1, <3>2 DEF Launch, TypeOK, LeaseTypeOK, leaseVars
  <2>2. CASE Reserve(r)
    <3>1. \/ Goto(r, "closing") /\ out' = [out EXCEPT ![r] = "failed"] /\ row' = row
          \/ Goto(r, "reserved") /\ out' = out /\ row' = [row EXCEPT ![r] = "reserved"]
      BY <2>2 DEF Reserve, CloseAs
    <3>2. /\ pc' \in [Run -> Pc]
          /\ out' \in [Run -> {"completed", "failed", "cancelled"}]
          /\ row' \in [Run -> {"none", "closed"} \cup Unfinished]
      BY <3>1, <1>a, <1>e, <1>h DEF Goto
    <3> QED
      BY <2>2, <3>2 DEF Reserve, TypeOK, LeaseTypeOK, leaseVars
  <2>3. CASE Spawn(r)
    BY <2>3, <2>a, <1>a DEF Spawn, Goto, TypeOK, LeaseTypeOK, leaseVars
  <2>4. CASE Persist(r)
    BY <2>4, <2>a, <1>a DEF Persist, Goto, TypeOK, LeaseTypeOK, leaseVars
  <2>5. CASE LaunchFails(r)
    BY <2>5, <2>a, <1>a DEF LaunchFails, CloseAs, Goto, TypeOK, LeaseTypeOK, leaseVars
  <2>6. CASE Complete(r)
    BY <2>6, <2>a, <1>a DEF Complete, Goto, TypeOK, LeaseTypeOK, leaseVars
  <2>7. CASE Settle(r)
    <3>1. \/ Goto(r, "closing") /\ \E t \in {"completed", "failed"} : out' = [out EXCEPT ![r] = t]
          \/ Goto(r, "closed") /\ out' = out
      BY <2>7, <2>b DEF Settle, CloseAs
    <3>2. pc' \in [Run -> Pc] /\ out' \in [Run -> {"completed", "failed", "cancelled"}]
      BY <3>1, <1>a, <1>e, <1>h DEF Goto
    <3>3. exec' = exec \/ \E t \in {"cancelled", "failed"} : exec' = [exec EXCEPT ![J(r)] = t]
      BY <2>7 DEF Settle
    <3>4. exec' \in [Job -> ExecStatus]
      BY <3>3, <1>a, <1>f
    <3> QED
      BY <2>7, <3>2, <3>4 DEF Settle, TypeOK, LeaseTypeOK, leaseVars
  <2>8. CASE CloseRead(r)
    BY <2>8, <2>a, <1>a DEF CloseRead, Goto, TypeOK, LeaseTypeOK, leaseVars
  <2>9. CASE Close(r)
    <3>1. ClosedStatus(r) \in {"completed", "failed", "cancelled"}
      BY <2>a DEF ClosedStatus, TypeOK
    <3>2. NoLease(ClosedStatus(r)) \in JobRow
      BY <3>1, NoLeaseType DEF JobStatus
    <3>3. [run[r] EXCEPT !.status = ClosedStatus(r)] \in RunRow
      BY <3>1, RunType DEF RunRow
    <3>4. /\ [run EXCEPT ![r].status = ClosedStatus(r)] \in Seq(RunRow)
          /\ Len([run EXCEPT ![r].status = ClosedStatus(r)]) = Len(run)
      BY <3>3 DEF TypeOK, Runs
    <3>5. \/ run' = run /\ job' = job
          \/ /\ run' = [run EXCEPT ![r].status = ClosedStatus(r)]
             /\ job' = [job EXCEPT ![J(r)] = NoLease(ClosedStatus(r))]
      BY <2>9 DEF Close
    <3>6. job' \in [Job -> JobRow]
      BY <3>2, <3>5, <1>g
    <3>8. run \in Seq(RunRow) /\ Len(run) <= MaxRuns
      BY DEF TypeOK
    <3>9. run' \in Seq(RunRow) /\ Len(run') <= MaxRuns
      BY <3>4, <3>5, <3>8
    <3>7. pc' \in [Run -> Pc]
      BY <2>9, <1>a DEF Close, Goto, TypeOK
    <3> QED
      BY <2>9, <3>6, <3>7, <3>9 DEF Close, TypeOK, LeaseTypeOK, leaseVars
  <2>10. CASE ReleaseResource(r)
    <3>1. res' \in [Job -> Run0]
      BY <2>10, <2>a, ReleasedType DEF ReleaseResource, TypeOK
    <3> QED
      BY <2>10, <2>a, <3>1, <1>a, <1>d DEF ReleaseResource, EndCycle, Goto, TypeOK, LeaseTypeOK, leaseVars
  <2>11. CASE Heartbeat(r)
    <3>1. [job[J(r)] EXCEPT !.lease = "live"] \in JobRow
      BY <2>a, <1>g DEF JobRow
    <3>2. job' \in [Job -> JobRow]
      BY <2>11, <3>1 DEF Heartbeat, TypeOK
    <3> QED
      BY <2>11, <3>2 DEF Heartbeat, TypeOK, LeaseTypeOK, leaseVars
  <2>12. CASE ChildStart(r)
    <3>1. /\ exec' = exec \/ \E t \in {"running", "cancelled"} : exec' = [exec EXCEPT ![J(r)] = t]
          /\ \E t \in {"handler", "gone"} : child' = [child EXCEPT ![r] = t]
          /\ started' = started \/ started' = [started EXCEPT ![J(r)] = @ + 1]
      BY <2>12 DEF ChildStart
    <3>2. /\ exec' \in [Job -> ExecStatus]
          /\ child' \in [Run -> {"none", "gone"} \cup Alive]
          /\ started' \in [Job -> Nat]
      BY <3>1, <2>a, <1>a, <1>f, <1>h
    <3> QED
      BY <2>12, <3>2 DEF ChildStart, TypeOK, LeaseTypeOK, leaseVars
  <2>13. CASE ChildFinish(r)
    <3>1. exec' = exec \/ \E t \in {"completed", "failed", "cancelled"} : exec' = [exec EXCEPT ![J(r)] = t]
      BY <2>13 DEF ChildFinish, FinishedStatus
    <3>2. exec' \in [Job -> ExecStatus]
      BY <3>1, <1>a, <1>f
    <3> QED
      BY <2>13, <3>2 DEF ChildFinish, TypeOK, LeaseTypeOK, leaseVars
  <2>14. CASE ChildDies(r)
    BY <2>14, <2>a DEF ChildDies, TypeOK, LeaseTypeOK, leaseVars
  <2>15. CASE WatchKill(r) \/ HostKill(r)
    BY <2>15, <2>a DEF WatchKill, HostKill, Terminate, TypeOK, LeaseTypeOK, leaseVars
  <2>16. CASE WatchTell(r)
    BY <2>16, <2>a DEF WatchTell, TypeOK, LeaseTypeOK, leaseVars
  <2> QED
    BY <1>23, <2>1, <2>2, <2>3, <2>4, <2>5, <2>6, <2>7, <2>8, <2>9, <2>10, <2>11, <2>12,
       <2>13, <2>14, <2>15, <2>16 DEF RunNext
<1>24. CASE FlipLease
  BY <1>24 DEF FlipLease, Flip, TypeOK, LeaseTypeOK
<1>25. ASSUME NEW j \in Job, ExpireJobLease(j) PROVE TypeOK'
  <2>1. [job[j] EXCEPT !.lease = "expired"] \in JobRow
    BY <1>g DEF JobRow
  <2>2. job' \in [Job -> JobRow]
    BY <1>25, <2>1 DEF ExpireJobLease, TypeOK
  <2> QED
    BY <1>25, <2>2 DEF ExpireJobLease, TypeOK, LeaseTypeOK, leaseVars
<1>26. ASSUME NEW j \in Job, ExpireResourceLease(j) PROVE TypeOK'
  BY <1>26, <1>d DEF ExpireResourceLease, TypeOK, LeaseTypeOK, leaseVars
<1> QED
  BY <1>1, <1>2, <1>3, <1>4, <1>5, <1>6, <1>7, <1>8, <1>9, <1>10, <1>11, <1>12, <1>13, <1>14,
     <1>15, <1>16, <1>17, <1>18, <1>19, <1>20, <1>21, <1>22, <1>23, <1>24, <1>25, <1>26, <1>27, <1>28
     DEF Next, ApiNext, WorkerNext, ClockNext

(* Every variable keeps its type: SQLite enforces none of the status sets, *)
(* each writer has to.                                                     *)
THEOREM TypeCorrect == Spec => []TypeOK
BY InitType, TypeStep, PTL DEF Spec

-----------------------------------------------------------------------------
(* Runs are only added, and what identifies a run never changes.           *)

(* Claim adds a run; RecoverRuns and Close write a status; nothing else    *)
(* touches job_runs.                                                       *)
LEMMA RunWriters ==
    ASSUME [Next]_vars
    PROVE  \/ run' = run
           \/ \E w \in Worker, j \in Job : Claim(w, j)
           \/ \E w \in Worker : RecoverRuns(w)
           \/ \E r \in Runs : Close(r)
<1> USE DEF runVars
<1>1. ApiNext => run' = run
  BY DEF ApiNext, Enqueue, CancelExecution, CancelControl, CancelJob, RetryCheck, RetryControl,
         RetryExec, RetryJob
<1>2. ASSUME NEW w \in Worker, WorkerNext(w)
      PROVE  run' = run \/ RecoverRuns(w) \/ \E j \in Job : Claim(w, j)
  BY <1>2 DEF WorkerNext, GrantLease, Lead, RecoverSelect, RecoverRead, RecoverExec, RecoverJob, RecoverEnd,
              NoClaim, CycleFails, Crash, RecoverProcess, Park, Unpark
<1>3. ASSUME NEW r \in Runs, RunNext(r) PROVE run' = run \/ Close(r)
  BY <1>3 DEF RunNext, Launch, Reserve, Spawn, Persist, LaunchFails, Complete, Settle, CloseRead,
              ReleaseResource, Heartbeat, ChildStart, ChildFinish, ChildDies, WatchKill, HostKill, Terminate, WatchTell
<1>4. ClockNext => run' = run
  BY DEF ClockNext, FlipLease, ExpireJobLease, ExpireResourceLease
<1>5. UNCHANGED vars => run' = run
  BY DEF vars
<1> QED
  BY <1>1, <1>2, <1>3, <1>4, <1>5 DEF Next

SameRun(r) == run'[r].job = run[r].job /\ run'[r].owner = run[r].owner /\ run'[r].token = run[r].token

(* A run that exists keeps its job, owner and token for ever.              *)
LEMMA RunsKept ==
    ASSUME TypeOK, [Next]_vars
    PROVE  /\ \A r \in Runs : SameRun(r)
           /\ \/ Runs' = Runs
              \/ \E w \in Worker, j \in Job : Claim(w, j)
<1>1. CASE run' = run
  BY <1>1 DEF SameRun, Runs
<1>2. CASE \E w \in Worker, j \in Job : Claim(w, j)
  <2>1. PICK w \in Worker, j \in Job : Claim(w, j)
    BY <1>2
  <2>2. PICK new : run' = Append(run, new)
    BY <2>1 DEF Claim
  <2>3. run \in Seq(RunRow)
    BY DEF TypeOK
  <2>4. \A r \in Runs : run'[r] = run[r]
    BY <2>2, <2>3 DEF Runs
  <2> QED
    BY <1>2, <2>4 DEF SameRun
<1>3. ASSUME NEW w \in Worker, RecoverRuns(w)
      PROVE  Runs' = Runs /\ \A r \in Runs : SameRun(r)
  <2>1. \A r \in Runs : run'[r] = run[r] \/ run'[r] = [run[r] EXCEPT !.status = RunStatusAfter(plan[w].seen)]
    BY <1>3 DEF RecoverRuns
  <2>2. \A r \in Runs : SameRun(r)
    BY <2>1, RunType DEF SameRun, RunRow
  <2>3. Len(run) \in Nat
    BY DEF TypeOK
  <2>4. Len(run') = Len(run)
    BY <1>3, <2>3 DEF RecoverRuns, Runs
  <2> QED
    BY <2>2, <2>4 DEF Runs
<1>4. ASSUME NEW r \in Runs, Close(r)
      PROVE  Runs' = Runs /\ \A s \in Runs : SameRun(s)
  <2>1. run' = run \/ run' = [run EXCEPT ![r].status = ClosedStatus(r)]
    BY <1>4 DEF Close
  <2>2. run \in Seq(RunRow)
    BY DEF TypeOK
  <2>3. Len(run') = Len(run)
    BY <2>1, <2>2
  <2>4. \A s \in Runs : run'[s] = run[s] \/ run'[s] = [run[s] EXCEPT !.status = ClosedStatus(r)]
    BY <2>1, <2>2 DEF Runs
  <2>5. \A s \in Runs : SameRun(s)
    BY <2>4, RunType DEF SameRun, RunRow
  <2> QED
    BY <2>3, <2>5 DEF Runs
<1> QED
  BY <1>1, <1>2, <1>3, <1>4, RunWriters

(* A claim is made by the holder of the newest token, between two runs.    *)
LEMMA ClaimEffects ==
    ASSUME TypeOK, NEW w \in Worker, NEW j \in Job, Claim(w, j)
    PROVE  /\ Len(run) + 1 \in Run /\ Len(run) + 1 \notin Runs
           /\ Runs' = Runs \cup {Len(run) + 1}
           /\ run'[Len(run) + 1].owner = w
           /\ run'[Len(run) + 1].token = token
           /\ holder = w
           /\ phase[w] = "batch" /\ phase' = [phase EXCEPT ![w] = "busy"]
           /\ pc' = [pc EXCEPT ![Len(run) + 1] = "claimed"]
<1>1. PICK l : run' = Append(run, [job |-> j, owner |-> w, token |-> tok[w], lease |-> l, status |-> "running"])
  BY DEF Claim
<1>2. run \in Seq(RunRow) /\ Len(run) \in Nat
  BY DEF TypeOK
<1>3. Len(run) + 1 \in Run /\ FenceIsActive(w, tok[w]) /\ phase[w] = "batch"
  BY DEF Claim
<1>4. Len(run') = Len(run) + 1
  BY <1>1, <1>2
<1>5. Runs' = Runs \cup {Len(run) + 1} /\ Len(run) + 1 \notin Runs /\ Len(run) + 1 \in Run
  BY <1>2, <1>3, <1>4, JobAssumption DEF Runs, Run
<1>6. run'[Len(run) + 1] = [job |-> j, owner |-> w, token |-> tok[w], lease |-> l, status |-> "running"]
  BY <1>1, <1>2
<1> QED
  BY <1>3, <1>5, <1>6 DEF Claim, FenceIsActive
-----------------------------------------------------------------------------
(* Why a handler is not replayed.  A granted retry becomes effective when  *)
(* it puts the execution back to queued; until then it is pending.         *)

Pending(j) ==
    IF api.op \in {"retry_control", "retry_exec"} /\ api.job = j THEN 1 ELSE 0

(* A queued execution has a start to spare, any other has used its last.   *)
StartsBounded ==
    \A j \in Job :
        /\ started[j] <= 1 + retried[j] - Pending(j)
        /\ exec[j] = "queued" => started[j] <= retried[j] - Pending(j)

(* Without an operator's cancellation no execution is cancel_requested, the *)
(* one status from which ExecutionRepository.start begins a second time.   *)
NoCancelRequested == \A j \in Job : exec[j] # "cancel_requested"

(* A run that does not exist yet has no child; a retry in progress was     *)
(* granted; a handler of a job never retried is the only one, and its      *)
(* execution is not queued any more.                                       *)
Fresh == \A r \in Run : r \notin Runs => child[r] = "none"

GrantedRetry == api.op \in {"retry_control", "retry_exec"} => retried[api.job] # 0

HandlerHoldsJob ==
    \A j \in Job : retried[j] = 0 =>
        /\ exec[j] = "queued" => HandlersOf(j) = {}
        /\ \A r, s \in HandlersOf(j) : r = s

StartInv ==
    /\ TypeOK
    /\ StartsBounded
    /\ NoCancelRequested
    /\ Fresh
    /\ GrantedRetry
    /\ HandlerHoldsJob

(* Everything but a retry and the start of a handler. *)
Quiet ==
    /\ UNCHANGED histVars
    /\ \A j \in Job : exec'[j] \in {"queued", "cancel_requested"} => exec'[j] = exec[j]
    /\ api' = api \/ {api.op, api'.op} \cap {"retry_control", "retry_exec"} = {}
    /\ \A r \in Run : child'[r] = "handler" => child[r] = "handler"
    /\ \A r \in Run \ Runs : child'[r] = child[r]

(* Every step is quiet but a retry's first three statements and the start  *)
(* of a child.                                                             *)
LEMMA QuietSteps ==
    ASSUME TypeOK, ~MayCancel, [Next]_vars
    PROVE  \/ Quiet
           \/ \E j \in Job : RetryCheck(j)
           \/ RetryControl \/ RetryExec
           \/ \E r \in Runs : ChildStart(r)
<1> USE DEF Quiet, histVars, apiVars, workerVars, runVars, treeVars
<1>a. /\ exec \in [Job -> ExecStatus]
      /\ child \in [Run -> {"none", "gone"} \cup Alive]
      /\ api \in [op : ApiOp, job : Job \cup {NoJob}]
  BY DEF TypeOK
<1>1. ASSUME ApiNext PROVE Quiet \/ RetryControl \/ RetryExec \/ \E j \in Job : RetryCheck(j)
  <2>1. ASSUME NEW j \in Job, Enqueue(j) PROVE Quiet
    BY <2>1 DEF Enqueue
  <2>2. ASSUME NEW j \in Job, CancelExecution(j) \/ CancelControl(j) PROVE Quiet
    BY <2>2 DEF CancelExecution, CancelControl
  <2>3. CASE CancelJob \/ RetryJob
    BY <2>3 DEF CancelJob, RetryJob, Idle
  <2> QED
    BY <1>1, <2>1, <2>2, <2>3 DEF ApiNext
<1>2. ASSUME NEW w \in Worker, WorkerNext(w) PROVE Quiet
  <2>1. ASSUME exec' = exec, api' = api, child' = child, UNCHANGED histVars PROVE Quiet
    BY <2>1
  <2>2. CASE RecoverExec(w)
    BY <2>2, <1>a DEF RecoverExec
  <2>3. ASSUME NEW r \in Runs, RecoverProcess(w, r) PROVE Quiet
    <3>1. child' = [child EXCEPT ![r] = "gone"] /\ r \in Run
      BY <2>3, RunType DEF RecoverProcess
    <3> QED
      BY <2>3, <3>1, <1>a DEF RecoverProcess
  <2>4. CASE GrantLease(w) \/ Lead(w) \/ RecoverSelect(w) \/ RecoverRead(w) \/ RecoverJob(w)
             \/ RecoverRuns(w) \/ RecoverEnd(w) \/ NoClaim(w) \/ CycleFails(w) \/ Crash(w)
    BY <2>1, <2>4 DEF GrantLease, Lead, RecoverSelect, RecoverRead, RecoverExec, RecoverJob, RecoverRuns, RecoverEnd,
                      NoClaim, CycleFails, Crash
  <2>5. ASSUME NEW j \in Job, Park(w, j) \/ Unpark(w, j) \/ Claim(w, j) PROVE Quiet
    BY <2>1, <2>5 DEF Park, Unpark, Claim
  <2> QED
    BY <1>2, <2>2, <2>3, <2>4, <2>5 DEF WorkerNext
<1>3. ASSUME NEW r \in Runs, RunNext(r) PROVE Quiet \/ ChildStart(r)
  <2>a. r \in Run /\ J(r) \in Job
    BY RunType
  <2>1. ASSUME UNCHANGED histVars, api' = api,
               exec' = exec \/ \E t \in Terminal : exec' = [exec EXCEPT ![J(r)] = t],
               child' = child \/ \E t \in {"boot", "gone"} : child' = [child EXCEPT ![r] = t]
        PROVE  Quiet
    BY <2>1, <2>a, <1>a DEF Terminal
  <2>2. CASE LaunchFails(r)
    <3>1. child' = child \/ child' = [child EXCEPT ![r] = "gone"]
      BY <2>2, <2>a, <1>a DEF LaunchFails
    <3> QED
      BY <2>1, <2>2, <3>1 DEF LaunchFails
  <2>3. CASE Settle(r)
    <3>1. exec' = exec \/ \E t \in {"cancelled", "failed"} : exec' = [exec EXCEPT ![J(r)] = t]
      BY <2>3 DEF Settle
    <3> QED
      BY <2>1, <2>3, <3>1 DEF Settle, Terminal
  <2>4. CASE ChildFinish(r)
    <3>1. exec' = exec \/ \E t \in {"completed", "failed", "cancelled"} : exec' = [exec EXCEPT ![J(r)] = t]
      BY <2>4 DEF ChildFinish, FinishedStatus
    <3> QED
      BY <2>1, <2>4, <3>1 DEF ChildFinish, Terminal
  <2>5. CASE Launch(r) \/ Reserve(r) \/ Spawn(r) \/ Persist(r) \/ Complete(r) \/ CloseRead(r)
             \/ Close(r) \/ ReleaseResource(r) \/ Heartbeat(r) \/ ChildDies(r)
             \/ WatchKill(r) \/ HostKill(r) \/ WatchTell(r)
    BY <2>1, <2>5 DEF Launch, Reserve, Spawn, Persist, Complete, CloseRead, Close,
                      ReleaseResource, Heartbeat, ChildDies, WatchKill, HostKill, Terminate, WatchTell
  <2> QED
    BY <1>3, <2>2, <2>3, <2>4, <2>5 DEF RunNext
<1>4. ASSUME ClockNext PROVE Quiet
  BY <1>4 DEF ClockNext, FlipLease, ExpireJobLease, ExpireResourceLease
<1>5. ASSUME UNCHANGED vars PROVE Quiet
  BY <1>5 DEF vars
<1> QED
  BY <1>1, <1>2, <1>3, <1>4, <1>5 DEF Next

(* Handlers of a job are among the ones it had, unless one starts.         *)
LEMMA HandlersShrink ==
    ASSUME TypeOK, TypeOK', Fresh, [Next]_vars, NEW j \in Job,
           \A r \in Run : child'[r] = "handler" => child[r] = "handler"
    PROVE  HandlersOf(j)' \subseteq HandlersOf(j)
<1>1. SUFFICES ASSUME NEW r \in Runs', run'[r].job = j, child'[r] = "handler"
               PROVE  r \in Runs /\ run[r].job = j /\ child[r] = "handler"
  BY DEF HandlersOf, J
<1>2. r \in Run
  BY <1>1, JobAssumption DEF TypeOK, Runs, Run
<1>3. child[r] = "handler" /\ r \in Runs
  BY <1>1, <1>2 DEF Fresh
<1> QED
  BY <1>1, <1>3, RunsKept DEF SameRun

(* Fresh is kept: a step only touches children of runs that exist.         *)
LEMMA FreshStep ==
    ASSUME TypeOK, Fresh, [Next]_vars, \A r \in Run \ Runs : child'[r] = child[r]
    PROVE  Fresh'
<1>1. Runs \subseteq Runs'
  BY RunsKept, ClaimEffects
<1> QED
  BY <1>1 DEF Fresh

(* The strengthening of NoReplay is kept by every step.                    *)
LEMMA StartStep ==
    ASSUME ~MayCancel, StartInv, [Next]_vars
    PROVE  StartInv'
<1>a. TypeOK /\ TypeOK' /\ Fresh
  BY TypeStep DEF StartInv
<1>b. /\ exec \in [Job -> ExecStatus] /\ started \in [Job -> Nat] /\ retried \in [Job -> 0..MaxRetries]
      /\ child \in [Run -> {"none", "gone"} \cup Alive]
      /\ api \in [op : ApiOp, job : Job \cup {NoJob}]
  BY <1>a DEF TypeOK
<1>c. \A j \in Job : Pending(j) \in {0, 1}
  BY DEF Pending
<1>d. \A j \in Job : /\ started[j] \in Nat /\ retried[j] \in Nat /\ retried[j] >= 0
  BY <1>b, JobAssumption
<1>1. CASE Quiet
  <2>1. \A j \in Job : Pending(j)' = Pending(j)
    BY <1>1 DEF Quiet, Pending
  <2>2. StartsBounded' /\ NoCancelRequested'
    BY <1>1, <2>1 DEF Quiet, histVars, StartInv, StartsBounded, NoCancelRequested
  <2>3. GrantedRetry'
    BY <1>1 DEF Quiet, histVars, StartInv, GrantedRetry
  <2>4. \A j \in Job : HandlersOf(j)' \subseteq HandlersOf(j)
    BY <1>1, <1>a, HandlersShrink DEF Quiet
  <2>5. HandlerHoldsJob'
    BY <1>1, <2>4 DEF Quiet, histVars, StartInv, HandlerHoldsJob
  <2>6. Fresh'
    BY <1>1, <1>a, FreshStep DEF Quiet
  <2> QED
    BY <1>a, <2>2, <2>3, <2>5, <2>6 DEF StartInv
<1>2. CASE RetryControl \/ RetryExec \/ \E j \in Job : RetryCheck(j)
  <2>1. child' = child /\ started' = started
    BY <1>2 DEF RetryControl, RetryExec, RetryCheck, treeVars, histVars
  <2>2. Fresh' /\ \A j \in Job : HandlersOf(j)' \subseteq HandlersOf(j)
    BY <2>1, <1>a, FreshStep, HandlersShrink
  <2>3. CASE RetryControl
    <3>1. UNCHANGED <<exec, retried>> /\ api.op = "retry_control" /\ api' = [api EXCEPT !.op = "retry_exec"]
      BY <2>3 DEF RetryControl, histVars
    <3>2. (\A j \in Job : Pending(j)' = Pending(j)) /\ GrantedRetry'
      BY <3>1, <1>b DEF Pending, GrantedRetry, StartInv
    <3> QED
      BY <1>a, <2>1, <2>2, <3>1, <3>2 DEF StartInv, StartsBounded, NoCancelRequested, HandlerHoldsJob
  <2>4. CASE RetryExec
    <3>1. /\ UNCHANGED retried /\ api.op = "retry_exec" /\ api' = [api EXCEPT !.op = "retry_job"]
          /\ exec' = [exec EXCEPT ![api.job] = "queued"]
      BY <2>4 DEF RetryExec, histVars
    <3>2. /\ \A j \in Job : Pending(j) = (IF j = api.job THEN 1 ELSE 0) /\ Pending(j)' = 0
          /\ GrantedRetry'
      BY <3>1, <1>b DEF Pending, GrantedRetry
    <3>3. \A j \in Job : exec'[j] = IF j = api.job THEN "queued" ELSE exec[j]
      BY <3>1, <1>b
    <3>4. StartsBounded' /\ NoCancelRequested'
      BY <3>1, <3>2, <3>3, <2>1, <1>d DEF StartInv, StartsBounded, NoCancelRequested
    <3>5. HandlerHoldsJob'
      BY <3>1, <3>3, <2>2 DEF StartInv, HandlerHoldsJob, GrantedRetry
    <3> QED
      BY <1>a, <2>2, <3>2, <3>4, <3>5 DEF StartInv
  <2>5. ASSUME NEW j \in Job, RetryCheck(j) PROVE StartInv'
    <3>1. /\ UNCHANGED exec /\ api = Idle /\ api' = [op |-> "retry_control", job |-> j]
          /\ retried' = [retried EXCEPT ![j] = @ + 1]
      BY <2>5 DEF RetryCheck
    <3>2. \A i \in Job : Pending(i) = 0 /\ Pending(i)' = IF i = j THEN 1 ELSE 0
      BY <3>1 DEF Pending, Idle
    <3>3. \A i \in Job : retried'[i] = IF i = j THEN retried[i] + 1 ELSE retried[i]
      BY <3>1, <1>b
    <3>4. StartsBounded' /\ NoCancelRequested'
      BY <3>1, <3>2, <3>3, <2>1, <1>d DEF StartInv, StartsBounded, NoCancelRequested
    <3>5. GrantedRetry'
      BY <3>1, <3>3, <1>d DEF GrantedRetry
    <3>6. HandlerHoldsJob'
      BY <3>1, <3>3, <2>2, <1>d DEF StartInv, HandlerHoldsJob
    <3> QED
      BY <1>a, <2>2, <3>4, <3>5, <3>6 DEF StartInv
  <2> QED
    BY <1>2, <2>3, <2>4, <2>5
<1>3. ASSUME NEW r \in Runs, ChildStart(r) PROVE StartInv'
  <2>a. r \in Run /\ J(r) \in Job
    BY <1>a, RunType
  <2>b. UNCHANGED <<api, retried, run>>
    BY <1>3 DEF ChildStart, apiVars, runVars
  <2>c. (\A j \in Job : Pending(j)' = Pending(j)) /\ GrantedRetry'
    BY <2>b DEF Pending, GrantedRetry, StartInv
  <2>d. Runs' = Runs /\ \A s \in Runs : J(s)' = J(s)
    BY <2>b DEF Runs, J
  <2>1. CASE child' = [child EXCEPT ![r] = "gone"] /\ started' = started
    <3>1. exec' = exec \/ exec' = [exec EXCEPT ![J(r)] = "cancelled"]
      BY <1>3, <2>1, <1>b, <2>a DEF ChildStart
    <3>2. \A j \in Job : exec'[j] = exec[j] \/ exec'[j] = "cancelled"
      BY <3>1, <1>b
    <3>3. Fresh' /\ \A j \in Job : HandlersOf(j)' \subseteq HandlersOf(j)
      BY <2>1, <1>a, <1>b, <2>a, FreshStep, HandlersShrink
    <3> QED
      BY <1>a, <2>1, <2>b, <2>c, <3>2, <3>3
         DEF StartInv, StartsBounded, NoCancelRequested, HandlerHoldsJob
  <2>2. CASE /\ exec[J(r)] \notin Terminal \cup {"running"}
             /\ exec' = [exec EXCEPT ![J(r)] = "running"]
             /\ child' = [child EXCEPT ![r] = "handler"]
             /\ started' = [started EXCEPT ![J(r)] = @ + 1]
    <3>1. exec[J(r)] = "queued"
      BY <2>2, <2>a, <1>b DEF StartInv, NoCancelRequested, Terminal, ExecStatus
    <3>2. /\ \A j \in Job : started'[j] = IF j = J(r) THEN started[j] + 1 ELSE started[j]
          /\ \A j \in Job : exec'[j] = IF j = J(r) THEN "running" ELSE exec[j]
          /\ \A s \in Run : child'[s] = IF s = r THEN "handler" ELSE child[s]
      BY <2>2, <1>b
    <3>3. StartsBounded' /\ NoCancelRequested'
      BY <3>1, <3>2, <2>a, <2>b, <2>c, <1>c, <1>d DEF StartInv, StartsBounded, NoCancelRequested
    <3>4. Fresh'
      BY <3>2, <2>d, <1>a DEF Fresh
    <3>5. \A j \in Job : HandlersOf(j)' \subseteq HandlersOf(j) \cup (IF j = J(r) THEN {r} ELSE {})
      BY <3>2, <2>d, <1>a, RunType DEF HandlersOf
    <3>6. HandlerHoldsJob'
      BY <3>1, <3>2, <3>5, <2>a, <2>b DEF StartInv, HandlerHoldsJob
    <3> QED
      BY <1>a, <2>c, <3>3, <3>4, <3>6 DEF StartInv
  <2> QED
    BY <1>3, <2>1, <2>2 DEF ChildStart
<1> QED
  BY <1>a, <1>1, <1>2, <1>3, QuietSteps

(* Hence it is an invariant of every execution without cancellations.      *)
LEMMA StartInvariant == ASSUME ~MayCancel PROVE Spec => []StartInv
<1>1. Init => StartInv
  <2> SUFFICES ASSUME Init PROVE StartInv
    OBVIOUS
  <2>1. /\ TypeOK /\ api.op = "idle" /\ child = [r \in Run |-> "none"] /\ exec = [j \in Job |-> "queued"]
        /\ started = [j \in Job |-> 0] /\ retried = [j \in Job |-> 0] /\ Runs = {}
    BY InitType DEF Init, Idle, Runs
  <2> QED
    BY <2>1 DEF StartInv, StartsBounded, Pending, NoCancelRequested, Fresh, GrantedRetry,
                HandlerHoldsJob, HandlersOf
<1>2. StartInv /\ [Next]_vars => StartInv'
  BY StartStep
<1> QED
  BY <1>1, <1>2, PTL DEF Spec

(* requeue_expired_jobs and ExecutionRepository.start between them never   *)
(* start a handler again that may have had effects: at most one start, and *)
(* one more per operator retry, whatever crashes, expires or is taken over.*)
(* The operator cancels nothing: a cancel_requested execution may restart. *)
THEOREM HandlersNotReplayed == ASSUME ~MayCancel PROVE Spec => []NoReplay
<1>1. StartInv => NoReplay
  <2> SUFFICES ASSUME StartInv, NEW j \in Job PROVE started[j] <= 1 + retried[j]
    BY DEF NoReplay
  <2>1. started[j] \in Nat /\ retried[j] \in Nat
    BY JobAssumption DEF StartInv, TypeOK
  <2>2. Pending(j) \in {0, 1} /\ started[j] <= 1 + retried[j] - Pending(j)
    BY DEF StartInv, StartsBounded, Pending
  <2> QED
    BY <2>1, <2>2
<1> QED
  BY <1>1, StartInvariant, PTL

(* The runner's own check of its execution keeps two handlers of one job   *)
(* apart as long as no retry put the execution back to queued, even when   *)
(* recovery re-queues a job whose old tree still exists.                   *)
THEOREM OverlapOnlyAfterRetry == ASSUME ~MayCancel PROVE Spec => []OverlapNeedsRetry
<1>1. StartInv => OverlapNeedsRetry
  BY DEF StartInv, HandlerHoldsJob, OverlapNeedsRetry
<1> QED
  BY <1>1, StartInvariant, PTL
-----------------------------------------------------------------------------
(* Why only the newest run publishes.  Tokens of runs grow with the runs   *)
(* and belong to one worker each; a worker claims again only after its     *)
(* previous run is over, and a run is over only when its tree is.          *)

TokensOrdered ==
    /\ \A r, s \in Runs : r <= s => run[r].token <= run[s].token
    /\ \A r, s \in Runs : run[r].token = run[s].token => W(r) = W(s)
    /\ \A r \in Runs : run[r].token <= token
    /\ \A r \in Runs : run[r].token = token => W(r) = holder

OneRunAtATime ==
    /\ \A r, s \in Runs : r < s /\ W(r) = W(s) => pc[r] = "done"
    /\ \A r \in Runs :
          \/ pc[r] = "done"
          \/ pc[r] = "dead" /\ phase[W(r)] = "down"
          \/ pc[r] \in Active /\ phase[W(r)] = "busy"

TreeOutlivesRun ==
    \A r \in Runs : child[r] \in Alive => pc[r] \in {"spawned", "waiting", "dead"}

PublishInv ==
    /\ TypeOK
    /\ Fresh
    /\ TokensOrdered
    /\ OneRunAtATime
    /\ TreeOutlivesRun

(* What a step of w or of one of its threads may do to where things are.   *)
Moves ==
    \/ UNCHANGED <<pc, phase>>
    \/ \E w \in Worker :                    \* between cycles, not in a run
         /\ phase[w] \notin {"busy", "down"}
         /\ \E x \in Phase \ {"busy", "down"} : phase' = [phase EXCEPT ![w] = x]
         /\ pc' = pc
    \/ \E r \in Runs :                      \* within a run
         /\ pc[r] \in Active
         /\ \E x \in Active : pc' = [pc EXCEPT ![r] = x]
         /\ phase' = phase
    \/ \E r \in Runs :                      \* the end of a run
         /\ pc[r] \in Active
         /\ pc' = [pc EXCEPT ![r] = "done"]
         /\ phase' = [phase EXCEPT ![W(r)] = "idle"]
    \/ \E w \in Worker : Crash(w)
    \/ \E w \in Worker, j \in Job : Claim(w, j)

(* How a step may move the pcs of runs and the phases of workers.          *)
LEMMA StepMoves ==
    ASSUME TypeOK, [Next]_vars
    PROVE  Moves
<1> USE DEF apiVars, workerVars, runVars, treeVars, histVars
<1>1. ASSUME ApiNext PROVE UNCHANGED <<pc, phase>>
  BY <1>1 DEF ApiNext, Enqueue, CancelExecution, CancelControl, CancelJob, RetryCheck, RetryControl,
              RetryExec, RetryJob
<1>2. ASSUME NEW w \in Worker, WorkerNext(w) PROVE Moves
  <2>1. CASE GrantLease(w) \/ \E r \in Runs : RecoverProcess(w, r)
    BY <2>1 DEF GrantLease, RecoverProcess, Moves
  <2>2. CASE \E j \in Job : Unpark(w, j)
    BY <2>2 DEF Unpark, Moves
  <2>3. ASSUME phase[w] \notin {"busy", "down"}, pc' = pc,
               \E x \in Phase \ {"busy", "down"} : phase' = [phase EXCEPT ![w] = x]
        PROVE  Moves
    BY <2>3 DEF Moves
  <2>4. CASE Lead(w) \/ RecoverSelect(w) \/ RecoverRead(w) \/ RecoverExec(w) \/ RecoverJob(w)
             \/ RecoverRuns(w) \/ RecoverEnd(w) \/ NoClaim(w) \/ CycleFails(w) \/ \E j \in Job : Park(w, j)
    BY <2>3, <2>4 DEF Lead, RecoverSelect, RecoverRead, RecoverExec, RecoverJob, RecoverRuns, RecoverEnd,
                      NoClaim, CycleFails, Park, EndCycle, Phase
  <2>5. CASE Crash(w) \/ \E j \in Job : Claim(w, j)
    BY <2>5 DEF Moves
  <2> QED
    BY <1>2, <2>1, <2>2, <2>4, <2>5 DEF WorkerNext
<1>3. ASSUME NEW r \in Runs, RunNext(r) PROVE Moves
  <2>1. ASSUME pc[r] \in Active, \E x \in Active : Goto(r, x), phase' = phase PROVE Moves
    BY <2>1 DEF Moves, Goto
  <2>2. CASE Launch(r) \/ Reserve(r) \/ Spawn(r) \/ Persist(r) \/ LaunchFails(r) \/ Complete(r)
             \/ Settle(r) \/ CloseRead(r) \/ Close(r)
    BY <2>1, <2>2 DEF Launch, Reserve, Spawn, Persist, LaunchFails, Complete, Settle, CloseRead,
                      Close, CloseAs, At, Active, Pc
  <2>3. CASE ReleaseResource(r)
    BY <2>3 DEF ReleaseResource, EndCycle, Goto, At, Moves, Active, Pc
  <2>4. CASE Heartbeat(r) \/ ChildStart(r) \/ ChildFinish(r) \/ ChildDies(r) \/ WatchKill(r) \/ HostKill(r) \/ WatchTell(r)
    BY <2>4 DEF Heartbeat, ChildStart, ChildFinish, ChildDies, WatchKill, HostKill, Terminate, WatchTell, Moves
  <2> QED
    BY <1>3, <2>2, <2>3, <2>4 DEF RunNext
<1>4. ASSUME ClockNext PROVE UNCHANGED <<pc, phase>>
  BY <1>4 DEF ClockNext, FlipLease, ExpireJobLease, ExpireResourceLease
<1>5. ASSUME UNCHANGED vars PROVE UNCHANGED <<pc, phase>>
  BY <1>5 DEF vars
<1>6. UNCHANGED <<pc, phase>> => Moves
  BY DEF Moves
<1> QED
  BY <1>1, <1>2, <1>3, <1>4, <1>5, <1>6 DEF Next

(* The lease row moves only by grants and flips.                           *)
LEMMA LeaseMoves ==
    ASSUME TypeOK, [Next]_vars
    PROVE  \/ UNCHANGED <<holder, token>>
           \/ token' = token + 1 /\ ~\E w \in Worker, j \in Job : Claim(w, j)
<1> USE DEF leaseVars
<1>1. ASSUME ApiNext PROVE UNCHANGED <<holder, token>>
  BY <1>1 DEF ApiNext, Enqueue, CancelExecution, CancelControl, CancelJob, RetryCheck, RetryControl,
              RetryExec, RetryJob
<1>2. ASSUME NEW w \in Worker, WorkerNext(w) PROVE UNCHANGED <<holder, token>> \/ GrantLease(w)
  BY <1>2 DEF WorkerNext, Lead, RecoverSelect, RecoverRead, RecoverExec, RecoverJob, RecoverRuns, RecoverEnd,
              NoClaim, CycleFails, Crash, RecoverProcess, Park, Unpark, Claim
<1>3. ASSUME NEW r \in Runs, RunNext(r) PROVE UNCHANGED <<holder, token>>
  BY <1>3 DEF RunNext, Launch, Reserve, Spawn, Persist, LaunchFails, Complete, Settle, CloseRead,
              Close, ReleaseResource, Heartbeat, ChildStart, ChildFinish, ChildDies, WatchKill, HostKill, Terminate, WatchTell
<1>4. ASSUME ClockNext PROVE UNCHANGED <<holder, token>>
  BY <1>4 DEF ClockNext, FlipLease, Flip, ExpireJobLease, ExpireResourceLease
<1>5. ASSUME UNCHANGED vars PROVE UNCHANGED <<holder, token>>
  BY <1>5 DEF vars
<1>6. ASSUME NEW w \in Worker, GrantLease(w)
      PROVE  token' = token + 1 /\ ~\E v \in Worker, j \in Job : Claim(v, j)
  <2>1. token' = token + 1 /\ token' # token
    BY <1>6, MaxTokenAssumption DEF GrantLease, Grant, TypeOK, LeaseTypeOK
  <2>2. \A v \in Worker, j \in Job : Claim(v, j) => token' = token
    BY DEF Claim
  <2> QED
    BY <2>1, <2>2
<1> QED
  BY <1>1, <1>2, <1>3, <1>4, <1>5, <1>6 DEF Next

(* TokensOrdered is kept: a claim carries the newest token, which is its   *)
(* worker's.                                                               *)
LEMMA TokensStep ==
    ASSUME TypeOK, TokensOrdered, [Next]_vars
    PROVE  TokensOrdered'
<1>a. /\ token \in Nat
      /\ \A r \in Runs : run[r].token \in Nat
  BY RunType, MaxTokenAssumption DEF TypeOK, LeaseTypeOK, RunRow
<1>b. \A r \in Runs : SameRun(r)
  BY RunsKept
<1>1. CASE Runs' = Runs
  BY <1>1, <1>a, <1>b, LeaseMoves DEF SameRun, TokensOrdered, W
<1>2. ASSUME NEW w \in Worker, NEW j \in Job, Claim(w, j) PROVE TokensOrdered'
  <2> DEFINE n == Len(run) + 1
  <2>1. /\ Runs' = Runs \cup {n} /\ n \notin Runs
        /\ run'[n].owner = w /\ run'[n].token = token /\ holder = w
    BY <1>2, ClaimEffects
  <2>2. \A r \in Runs : r < n /\ ~(n <= r)
    BY DEF Runs, TypeOK
  <2>3. UNCHANGED <<holder, token>>
    BY <1>2 DEF Claim, leaseVars
  <2> HIDE DEF n
  <2> QED
    BY <2>1, <2>2, <2>3, <1>a, <1>b DEF SameRun, TokensOrdered, W
<1> QED
  BY <1>1, <1>2, RunsKept

(* OneRunAtATime is kept: a worker claims again only when its last run is  *)
(* done.                                                                   *)
LEMMA OneRunStep ==
    ASSUME TypeOK, OneRunAtATime, [Next]_vars
    PROVE  OneRunAtATime'
<1>a. pc \in [Run -> Pc] /\ phase \in [Worker -> Phase]
  BY DEF TypeOK
<1>b. \A r \in Runs : r \in Run /\ W(r) \in Worker /\ r \in Int
  BY RunType DEF Runs
<1>c. "done" \notin Active /\ "dead" \notin Active
  BY DEF Active
<1>1. CASE Runs' = Runs
  <2>1. \A r \in Runs : W(r)' = W(r)
    BY RunsKept DEF SameRun, W
  <2>2. CASE UNCHANGED <<pc, phase>>
    BY <1>1, <2>1, <2>2 DEF OneRunAtATime
  <2>3. ASSUME NEW w \in Worker, phase[w] \notin {"busy", "down"}, pc' = pc,
               NEW x \in Phase \ {"busy", "down"}, phase' = [phase EXCEPT ![w] = x]
        PROVE  OneRunAtATime'
    BY <1>1, <2>1, <2>3, <1>a, <1>b DEF OneRunAtATime
  <2>4. ASSUME NEW r \in Runs, pc[r] \in Active, NEW x \in Active,
               pc' = [pc EXCEPT ![r] = x], phase' = phase
        PROVE  OneRunAtATime'
    BY <1>1, <2>1, <2>4, <1>a, <1>b, <1>c DEF OneRunAtATime
  <2>5. ASSUME NEW r \in Runs, pc[r] \in Active, pc' = [pc EXCEPT ![r] = "done"],
               phase' = [phase EXCEPT ![W(r)] = "idle"]
        PROVE  OneRunAtATime'
    <3>1. \A s \in Runs : s # r /\ W(s) = W(r) => pc[s] = "done"
      BY <2>5, <1>b, <1>c DEF OneRunAtATime
    <3>2. \A s \in Runs : pc'[s] = IF s = r THEN "done" ELSE pc[s]
      BY <2>5, <1>a, <1>b
    <3>3. \A s \in Runs : phase'[W(s)] = IF W(s) = W(r) THEN "idle" ELSE phase[W(s)]
      BY <2>5, <1>a, <1>b
    <3> QED
      BY <1>1, <2>1, <3>1, <3>2, <3>3 DEF OneRunAtATime
  <2>6. ASSUME NEW w \in Worker, Crash(w) PROVE OneRunAtATime'
    <3>1. /\ phase' = [phase EXCEPT ![w] = "down"]
          /\ \A r \in Runs : pc'[r] = IF W(r) = w /\ pc[r] \in Active THEN "dead" ELSE pc[r]
      BY <2>6, <1>b DEF Crash
    <3> QED
      BY <1>1, <2>1, <3>1, <1>a, <1>b, <1>c DEF OneRunAtATime
  <2>7. ASSUME NEW w \in Worker, NEW j \in Job, Claim(w, j) PROVE FALSE
    BY <1>1, <2>7, ClaimEffects
  <2> QED
    BY <2>2, <2>3, <2>4, <2>5, <2>6, <2>7, StepMoves DEF Moves
<1>2. ASSUME NEW w \in Worker, NEW j \in Job, Claim(w, j) PROVE OneRunAtATime'
  <2>1. PICK n \in Run :
           /\ n = Len(run) + 1
           /\ Runs' = Runs \cup {n} /\ n \notin Runs
           /\ run'[n].owner = w /\ phase[w] = "batch"
           /\ phase' = [phase EXCEPT ![w] = "busy"] /\ pc' = [pc EXCEPT ![n] = "claimed"]
    BY <1>2, ClaimEffects
  <2>2. \A r \in Runs : r < n /\ ~(n < r)
    BY <2>1 DEF Runs, TypeOK
  <2>3. ~(n < n)
    BY <2>1 DEF TypeOK
  <2>4. W(n)' = w /\ \A r \in Runs : W(r)' = W(r)
    BY <2>1, RunsKept DEF SameRun, W
  <2>5. \A r \in Runs : W(r) = w => pc[r] = "done"
    BY <2>1 DEF OneRunAtATime
  <2>6. pc'[n] = "claimed" /\ \A r \in Runs : pc'[r] = pc[r]
    BY <2>1, <1>a
  <2>7. phase'[w] = "busy" /\ \A r \in Runs : W(r) # w => phase'[W(r)] = phase[W(r)]
    BY <2>1, <1>a, <1>b
  <2>8. "claimed" \in Active
    BY DEF Active, Pc
  <2>9. \A r, s \in Runs' : r < s /\ W(r)' = W(s)' => pc'[r] = "done"
    BY <2>1, <2>2, <2>3, <2>4, <2>5, <2>6 DEF OneRunAtATime
  <2>10. ASSUME NEW r \in Runs'
         PROVE  \/ pc'[r] = "done"
                \/ pc'[r] = "dead" /\ phase'[run'[r].owner] = "down"
                \/ pc'[r] \in Active /\ phase'[run'[r].owner] = "busy"
    <3>1. CASE r \in Runs
      <4>1. run'[r].owner = W(r)
        BY <3>1, RunsKept DEF SameRun, W
      <4> QED
        BY <3>1, <4>1, <2>5, <2>6, <2>7 DEF OneRunAtATime
    <3>2. CASE r = n
      BY <3>2, <2>1, <2>6, <2>7, <2>8
    <3> QED
      BY <2>1, <3>1, <3>2
  <2> QED
    BY <2>9, <2>10 DEF OneRunAtATime, W
<1> QED
  BY <1>1, <1>2, RunsKept

(* TreeOutlivesRun is kept: complete and the failure path end a run only   *)
(* after its tree.                                                         *)
LEMMA TreeStep ==
    ASSUME TypeOK, Fresh, OneRunAtATime, TreeOutlivesRun, [Next]_vars
    PROVE  Fresh' /\ TreeOutlivesRun'
<1> DEFINE Home == {"spawned", "waiting", "dead"}
           Kept(r) == child'[r] \in Alive => pc'[r] \in Home
<1>a. /\ pc \in [Run -> Pc] /\ child \in [Run -> {"none", "gone"} \cup Alive]
      /\ "none" \notin Alive /\ "gone" \notin Alive /\ "boot" \in Alive /\ "handler" \in Alive
      /\ \A r \in Runs : r \in Run
  BY RunType DEF TypeOK, Alive
<1>b. \A r \in Runs : child[r] \in Alive => pc[r] \in Home
  BY DEF TreeOutlivesRun
<1>c. SUFFICES /\ \A r \in Runs : Kept(r)
               /\ \A r \in Run \ Runs : child'[r] = child[r]
  <2>1. Fresh'
    BY <1>c, FreshStep
  <2>2. ASSUME NEW w \in Worker, NEW j \in Job, Claim(w, j) PROVE TreeOutlivesRun'
    <3>1. PICK n \in Run : n \notin Runs /\ Runs' = Runs \cup {n}
      BY <2>2, ClaimEffects
    <3>2. child'[n] = "none"
      BY <1>c, <3>1 DEF Fresh
    <3> QED
      BY <1>a, <1>c, <3>1, <3>2 DEF TreeOutlivesRun
  <2>3. CASE Runs' = Runs
    <3>1. SUFFICES ASSUME NEW r \in Runs', child'[r] \in Alive
                   PROVE  pc'[r] \in Home
      BY <2>1 DEF TreeOutlivesRun
    <3> QED
      BY <1>c, <2>3, <3>1
  <2> QED
    BY <2>1, <2>2, <2>3, RunsKept
<1> USE DEF treeVars, runVars, workerVars
<1>1. CASE child' = child /\ pc' = pc
  BY <1>1, <1>b
<1>2. ASSUME NEW w \in Worker, WorkerNext(w)
      PROVE  (\A r \in Runs : Kept(r)) /\ \A r \in Run \ Runs : child'[r] = child[r]
  <2>1. CASE Crash(w)
    <3>1. child' = child /\ \A r \in Runs : pc'[r] = pc[r] \/ pc'[r] = "dead"
      BY <2>1, <1>a DEF Crash
    <3> QED
      BY <3>1, <1>b
  <2>2. ASSUME NEW j \in Job, Claim(w, j)
        PROVE  (\A r \in Runs : Kept(r)) /\ \A r \in Run \ Runs : child'[r] = child[r]
    <3>1. child' = child /\ \A r \in Runs : pc'[r] = pc[r]
      BY <2>2, <1>a, ClaimEffects DEF Claim
    <3> QED
      BY <3>1, <1>b
  <2>3. ASSUME NEW r \in Runs, RecoverProcess(w, r)
        PROVE  (\A s \in Runs : Kept(s)) /\ \A s \in Run \ Runs : child'[s] = child[s]
    <3>1. pc' = pc /\ child' = [child EXCEPT ![r] = "gone"]
      BY <2>3 DEF RecoverProcess
    <3> QED
      BY <3>1, <1>a, <1>b
  <2>4. CASE GrantLease(w) \/ Lead(w) \/ RecoverSelect(w) \/ RecoverRead(w) \/ RecoverExec(w)
             \/ RecoverJob(w) \/ RecoverRuns(w) \/ RecoverEnd(w) \/ NoClaim(w) \/ CycleFails(w)
    BY <1>1, <2>4 DEF GrantLease, Lead, RecoverSelect, RecoverRead, RecoverExec, RecoverJob, RecoverRuns,
                      RecoverEnd, NoClaim, CycleFails
  <2>5. CASE \E j \in Job : Park(w, j) \/ Unpark(w, j)
    BY <1>1, <2>5 DEF Park, Unpark
  <2> QED
    BY <1>2, <2>1, <2>2, <2>3, <2>4, <2>5 DEF WorkerNext
<1>3. ASSUME NEW r \in Runs, RunNext(r)
      PROVE  (\A s \in Runs : Kept(s)) /\ \A s \in Run \ Runs : child'[s] = child[s]
  <2>1. ASSUME Kept(r), \A s \in Run : s # r => child'[s] = child[s] /\ pc'[s] = pc[s]
        PROVE  (\A s \in Runs : Kept(s)) /\ \A s \in Run \ Runs : child'[s] = child[s]
    BY <2>1, <1>a, <1>b
  <2>2. ASSUME NEW x, pc' = [pc EXCEPT ![r] = x], child' = child, child[r] \notin Alive \/ x \in Home
        PROVE  (\A s \in Runs : Kept(s)) /\ \A s \in Run \ Runs : child'[s] = child[s]
    BY <2>1, <2>2, <1>a
  <2>3. ASSUME NEW c \in {"none", "gone", "handler"}, child' = [child EXCEPT ![r] = c],
               pc' = pc, c = "handler" => child[r] \in Alive
        PROVE  (\A s \in Runs : Kept(s)) /\ \A s \in Run \ Runs : child'[s] = child[s]
    BY <2>1, <2>3, <1>a, <1>b
  <2>4. CASE Launch(r) \/ Reserve(r) \/ Settle(r) \/ CloseRead(r) \/ Close(r) \/ ReleaseResource(r)
    <3>1. child' = child /\ pc[r] \notin Home /\ \E x : pc' = [pc EXCEPT ![r] = x]
      BY <2>4 DEF Launch, Reserve, Settle, CloseRead, Close, ReleaseResource, CloseAs, Goto, At
    <3> QED
      BY <2>2, <3>1, <1>b
  <2>5. CASE Spawn(r)
    <3>1. pc' = [pc EXCEPT ![r] = "spawned"] /\ child' = [child EXCEPT ![r] = "boot"]
      BY <2>5 DEF Spawn, Goto
    <3> QED
      BY <2>1, <3>1, <1>a
  <2>6. CASE Persist(r) \/ Complete(r)
    BY <2>2, <2>6 DEF Persist, Complete, Goto
  <2>7. CASE LaunchFails(r)
    <3>1. /\ pc' = [pc EXCEPT ![r] = "closing"]
          /\ child' = [child EXCEPT ![r] = IF child[r] \in Alive THEN "gone" ELSE child[r]]
      BY <2>7 DEF LaunchFails, CloseAs, Goto
    <3>2. child'[r] \notin Alive
      BY <3>1, <1>a
    <3> QED
      BY <2>1, <3>1, <3>2, <1>a
  <2>8. CASE Heartbeat(r) \/ WatchTell(r)
    BY <1>1, <2>8 DEF Heartbeat, WatchTell
  <2>9. CASE ChildStart(r)
    <3>1. pc' = pc /\ child[r] = "boot" /\ \E c \in {"gone", "handler"} : child' = [child EXCEPT ![r] = c]
      BY <2>9 DEF ChildStart
    <3> QED
      BY <2>3, <3>1, <1>a
  <2>10. CASE ChildFinish(r) \/ ChildDies(r) \/ WatchKill(r) \/ HostKill(r)
    <3>1. pc' = pc /\ child' = [child EXCEPT ![r] = "gone"]
      BY <2>10 DEF ChildFinish, ChildDies, WatchKill, HostKill, Terminate
    <3> QED
      BY <2>3, <3>1
  <2> QED
    BY <1>3, <2>4, <2>5, <2>6, <2>7, <2>8, <2>9, <2>10 DEF RunNext
<1>4. ASSUME ApiNext \/ ClockNext \/ UNCHANGED vars PROVE child' = child /\ pc' = pc
  BY <1>4 DEF ApiNext, Enqueue, CancelExecution, CancelControl, CancelJob, RetryCheck, RetryControl,
              RetryExec, RetryJob, ClockNext, FlipLease, ExpireJobLease, ExpireResourceLease, vars
<1> QED
  BY <1>1, <1>2, <1>3, <1>4 DEF Next

(* The strengthening of OnlyNewestRunPublishes, with its types.            *)
LEMMA PublishInvariant == Spec => []PublishInv
<1>1. Init => PublishInv
  <2> SUFFICES ASSUME Init PROVE PublishInv
    OBVIOUS
  <2>1. TypeOK /\ child = [r \in Run |-> "none"] /\ Runs = {}
    BY InitType DEF Init, Runs
  <2> QED
    BY <2>1 DEF PublishInv, Fresh, TokensOrdered, OneRunAtATime, TreeOutlivesRun
<1>2. PublishInv /\ [Next]_vars => PublishInv'
  BY TypeStep, TokensStep, OneRunStep, TreeStep DEF PublishInv
<1> QED
  BY <1>1, <1>2, PTL DEF Spec

(* A run that holds the fence and is not over is the newest of its job.    *)
LEMMA FencedRunIsNewest ==
    ASSUME PublishInv, NEW r \in Runs, FenceIsActive(W(r), run[r].token), pc[r] # "done"
    PROVE  NewestRun(r)
<1>1. SUFFICES ASSUME NEW s \in Runs, ~(s <= r) PROVE FALSE
  BY DEF NewestRun
<1>2. TypeOK /\ TokensOrdered /\ OneRunAtATime
  BY DEF PublishInv
<1>3. /\ r \in Int /\ s \in Int /\ run[r].token \in Int /\ run[s].token \in Int
  <2>1. r \in Int /\ s \in Int
    BY DEF Runs
  <2>2. run[r] \in RunRow /\ run[s] \in RunRow
    BY <1>2, RunType
  <2> QED
    BY <2>1, <2>2, MaxTokenAssumption DEF RunRow
<1>4. run[s].token = run[r].token
  BY <1>1, <1>2, <1>3 DEF TokensOrdered, FenceIsActive
<1> QED
  BY <1>1, <1>2, <1>3, <1>4 DEF TokensOrdered, OneRunAtATime

(* p0-recovery, "an expired worker cannot publish a late successful        *)
(* result", for any number of workers, takeovers, runs, cancellations and  *)
(* retries: what finish, dispatch_execution and complete_job_run write     *)
(* comes from the newest run of the job.                                   *)
THEOREM LateResultsRefused == Spec => OnlyNewestRunPublishes
<1> DEFINE Publishes(r) ==
             \/ child[r] = "handler" /\ child'[r] = "gone" /\ exec'[J(r)] # exec[J(r)]
             \/ pc[r] = "returned" /\ pc'[r] = "closing" /\ exec'[J(r)] # exec[J(r)]
             \/ pc[r] = "committing" /\ pc'[r] = "closed" /\ job'[J(r)] # job[J(r)]
<1>1. ASSUME PublishInv, [Next]_vars, NEW r \in Runs, Publishes(r)
      PROVE  FenceIsActive(W(r), run[r].token) /\ pc[r] # "done"
  <2> USE DEF treeVars, runVars, workerVars, apiVars
  <2>a. TypeOK /\ r \in Run
    BY <1>1, RunType DEF PublishInv
  <2>b. pc[r] # "done"
    BY <1>1 DEF PublishInv, TreeOutlivesRun, Alive
  <2>c. pc \in [Run -> Pc] /\ child \in [Run -> {"none", "gone"} \cup Alive] /\ \A s \in Runs : s \in Run
    BY <2>a, RunType DEF TypeOK
  <2>1. ASSUME ApiNext \/ ClockNext \/ UNCHANGED vars PROVE FALSE
    <3>1. child' = child /\ pc' = pc
      BY <2>1 DEF ApiNext, Enqueue, CancelExecution, CancelControl, CancelJob, RetryCheck, RetryControl,
              RetryExec, RetryJob, ClockNext, FlipLease, ExpireJobLease, ExpireResourceLease, vars
    <3> QED
      BY <3>1, <1>1
  <2>2. ASSUME NEW w \in Worker, WorkerNext(w) PROVE FALSE
    <3>1. ASSUME pc' = pc, exec' = exec \/ child' = child PROVE FALSE
      BY <3>1, <1>1
    <3>2. CASE GrantLease(w) \/ Lead(w) \/ RecoverSelect(w) \/ RecoverRead(w) \/ RecoverExec(w)
             \/ RecoverJob(w) \/ RecoverRuns(w) \/ RecoverEnd(w) \/ NoClaim(w) \/ CycleFails(w)
      BY <3>1, <3>2 DEF GrantLease, Lead, RecoverSelect, RecoverRead, RecoverExec, RecoverJob, RecoverRuns,
                      RecoverEnd, NoClaim, CycleFails
    <3>3. CASE \E j \in Job : Park(w, j) \/ Unpark(w, j)
      BY <3>1, <3>3 DEF Park, Unpark
    <3>4. CASE \E s \in Runs : RecoverProcess(w, s)
      BY <3>1, <3>4 DEF RecoverProcess
    <3>5. CASE Crash(w)
      <4>1. child' = child /\ (pc'[r] = pc[r] \/ pc'[r] = "dead")
        BY <3>5, <2>c DEF Crash
      <4> QED
        BY <4>1, <1>1
    <3>6. ASSUME NEW j \in Job, Claim(w, j) PROVE FALSE
      <4>1. child' = child /\ pc'[r] = pc[r]
        BY <3>6, <2>a, <2>c, ClaimEffects DEF Claim
      <4> QED
        BY <4>1, <1>1
    <3> QED
      BY <2>2, <3>2, <3>3, <3>4, <3>5, <3>6 DEF WorkerNext
  <2>3. ASSUME NEW s \in Runs, RunNext(s) PROVE FenceIsActive(W(r), run[r].token)
    <3>1. ASSUME pc' = pc, exec' = exec \/ child' = child PROVE FALSE
      BY <3>1, <1>1
    <3>2. CASE Heartbeat(s) \/ ChildDies(s) \/ WatchKill(s) \/ HostKill(s) \/ WatchTell(s)
      BY <3>1, <3>2 DEF Heartbeat, ChildDies, WatchKill, HostKill, Terminate, WatchTell
    <3>3. CASE ChildStart(s)
      <4>1. pc' = pc /\ child[s] = "boot" /\ \E c : child' = [child EXCEPT ![s] = c]
        BY <3>3 DEF ChildStart
      <4> QED
        BY <4>1, <1>1, <2>a, <2>c
    <3>4. CASE ChildFinish(s)
      <4>1. pc' = pc /\ child' = [child EXCEPT ![s] = "gone"] /\ (exec' = exec \/ RunnerFence(s))
        BY <3>4 DEF ChildFinish
      <4>2. s = r /\ RunnerFence(s)
        BY <4>1, <1>1, <2>a, <2>c
      <4> QED
        BY <4>2 DEF RunnerFence
    <3>5. CASE Launch(s) \/ Reserve(s) \/ Spawn(s) \/ Persist(s) \/ LaunchFails(s) \/ Complete(s)
               \/ CloseRead(s) \/ ReleaseResource(s)
      <4>1. /\ exec' = exec /\ pc[s] \notin {"returned", "committing"}
            /\ \E x : pc' = [pc EXCEPT ![s] = x]
        BY <3>5 DEF Launch, Reserve, Spawn, Persist, LaunchFails, Complete, CloseRead,
                    ReleaseResource, CloseAs, Goto, At
      <4> QED
        BY <4>1, <1>1, <2>a, <2>c
    <3>6. CASE Settle(s)
      <4>1. /\ child' = child /\ pc[s] = "returned" /\ (exec' = exec \/ RunnerFence(s))
            /\ \E x : pc' = [pc EXCEPT ![s] = x]
        BY <3>6 DEF Settle, CloseAs, Goto, At
      <4>2. s = r /\ RunnerFence(s)
        BY <4>1, <1>1, <2>a, <2>c
      <4> QED
        BY <4>2 DEF RunnerFence
    <3>7. CASE Close(s)
      <4>1. /\ child' = child /\ exec' = exec /\ (job' = job \/ CloseFence(s))
            /\ \E x : pc' = [pc EXCEPT ![s] = x]
        BY <3>7 DEF Close, Goto, At
      <4>2. s = r /\ CloseFence(s)
        BY <4>1, <1>1, <2>a, <2>c
      <4> QED
        BY <4>2 DEF CloseFence
    <3> QED
      BY <2>3, <3>2, <3>3, <3>4, <3>5, <3>6, <3>7 DEF RunNext
  <2> QED
    BY <1>1, <2>b, <2>1, <2>2, <2>3 DEF Next
<1>2. PublishInv /\ [Next]_vars => [\A r \in Runs : Publishes(r) => NewestRun(r)]_vars
  BY <1>1, FencedRunIsNewest
<1> QED
  BY <1>2, PublishInvariant, PTL DEF Spec, OnlyNewestRunPublishes
=============================================================================
