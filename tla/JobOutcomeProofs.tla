-------------------------- MODULE JobOutcomeProofs --------------------------
(***************************************************************************)
(* Proofs about what JobLifecycle reports of a job, for any number of      *)
(* workers, jobs, tokens, runs and retries and with cancellations: a job   *)
(* is completed only if its execution completed, and an execution whose    *)
(* job was cancelled never completes afterwards.                           *)
(*                                                                         *)
(* A status travels: from the execution to the thread that closes the run  *)
(* or to the recovery that read it, and from there, much later, to the     *)
(* job.  The inductive invariant says that what is under way is still true *)
(* when it arrives, which rests on the execution's final statuses and the  *)
(* cancellation request being stable until a retry is granted.             *)
(***************************************************************************)
EXTENDS JobLifecycleProofs

Done == {"completed", "interrupted"}

(* A cancelled job has its durable request, or was over when it was marked. *)
CancelIsDurable ==
    \A j \in Job : retried[j] = 0 /\ job[j].status = "cancelled"
                    => cancel[j] \/ exec[j] \in Terminal

(* cancel_job commits the request before it touches the job.               *)
CancelAnnounced == api.op = "cancel" => cancel[api.job]

(* What a thread is about to close its run with.                           *)
ThreadTruthful ==
    \A r \in Runs :
        /\ pc[r] = "closing" => out[r] # "cancelled"
        /\ retried[J(r)] = 0 /\ pc[r] \in {"closing", "committing"} /\ out[r] = "completed"
            => exec[J(r)] \in Done
        /\ retried[J(r)] = 0 /\ pc[r] = "committing" /\ out[r] = "cancelled"
            => cancel[J(r)]

(* What a recovery read before it writes the job.                          *)
Carrying(w) == phase[w] \in {"row_read", "row_marked"} /\ plan[w].job \in Job

RecoveryTruthful ==
    \A w \in Worker : Carrying(w) /\ retried[plan[w].job] = 0 =>
        /\ plan[w].seen = "completed" => exec[plan[w].job] \in Done
        /\ plan[w].seen = "cancelled" => exec[plan[w].job] \in Terminal

OutcomeInv ==
    /\ TypeOK
    /\ GrantedRetry
    /\ CompletedIsEarned
    /\ CancelIsDurable
    /\ CancelAnnounced
    /\ ThreadTruthful
    /\ RecoveryTruthful
-----------------------------------------------------------------------------
(* What stays true of a job until it is retried, and how an execution      *)
(* completes.                                                              *)
Stable(j) ==
    /\ retried'[j] = 0 =>
        /\ retried[j] = 0
        /\ cancel[j] => cancel'[j]
        /\ exec[j] \in Terminal => exec'[j] \in Terminal
        /\ exec[j] \in Done => exec'[j] \in Done
    /\ exec'[j] = "completed" /\ exec[j] # "completed"
        => exec[j] \notin Terminal /\ ~cancel[j]

(* Every step leaves the jobs stable: only a granted retry takes back a    *)
(* request or a final status, and only finish completes an execution.      *)
LEMMA JobsStable ==
    ASSUME TypeOK, GrantedRetry, [Next]_vars, NEW j \in Job
    PROVE  Stable(j)
<1> USE DEF Stable, histVars, apiVars, workerVars, runVars, treeVars
<1>a. /\ exec \in [Job -> ExecStatus] /\ cancel \in [Job -> BOOLEAN]
      /\ retried \in [Job -> 0..MaxRetries] /\ api \in [op : ApiOp, job : Job \cup {NoJob}]
  BY DEF TypeOK
<1>b. ASSUME UNCHANGED <<exec, cancel, retried>> PROVE Stable(j)
  BY <1>b
<1>1. CASE ApiNext
  <2>1. ASSUME NEW i \in Job, CancelExecution(i) PROVE Stable(j)
    <3>1. exec[i] \notin Terminal /\ exec'[i] \in {"cancelled", "cancel_requested"}
      BY <2>1, <1>a DEF CancelExecution
    <3>2. \A k \in Job : (k # i => exec'[k] = exec[k]) /\ (cancel[k] => cancel'[k])
      BY <2>1, <1>a DEF CancelExecution
    <3>3. retried' = retried
      BY <2>1 DEF CancelExecution
    <3> QED
      BY <3>1, <3>2, <3>3 DEF Terminal, Done
  <2>2. ASSUME NEW i \in Job, CancelControl(i) PROVE Stable(j)
    BY <2>2, <1>a DEF CancelControl
  <2>3. ASSUME NEW i \in Job, RetryCheck(i) PROVE Stable(j)
    <3>1. UNCHANGED <<exec, cancel>> /\ retried' = [retried EXCEPT ![i] = @ + 1]
      BY <2>3 DEF RetryCheck
    <3>2. retried[i] + 1 # 0
      BY <1>a, JobAssumption
    <3> QED
      BY <3>1, <3>2, <1>a
  <2>4. CASE RetryControl
    <3>1. cancel' = [cancel EXCEPT ![api.job] = FALSE] /\ UNCHANGED <<exec, retried>>
      BY <2>4 DEF RetryControl
    <3>2. retried[api.job] # 0
      BY <2>4 DEF RetryControl, GrantedRetry
    <3> QED
      BY <3>1, <3>2, <1>a
  <2>5. CASE RetryExec
    <3>1. exec' = [exec EXCEPT ![api.job] = "queued"] /\ UNCHANGED <<cancel, retried>>
      BY <2>5 DEF RetryExec
    <3>2. retried[api.job] # 0
      BY <2>5 DEF RetryExec, GrantedRetry
    <3> QED
      BY <3>1, <3>2, <1>a
  <2>6. CASE CancelJob \/ RetryJob \/ \E i \in Job : Enqueue(i)
    BY <2>6, <1>b DEF CancelJob, RetryJob, Enqueue
  <2> QED
    BY <1>1, <2>1, <2>2, <2>3, <2>4, <2>5, <2>6 DEF ApiNext
<1>2. ASSUME NEW w \in Worker, WorkerNext(w) PROVE Stable(j)
  <2>1. CASE RecoverExec(w)
    <3>1. exec'[j] = exec[j] \/ exec'[j] = "interrupted"
      BY <2>1, <1>a DEF RecoverExec
    <3>2. UNCHANGED <<cancel, retried>>
      BY <2>1 DEF RecoverExec
    <3> QED
      BY <3>1, <3>2 DEF Terminal, Done
  <2> QED
    BY <1>2, <1>b, <2>1 DEF WorkerNext, GrantLease, Lead, RecoverSelect, RecoverRead, RecoverJob,
       RecoverRuns, RecoverEnd, NoClaim, CycleFails, Crash, RecoverProcess, Park, Unpark, Claim
<1>3. ASSUME NEW r \in Runs, RunNext(r) PROVE Stable(j)
  <2>a. J(r) \in Job
    BY RunType
  <2>b. ASSUME NEW t \in ExecStatus, exec[J(r)] \notin Terminal, exec' = [exec EXCEPT ![J(r)] = t],
               t = "completed" => ~cancel[J(r)], UNCHANGED <<cancel, retried>>
        PROVE  Stable(j)
    BY <2>a, <2>b, <1>a DEF Terminal, Done
  <2>1. CASE Settle(r)
    <3>1. \/ UNCHANGED exec
          \/ /\ exec[J(r)] \notin Terminal
             /\ \E t \in {"cancelled", "failed"} : exec' = [exec EXCEPT ![J(r)] = t]
      BY <2>1 DEF Settle
    <3> QED
      BY <2>1, <3>1, <2>b, <1>b DEF Settle, ExecStatus
  <2>2. CASE ChildStart(r)
    <3>1. \/ UNCHANGED exec
          \/ /\ exec[J(r)] \notin Terminal
             /\ \E t \in {"running", "cancelled"} : exec' = [exec EXCEPT ![J(r)] = t]
      BY <2>2 DEF ChildStart
    <3> QED
      BY <2>2, <3>1, <2>b, <1>b DEF ChildStart, ExecStatus
  <2>3. CASE ChildFinish(r)
    <3>1. \/ UNCHANGED exec
          \/ /\ exec[J(r)] \notin Terminal
             /\ \E t \in {"completed", "failed", "cancelled"} :
                   exec' = [exec EXCEPT ![J(r)] = t] /\ (t = "completed" => ~cancel[J(r)])
      BY <2>3 DEF ChildFinish, FinishedStatus
    <3> QED
      BY <2>3, <3>1, <2>b, <1>b DEF ChildFinish, ExecStatus
  <2>4. CASE WatchTell(r)
    BY <2>4, <1>a DEF WatchTell
  <2> QED
    BY <1>3, <1>b, <2>1, <2>2, <2>3, <2>4 DEF RunNext, Launch, Reserve, Spawn, Persist, LaunchFails,
       Complete, CloseRead, Close, ReleaseResource, Heartbeat, ChildDies, WatchKill, HostKill, Terminate
<1>4. CASE ClockNext
  BY <1>4, <1>b DEF ClockNext, FlipLease, ExpireJobLease, ExpireResourceLease
<1>5. CASE UNCHANGED vars
  BY <1>5, <1>b DEF vars
<1> QED
  BY <1>1, <1>2, <1>3, <1>4, <1>5 DEF Next

(* A retry that is in progress was granted.                                *)
LEMMA GrantedStep ==
    ASSUME TypeOK, GrantedRetry, [Next]_vars
    PROVE  GrantedRetry'
<1> USE DEF GrantedRetry, histVars, apiVars, workerVars, runVars, treeVars
<1>a. retried \in [Job -> 0..MaxRetries] /\ api \in [op : ApiOp, job : Job \cup {NoJob}]
  BY DEF TypeOK
<1>1. CASE ApiNext
  <2>1. ASSUME NEW i \in Job, RetryCheck(i) PROVE GrantedRetry'
    <3>1. api' = [op |-> "retry_control", job |-> i] /\ retried' = [retried EXCEPT ![i] = @ + 1]
      BY <2>1 DEF RetryCheck
    <3>2. retried[i] + 1 # 0
      BY <1>a, JobAssumption
    <3> QED
      BY <3>1, <3>2, <1>a
  <2>2. CASE RetryControl \/ RetryExec
    <3>1. api.op \in {"retry_control", "retry_exec"} /\ api'.job = api.job /\ retried' = retried
      BY <2>2, <1>a DEF RetryControl, RetryExec
    <3> QED
      BY <3>1
  <2>3. ASSUME NEW i \in Job, Enqueue(i) \/ CancelExecution(i) PROVE GrantedRetry'
    BY <2>3 DEF Enqueue, CancelExecution
  <2>4. ASSUME NEW i \in Job, CancelControl(i) PROVE GrantedRetry'
    BY <2>4 DEF CancelControl
  <2>5. CASE CancelJob \/ RetryJob
    BY <2>5 DEF CancelJob, RetryJob, Idle
  <2> QED
    BY <1>1, <2>1, <2>2, <2>3, <2>4, <2>5 DEF ApiNext
<1>2. ASSUME ~ApiNext PROVE UNCHANGED <<api, retried>>
  BY <1>2 DEF Next, vars, ClockNext, FlipLease, ExpireJobLease, ExpireResourceLease,
     WorkerNext, GrantLease, Lead, RecoverSelect, RecoverRead, RecoverExec, RecoverJob, RecoverRuns,
     RecoverEnd, NoClaim, CycleFails, Crash, RecoverProcess, Park, Unpark, Claim,
     RunNext, Launch, Reserve, Spawn, Persist, LaunchFails, Complete, Settle, CloseRead, Close,
     ReleaseResource, Heartbeat, ChildStart, ChildFinish, ChildDies, WatchKill, HostKill, Terminate, WatchTell
<1> QED
  BY <1>1, <1>2

(* cancel_job's second statement finds the request its first one made.     *)
LEMMA AnnouncedStep ==
    ASSUME TypeOK, GrantedRetry, CancelAnnounced, [Next]_vars
    PROVE  CancelAnnounced'
<1> USE DEF CancelAnnounced, histVars, apiVars, workerVars, runVars, treeVars
<1>a. cancel \in [Job -> BOOLEAN] /\ api \in [op : ApiOp, job : Job \cup {NoJob}]
  BY DEF TypeOK
<1>1. CASE ApiNext
  <2>1. ASSUME NEW i \in Job, CancelControl(i) PROVE CancelAnnounced'
    BY <2>1, <1>a DEF CancelControl
  <2>2. ASSUME NEW i \in Job, Enqueue(i) \/ CancelExecution(i) \/ RetryCheck(i) PROVE api'.op # "cancel"
    BY <2>2 DEF Enqueue, CancelExecution, RetryCheck, Idle
  <2>3. CASE CancelJob \/ RetryControl \/ RetryExec \/ RetryJob
    BY <2>3, <1>a DEF CancelJob, RetryControl, RetryExec, RetryJob, Idle
  <2> QED
    BY <1>1, <2>1, <2>2, <2>3 DEF ApiNext
<1>2. ASSUME NEW r \in Runs, WatchTell(r) PROVE CancelAnnounced'
  BY <1>2, <1>a, RunType DEF WatchTell
<1>3. ASSUME ~ApiNext, ~\E r \in Runs : WatchTell(r) PROVE UNCHANGED <<api, cancel>>
  BY <1>3 DEF Next, vars, ClockNext, FlipLease, ExpireJobLease, ExpireResourceLease,
     WorkerNext, GrantLease, Lead, RecoverSelect, RecoverRead, RecoverExec, RecoverJob, RecoverRuns,
     RecoverEnd, NoClaim, CycleFails, Crash, RecoverProcess, Park, Unpark, Claim,
     RunNext, Launch, Reserve, Spawn, Persist, LaunchFails, Complete, Settle, CloseRead, Close,
     ReleaseResource, Heartbeat, ChildStart, ChildFinish, ChildDies, WatchKill, HostKill, Terminate
<1> QED
  BY <1>1, <1>2, <1>3
-----------------------------------------------------------------------------
(* Where a final status of a job can come from.                            *)
Arrives(j, status) ==
    \/ job[j].status = status
    \/ status = "cancelled" /\ cancel'[j]
    \/ \E w \in Worker : Carrying(w) /\ plan[w].job = j /\ plan[w].seen = status
    \/ \E r \in Runs : pc[r] = "committing" /\ J(r) = j /\ out[r] = status

(* A job becomes completed or cancelled by a cancellation, by a recovery   *)
(* that read this status, or by a thread that closes its run with it.      *)
LEMMA StatusArrives ==
    ASSUME TypeOK, CancelAnnounced, [Next]_vars, NEW j \in Job,
           job'[j].status \in {"completed", "cancelled"}
    PROVE  Arrives(j, job'[j].status)
<1> USE DEF histVars, apiVars, workerVars, runVars, treeVars
<1>a. /\ job \in [Job -> JobRow] /\ cancel \in [Job -> BOOLEAN]
      /\ api \in [op : ApiOp, job : Job \cup {NoJob}]
  BY DEF TypeOK
<1>b. ASSUME job'[j].status = job[j].status PROVE Arrives(j, job'[j].status)
  BY <1>b DEF Arrives
<1>c. ASSUME NEW i, NEW t, job' = [job EXCEPT ![i] = NoLease(t)], t \notin {"completed", "cancelled"}
      PROVE  Arrives(j, job'[j].status)
  BY <1>a, <1>b, <1>c DEF NoLease
<1>d. job[j] \in JobRow
  BY <1>a
<1>1. CASE ApiNext
  <2>1. ASSUME NEW i \in Job, CancelExecution(i) PROVE Arrives(j, job'[j].status)
    <3>1. CASE i = j /\ job[j].status \in Cancellable
      <4>1. cancel'[j] /\ job'[j] = Cancelled(j)
        BY <2>1, <3>1, <1>a DEF CancelExecution
      <4>2. Cancelled(j).status = "cancelled"
        BY <3>1, <1>d DEF Cancelled, NoLease, JobRow
      <4> QED
        BY <4>1, <4>2 DEF Arrives
    <3>2. CASE i # j \/ job[j].status \notin Cancellable
      <4>1. job'[j] = job[j]
        BY <2>1, <3>2, <1>a DEF CancelExecution, Cancelled
      <4> QED
        BY <4>1, <1>b
    <3> QED
      BY <3>1, <3>2
  <2>2. CASE CancelJob
    <3>1. CASE api.job = j /\ job[j].status \in Cancellable
      <4>1. cancel'[j] /\ job'[j] = Cancelled(j)
        BY <2>2, <3>1, <1>a DEF CancelJob, CancelAnnounced
      <4>2. Cancelled(j).status = "cancelled"
        BY <3>1, <1>d DEF Cancelled, NoLease, JobRow
      <4> QED
        BY <4>1, <4>2 DEF Arrives
    <3>2. CASE api.job # j \/ job[j].status \notin Cancellable
      <4>1. job'[j] = job[j]
        BY <2>2, <3>2, <1>a DEF CancelJob, Cancelled
      <4> QED
        BY <4>1, <1>b
    <3> QED
      BY <3>1, <3>2
  <2>3. CASE RetryJob \/ \E i \in Job : Enqueue(i)
    BY <2>3, <1>c DEF RetryJob, Enqueue
  <2>4. CASE RetryControl \/ RetryExec \/ \E i \in Job : CancelControl(i) \/ RetryCheck(i)
    BY <2>4, <1>b DEF RetryControl, RetryExec, CancelControl, RetryCheck
  <2> QED
    BY <1>1, <2>1, <2>2, <2>3, <2>4 DEF ApiNext
<1>2. ASSUME NEW w \in Worker, WorkerNext(w) PROVE Arrives(j, job'[j].status)
  <2>1. CASE RecoverJob(w)
    <3>1. CASE plan[w].job = j
      <4>1. job'[j].status = RecoveredStatus(plan[w].seen)
        BY <2>1, <3>1, <1>a DEF RecoverJob, NoLease
      <4>2. plan[w].seen = job'[j].status
        BY <4>1 DEF RecoveredStatus
      <4>3. Carrying(w)
        BY <2>1, <3>1 DEF RecoverJob, Carrying
      <4> QED
        BY <3>1, <4>2, <4>3 DEF Arrives
    <3>2. CASE plan[w].job # j
      <4>1. job'[j] = job[j]
        BY <2>1, <3>2, <1>a DEF RecoverJob
      <4> QED
        BY <4>1, <1>b
    <3> QED
      BY <3>1, <3>2
  <2>2. ASSUME NEW i \in Job, Park(w, i) \/ Unpark(w, i) PROVE Arrives(j, job'[j].status)
    BY <2>2, <1>c DEF Park, Unpark
  <2>3. ASSUME NEW i \in Job, Claim(w, i) PROVE Arrives(j, job'[j].status)
    <3>1. job' = [job EXCEPT ![i] = [status |-> "running", owner |-> w, lease |-> "live"]]
      BY <2>3 DEF Claim
    <3> QED
      BY <3>1, <1>a, <1>b
  <2>4. ASSUME NEW r \in Runs, RecoverProcess(w, r) PROVE job' = job
    BY <2>4 DEF RecoverProcess
  <2>5. CASE GrantLease(w) \/ Lead(w) \/ RecoverSelect(w) \/ RecoverRead(w) \/ RecoverExec(w)
             \/ RecoverRuns(w) \/ RecoverEnd(w) \/ NoClaim(w) \/ CycleFails(w) \/ Crash(w)
    BY <2>5, <1>b DEF GrantLease, Lead, RecoverSelect, RecoverRead, RecoverExec, RecoverRuns,
       RecoverEnd, NoClaim, CycleFails, Crash
  <2> QED
    BY <1>2, <1>b, <2>1, <2>2, <2>3, <2>4, <2>5 DEF WorkerNext
<1>3. ASSUME NEW r \in Runs, RunNext(r) PROVE Arrives(j, job'[j].status)
  <2>a. J(r) \in Job
    BY RunType
  <2>1. CASE Close(r)
    <3>1. CASE J(r) = j /\ job' # job /\ job[j].status # "cancelled"
      <4>1. job'[j] = NoLease(out[r]) /\ pc[r] = "committing"
        BY <2>1, <3>1, <1>a DEF Close, ClosedStatus, At
      <4> QED
        BY <3>1, <4>1 DEF NoLease, Arrives
    <3>2. CASE J(r) # j \/ job' = job
      <4>1. job'[j] = job[j]
        BY <2>1, <3>2, <1>a DEF Close
      <4> QED
        BY <4>1, <1>b
    <3>3. CASE J(r) = j /\ job' # job /\ job[j].status = "cancelled"
      <4>1. job'[j] = NoLease("cancelled")
        BY <2>1, <3>3, <1>a DEF Close, ClosedStatus
      <4> QED
        BY <3>3, <4>1, <1>b DEF NoLease
    <3> QED
      BY <3>1, <3>2, <3>3
  <2>2. CASE Heartbeat(r)
    <3>1. [job[J(r)] EXCEPT !.lease = "live"].status = job[J(r)].status
      BY <2>a, <1>a DEF JobRow
    <3>2. job'[j] = job[j] \/ (job'[j] = [job[J(r)] EXCEPT !.lease = "live"] /\ j = J(r))
      BY <2>2, <2>a, <1>a DEF Heartbeat
    <3> QED
      BY <3>1, <3>2, <1>b
  <2>3. CASE Launch(r) \/ Reserve(r) \/ Spawn(r) \/ Persist(r) \/ LaunchFails(r) \/ Complete(r)
             \/ Settle(r) \/ CloseRead(r) \/ ReleaseResource(r) \/ ChildStart(r) \/ ChildFinish(r)
             \/ ChildDies(r) \/ WatchKill(r) \/ HostKill(r) \/ WatchTell(r)
    BY <2>3, <1>b DEF Launch, Reserve, Spawn, Persist, LaunchFails, Complete, Settle, CloseRead,
       ReleaseResource, ChildStart, ChildFinish, ChildDies, WatchKill, HostKill, Terminate, WatchTell
  <2> QED
    BY <1>3, <2>1, <2>2, <2>3 DEF RunNext
<1>4. CASE ClockNext
  <2>1. ASSUME NEW i \in Job, ExpireJobLease(i) PROVE Arrives(j, job'[j].status)
    <3>1. [job[i] EXCEPT !.lease = "expired"].status = job[i].status
      BY <1>a DEF JobRow
    <3>2. job'[j] = job[j] \/ (job'[j] = [job[i] EXCEPT !.lease = "expired"] /\ j = i)
      BY <2>1, <1>a DEF ExpireJobLease
    <3> QED
      BY <3>1, <3>2, <1>b
  <2> QED
    BY <1>4, <1>b, <2>1 DEF ClockNext, FlipLease, ExpireResourceLease
<1>5. CASE UNCHANGED vars
  BY <1>5, <1>b DEF vars
<1> QED
  BY <1>1, <1>2, <1>3, <1>4, <1>5 DEF Next

(* What a thread carries comes from its execution, as it was at a step of  *)
(* its own, and turns into a cancellation only by the durable request.     *)
Closes(r) ==
    /\ r \in Runs
    /\ \/ pc[r] \in {"closing", "committing"} /\ pc'[r] = pc[r] /\ out'[r] = out[r]
       \/ pc'[r] = "closing" /\ out'[r] = "failed"
       \/ pc'[r] = "closing" /\ out'[r] = "completed" /\ exec[J(r)] = "completed"
       \/ pc[r] = "closing" /\ out'[r] = out[r] /\ ~cancel[J(r)]
       \/ pc[r] = "closing" /\ pc'[r] = "committing" /\ out'[r] = "cancelled" /\ cancel[J(r)]

(* A thread about to close its run got its outcome in one of these ways.   *)
LEMMA ThreadCloses ==
    ASSUME TypeOK, [Next]_vars, NEW r \in Runs', pc'[r] \in {"closing", "committing"}
    PROVE  Closes(r)
<1> USE DEF histVars, apiVars, workerVars, runVars, treeVars
<1>a. pc \in [Run -> Pc] /\ out \in [Run -> {"completed", "failed", "cancelled"}]
  BY DEF TypeOK
<1>b. r \in Run
  BY TypeStep, JobAssumption DEF TypeOK, Runs, Run
<1>c. r \in Runs
  <2>1. ASSUME NEW w \in Worker, NEW j \in Job, Claim(w, j) PROVE r \in Runs
    BY <2>1, ClaimEffects, <1>a
  <2> QED
    BY <2>1, RunsKept
<1>d. ASSUME pc'[r] = pc[r], out'[r] = out[r] PROVE Closes(r)
  BY <1>c, <1>d DEF Closes
<1>1. CASE ApiNext \/ ClockNext \/ UNCHANGED vars
  BY <1>1, <1>d DEF vars, ApiNext, Enqueue, CancelExecution, CancelControl, CancelJob, RetryCheck,
     RetryControl, RetryExec, RetryJob, ClockNext, FlipLease, ExpireJobLease, ExpireResourceLease
<1>2. ASSUME NEW w \in Worker, WorkerNext(w) PROVE Closes(r)
  <2>1. CASE Crash(w)
    <3>1. pc'[r] = pc[r] /\ out' = out
      BY <2>1, <1>b DEF Crash
    <3> QED
      BY <3>1, <1>d
  <2>2. ASSUME NEW j \in Job, Claim(w, j) PROVE Closes(r)
    <3>1. pc'[r] = pc[r] /\ out' = out
      BY <2>2, <1>a, <1>b, ClaimEffects DEF Claim
    <3> QED
      BY <3>1, <1>d
  <2>3. ASSUME NEW j \in Job, Park(w, j) \/ Unpark(w, j) PROVE Closes(r)
    BY <2>3, <1>d DEF Park, Unpark
  <2>4. ASSUME NEW s \in Runs, RecoverProcess(w, s) PROVE Closes(r)
    BY <2>4, <1>d DEF RecoverProcess
  <2>5. CASE GrantLease(w) \/ Lead(w) \/ RecoverSelect(w) \/ RecoverRead(w) \/ RecoverExec(w)
             \/ RecoverJob(w) \/ RecoverRuns(w) \/ RecoverEnd(w) \/ NoClaim(w) \/ CycleFails(w)
    BY <2>5, <1>d DEF GrantLease, Lead, RecoverSelect, RecoverRead, RecoverExec, RecoverJob, RecoverRuns,
       RecoverEnd, NoClaim, CycleFails
  <2> QED
    BY <1>2, <2>1, <2>2, <2>3, <2>4, <2>5 DEF WorkerNext
<1>3. ASSUME NEW s \in Runs, RunNext(s) PROVE Closes(r)
  <2>a. s \in Run
    BY RunType
  <2>1. ASSUME NEW x, pc' = [pc EXCEPT ![s] = x], x \notin {"closing", "committing"}, out' = out
        PROVE  Closes(r)
    BY <2>1, <2>a, <1>a, <1>d
  <2>2. ASSUME NEW t, pc' = [pc EXCEPT ![s] = "closing"], out' = [out EXCEPT ![s] = t],
               t = "failed" \/ (t = "completed" /\ exec[J(s)] = "completed")
        PROVE  Closes(r)
    <3>1. CASE s = r
      BY <2>2, <3>1, <1>a, <1>b, <1>c DEF Closes
    <3>2. CASE s # r
      BY <2>2, <3>2, <1>a, <1>d
    <3> QED
      BY <3>1, <3>2
  <2>3. Outcome(exec[J(s)]) = "failed" \/ (Outcome(exec[J(s)]) = "completed" /\ exec[J(s)] = "completed")
    BY DEF Outcome
  <2>4. CASE CloseRead(s)
    <3>1. CASE s = r
      BY <2>4, <3>1, <1>a, <1>b, <1>c DEF CloseRead, Goto, At, Closes
    <3>2. CASE s # r
      BY <2>4, <3>2, <1>a, <1>d DEF CloseRead, Goto
    <3> QED
      BY <3>1, <3>2
  <2>5. CASE Launch(s)
    BY <2>5, <2>1, <2>2, <2>3 DEF Launch, CloseAs, Goto
  <2>6. CASE Reserve(s) \/ LaunchFails(s)
    BY <2>6, <2>1, <2>2 DEF Reserve, LaunchFails, CloseAs, Goto
  <2>7. CASE Settle(s)
    BY <2>7, <2>1, <2>2, <2>3 DEF Settle, CloseAs, Goto
  <2>8. CASE Spawn(s) \/ Persist(s) \/ Complete(s) \/ Close(s) \/ ReleaseResource(s)
    BY <2>8, <2>1 DEF Spawn, Persist, Complete, Close, ReleaseResource, Goto
  <2>9. CASE Heartbeat(s) \/ ChildStart(s) \/ ChildFinish(s) \/ ChildDies(s)
             \/ WatchKill(s) \/ HostKill(s) \/ WatchTell(s)
    BY <2>9, <1>d DEF Heartbeat, ChildStart, ChildFinish, ChildDies, WatchKill, HostKill, Terminate, WatchTell
  <2> QED
    BY <1>3, <2>4, <2>5, <2>6, <2>7, <2>8, <2>9 DEF RunNext
<1> QED
  BY <1>1, <1>2, <1>3 DEF Next

(* What a recovery carries is what it read from the execution.             *)
Carries(w) ==
    \/ Carrying(w) /\ plan'[w] = plan[w]
    \/ plan'[w].seen = exec[plan'[w].job]

(* Every recovery that carries a status read it from the execution or had  *)
(* it already.                                                             *)
LEMMA RecoveryCarries ==
    ASSUME TypeOK, [Next]_vars, NEW w \in Worker, Carrying(w)'
    PROVE  Carries(w)
<1> USE DEF histVars, apiVars, workerVars, runVars, treeVars
<1>a. /\ phase \in [Worker -> Phase]
      /\ plan \in [Worker -> [job : Job \cup {NoJob}, seen : ExecStatus]]
  BY DEF TypeOK
<1>b. ASSUME phase'[w] = phase[w], plan'[w] = plan[w] PROVE Carries(w)
  BY <1>b DEF Carries, Carrying
<1>1. CASE ApiNext \/ ClockNext \/ UNCHANGED vars
  BY <1>1, <1>b DEF vars, ApiNext, Enqueue, CancelExecution, CancelControl, CancelJob, RetryCheck,
     RetryControl, RetryExec, RetryJob, ClockNext, FlipLease, ExpireJobLease, ExpireResourceLease
<1>2. ASSUME NEW v \in Worker, WorkerNext(v) PROVE Carries(w)
  <2>1. ASSUME NEW x, phase' = [phase EXCEPT ![v] = x], x \notin {"row_read", "row_marked"},
               plan' = plan \/ plan' = [plan EXCEPT ![v] = NoPlan]
        PROVE  Carries(w)
    <3>1. v # w
      BY <2>1, <1>a DEF Carrying
    <3> QED
      BY <2>1, <3>1, <1>a, <1>b
  <2>2. CASE RecoverRead(v)
    <3>1. CASE v = w
      BY <2>2, <3>1, <1>a DEF RecoverRead, Carries
    <3>2. CASE v # w
      BY <2>2, <3>2, <1>a, <1>b DEF RecoverRead
    <3> QED
      BY <3>1, <3>2
  <2>3. CASE RecoverExec(v)
    <3>1. CASE v = w
      <4>1. phase[w] = "row_read" /\ plan' = plan
        BY <2>3, <3>1 DEF RecoverExec
      <4> QED
        BY <4>1 DEF Carries, Carrying
    <3>2. CASE v # w
      BY <2>3, <3>2, <1>a, <1>b DEF RecoverExec
    <3> QED
      BY <3>1, <3>2
  <2>4. CASE Lead(v) \/ RecoverSelect(v) \/ RecoverJob(v) \/ RecoverEnd(v) \/ NoClaim(v)
    <3>1. \E x \in {"leading", "recovering", "row_written", "batch", "idle"} :
             phase' = [phase EXCEPT ![v] = x]
      BY <2>4 DEF Lead, RecoverSelect, RecoverJob, RecoverEnd, NoClaim, EndCycle
    <3>2. plan' = plan
      BY <2>4 DEF Lead, RecoverSelect, RecoverJob, RecoverEnd, NoClaim, EndCycle
    <3> QED
      BY <2>1, <3>1, <3>2
  <2>7. CASE RecoverRuns(v) \/ CycleFails(v) \/ Crash(v)
    <3>1. \E x \in {"recovering", "idle", "down"} : phase' = [phase EXCEPT ![v] = x]
      BY <2>7 DEF RecoverRuns, CycleFails, Crash
    <3>2. plan' = [plan EXCEPT ![v] = NoPlan]
      BY <2>7 DEF RecoverRuns, CycleFails, Crash
    <3> QED
      BY <2>1, <3>1, <3>2
  <2>5. ASSUME NEW j \in Job, Park(v, j) \/ Claim(v, j) PROVE Carries(w)
    BY <2>5, <2>1 DEF Park, Claim, EndCycle
  <2>6. CASE GrantLease(v) \/ (\E j \in Job : Unpark(v, j)) \/ \E r \in Runs : RecoverProcess(v, r)
    BY <2>6, <1>b DEF GrantLease, Unpark, RecoverProcess
  <2> QED
    BY <1>2, <2>2, <2>3, <2>4, <2>5, <2>6, <2>7 DEF WorkerNext
<1>3. ASSUME NEW s \in Runs, RunNext(s) PROVE Carries(w)
  <2>1. CASE ReleaseResource(s)
    <3>1. phase' = [phase EXCEPT ![W(s)] = "idle"] /\ plan' = plan
      BY <2>1 DEF ReleaseResource, EndCycle
    <3>2. W(s) # w
      BY <3>1, <1>a DEF Carrying
    <3> QED
      BY <3>1, <3>2, <1>a, <1>b
  <2>2. CASE Launch(s) \/ Reserve(s) \/ Spawn(s) \/ Persist(s) \/ LaunchFails(s) \/ Complete(s)
             \/ Settle(s) \/ CloseRead(s) \/ Close(s) \/ Heartbeat(s) \/ ChildStart(s) \/ ChildFinish(s)
             \/ ChildDies(s) \/ WatchKill(s) \/ HostKill(s) \/ WatchTell(s)
    BY <2>2, <1>b DEF Launch, Reserve, Spawn, Persist, LaunchFails, Complete, Settle,
       CloseRead, Close, Heartbeat, ChildStart, ChildFinish, ChildDies, WatchKill, HostKill, Terminate, WatchTell
  <2> QED
    BY <1>3, <2>1, <2>2 DEF RunNext
<1> QED
  BY <1>1, <1>2, <1>3 DEF Next
-----------------------------------------------------------------------------
(* The strengthening is kept by every step.                                *)
LEMMA OutcomeStep == OutcomeInv /\ [Next]_vars => OutcomeInv'
<1> SUFFICES ASSUME OutcomeInv, [Next]_vars PROVE OutcomeInv'
  OBVIOUS
<1>a. TypeOK /\ TypeOK' /\ GrantedRetry /\ CancelAnnounced
  BY TypeStep DEF OutcomeInv
<1>b. \A j \in Job : Stable(j)
  BY <1>a, JobsStable
<1>c. "completed" \in Done /\ Done \subseteq Terminal /\ "cancelled" \in Terminal
  BY DEF Done, Terminal
<1>1. GrantedRetry' /\ CancelAnnounced'
  BY <1>a, GrantedStep, AnnouncedStep
<1>2. CompletedIsEarned'
  <2> SUFFICES ASSUME NEW j \in Job, retried'[j] = 0, job'[j].status = "completed"
               PROVE  exec'[j] \in Done
    BY DEF CompletedIsEarned, Done
  <2>1. Arrives(j, "completed") /\ retried[j] = 0
    BY <1>a, <1>b, StatusArrives DEF Stable
  <2>2. exec[j] \in Done
    BY <2>1 DEF Arrives, OutcomeInv, CompletedIsEarned, RecoveryTruthful, ThreadTruthful, Done
  <2> QED
    BY <2>2, <1>b DEF Stable
<1>3. CancelIsDurable'
  <2> SUFFICES ASSUME NEW j \in Job, retried'[j] = 0, job'[j].status = "cancelled"
               PROVE  cancel'[j] \/ exec'[j] \in Terminal
    BY DEF CancelIsDurable
  <2>1. Arrives(j, "cancelled") /\ retried[j] = 0
    BY <1>a, <1>b, StatusArrives DEF Stable
  <2>2. cancel'[j] \/ cancel[j] \/ exec[j] \in Terminal
    BY <2>1 DEF Arrives, OutcomeInv, CancelIsDurable, RecoveryTruthful, ThreadTruthful
  <2> QED
    BY <2>2, <1>b DEF Stable
<1>4. ThreadTruthful'
  <2> SUFFICES ASSUME NEW r \in Runs', pc'[r] \in {"closing", "committing"}
               PROVE  /\ pc'[r] = "closing" => out'[r] # "cancelled"
                      /\ retried'[J(r)'] = 0 /\ out'[r] = "completed" => exec'[J(r)'] \in Done
                      /\ retried'[J(r)'] = 0 /\ pc'[r] = "committing" /\ out'[r] = "cancelled"
                          => cancel'[J(r)']
    BY DEF ThreadTruthful
  <2>1. Closes(r)
    BY <1>a, ThreadCloses
  <2>2. r \in Runs /\ J(r)' = J(r) /\ J(r) \in Job
    BY <2>1, <1>a, RunsKept, RunType DEF Closes, SameRun, J
  <2>3. Stable(J(r))
    BY <2>2, <1>b
  <2>4. pc'[r] = "closing" => out'[r] # "cancelled"
    BY <2>1, <2>2 DEF Closes, OutcomeInv, ThreadTruthful
  <2>5. ASSUME retried'[J(r)] = 0, out'[r] = "completed" PROVE exec[J(r)] \in Done
    BY <2>1, <2>2, <2>3, <2>5, <1>c DEF Closes, OutcomeInv, ThreadTruthful, Stable
  <2>6. ASSUME retried'[J(r)] = 0, pc'[r] = "committing", out'[r] = "cancelled" PROVE cancel[J(r)]
    BY <2>1, <2>2, <2>3, <2>6 DEF Closes, OutcomeInv, ThreadTruthful, Stable
  <2> QED
    BY <2>2, <2>3, <2>4, <2>5, <2>6 DEF Stable
<1>5. RecoveryTruthful'
  <2> SUFFICES ASSUME NEW w \in Worker, Carrying(w)', retried'[plan'[w].job] = 0
               PROVE  /\ plan'[w].seen = "completed" => exec'[plan'[w].job] \in Done
                      /\ plan'[w].seen = "cancelled" => exec'[plan'[w].job] \in Terminal
    BY DEF RecoveryTruthful
  <2>1. Carries(w) /\ plan'[w].job \in Job
    BY <1>a, RecoveryCarries DEF Carrying
  <2>2. Stable(plan'[w].job)
    BY <2>1, <1>b
  <2>3. /\ plan'[w].seen = "completed" => exec[plan'[w].job] \in Done
        /\ plan'[w].seen = "cancelled" => exec[plan'[w].job] \in Terminal
    BY <2>1, <2>2, <1>c DEF Carries, OutcomeInv, RecoveryTruthful, Stable
  <2> QED
    BY <2>2, <2>3 DEF Stable
<1> QED
  BY <1>a, <1>1, <1>2, <1>3, <1>4, <1>5 DEF OutcomeInv

(* What was granted, earned, cancelled, announced and carried always is    *)
(* true.                                                                   *)
LEMMA OutcomeInvariant == Spec => []OutcomeInv
<1>1. Init => OutcomeInv
  <2> SUFFICES ASSUME Init PROVE OutcomeInv
    OBVIOUS
  <2>1. /\ TypeOK /\ api.op = "idle" /\ Runs = {}
        /\ \A j \in Job : job[j].status = "absent"
        /\ \A w \in Worker : phase[w] = "idle"
    BY InitType DEF Init, Idle, Runs
  <2> QED
    BY <2>1 DEF OutcomeInv, GrantedRetry, CompletedIsEarned, CancelIsDurable, CancelAnnounced,
                ThreadTruthful, RecoveryTruthful, Carrying
<1> QED
  BY <1>1, OutcomeStep, PTL DEF Spec

(* complete_job_run and requeue_expired_jobs: without a retry, a job is    *)
(* reported completed only over an execution that completed, whatever      *)
(* crashes, takeovers, recoveries and cancellations came between.          *)
THEOREM CompletionsEarned == Spec => []CompletedIsEarned
<1>1. OutcomeInv => CompletedIsEarned
  BY DEF OutcomeInv
<1> QED
  BY <1>1, OutcomeInvariant, PTL

(* cancel_job and ExecutionRepository.finish: once a job that was not      *)
(* retried is cancelled, its execution never completes afterwards.         *)
THEOREM CancellationWins == Spec => AcceptedCancelWins
<1>1. ASSUME OutcomeInv, [Next]_vars, NEW j \in Job, retried[j] = 0,
             job[j].status = "cancelled", exec[j] # "completed"
      PROVE  exec'[j] # "completed"
  <2>1. cancel[j] \/ exec[j] \in Terminal
    BY <1>1 DEF OutcomeInv, CancelIsDurable
  <2>2. exec'[j] = "completed" => exec[j] \notin Terminal /\ ~cancel[j]
    BY <1>1, JobsStable DEF OutcomeInv, Stable
  <2> QED
    BY <2>1, <2>2
<1>2. OutcomeInv /\ [Next]_vars =>
        (\A j \in Job : /\ retried[j] = 0
                         /\ job[j].status = "cancelled" /\ exec[j] # "completed"
                         => exec'[j] # "completed")
  BY <1>1
<1>3. OutcomeInv /\ [Next]_vars =>
        [\A j \in Job : /\ retried[j] = 0
                         /\ job[j].status = "cancelled" /\ exec[j] # "completed"
                         => exec'[j] # "completed"]_vars
  BY <1>2
<1> QED
  BY <1>3, OutcomeInvariant, PTL DEF Spec, AcceptedCancelWins
=============================================================================
