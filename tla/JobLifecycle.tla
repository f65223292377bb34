---------------------------- MODULE JobLifecycle ----------------------------
(***************************************************************************)
(* The life of a durable job (kind operation.execute): the rows of jobs,   *)
(* job_runs, operational_executions, process_execution_controls and        *)
(* managed_processes, and everything that writes them concurrently:        *)
(*   - the API process, which enqueues, cancels and retries;               *)
(*   - worker processes, which recover expired work and then run one job   *)
(*     per batch (max_concurrent_jobs = 1), under the leadership lease of  *)
(*     FencedLease;                                                        *)
(*   - the runner child of each run, which executes the handler, and the   *)
(*     watcher thread that terminates it.                                  *)
(*                                                                         *)
(* A step is one transaction, or one statement where the code runs in      *)
(* autocommit (cancel_job, retry_job, requeue_expired_jobs).  The clock is *)
(* not modelled: leases run out at any moment (Flip, ExpireJobLease,       *)
(* ExpireResourceLease), which covers every pause of a process or host.    *)
(* A worker that crashes leaves its child running, as POSIX does.          *)
(***************************************************************************)
EXTENDS FencedLease, Sequences, FiniteSets

CONSTANTS Job,          \* job identifiers; the execution has the same one
          NoJob,        \* no job
          MayCancel,    \* whether the operator cancels jobs
          MayFail,      \* whether cycles are cut short by exceptions
          MaxRuns,      \* bound: claims explored
          MaxRetries    \* bound: operator retries explored per job

ASSUME JobAssumption ==
    /\ NoJob \notin Job
    /\ MayCancel \in BOOLEAN
    /\ MayFail \in BOOLEAN
    /\ MaxRuns \in Nat
    /\ MaxRetries \in Nat

VARIABLES job,      \* jobs: status, lease_owner and lease_expires_at vs. now
          exec,     \* operational_executions.status
          cancel,   \* a process_execution_controls row exists for the job
          res,      \* run that created the job's unexpired resource lease, 0 if none
          api,      \* the API request in progress and its job
          phase,    \* where each worker process is in its cycle
          tok,      \* the fencing token the worker runs its cycle with
          todo,     \* rows the worker's recovery selected and has not visited
          plan,     \* the row being recovered and the execution status read
          run,      \* job_runs, oldest first, each with its resource lease
          pc,       \* the thread executing run_once for the run
          out,      \* the status that thread is about to close the run with
          row,      \* the managed_processes row of the run's child
          child,    \* the runner child itself
          watch,    \* the watcher thread of the child
          started,  \* history: handlers started for the job
          retried   \* history: retries granted to the job

apiVars    == <<cancel, api>>
workerVars == <<phase, tok, todo, plan>>
runVars    == <<run, pc, out>>
treeVars   == <<row, child, watch>>
histVars   == <<started, retried>>
vars       == <<leaseVars, job, exec, res, apiVars, workerVars, runVars,
                treeVars, histVars>>

Run  == 1..MaxRuns
Run0 == 0..MaxRuns

JobStatus  == {"absent", "queued", "resource_wait", "running",
               "completed", "failed", "cancelled"}
ExecStatus == {"queued", "running", "cancel_requested",
               "completed", "failed", "cancelled", "interrupted"}

(* TERMINAL_STATUSES; "blocked" is told apart from "failed" by nothing here. *)
Terminal    == {"completed", "failed", "cancelled", "interrupted"}
Cancellable == {"queued", "resource_wait", "running"}

JobRow == [status : JobStatus, owner : Worker \cup {NoWorker},
           lease : {"none", "live", "expired"}]
RunRow == [job : Job, owner : Worker, token : 0..MaxToken, lease : Run0,
           status : {"running", "completed", "failed", "cancelled"}]
ApiOp  == {"idle", "cancel", "retry_control", "retry_exec", "retry_job"}
Phase  == {"idle", "leading", "recovering", "row_read", "row_marked", "row_written",
           "batch", "busy", "down"}
Pc     == {"none", "claimed", "checked", "reserved", "spawned", "waiting",
           "returned", "closing", "committing", "closed", "done", "dead"}
Active == Pc \ {"none", "done", "dead"}

(* A row with finished_at NULL; root_pid is still 0 while it is "reserved". *)
Unfinished == {"reserved", "open"}
Alive      == {"boot", "handler"}

Idle   == [op |-> "idle", job |-> NoJob]
NoPlan == [job |-> NoJob, seen |-> "queued"]

TypeOK ==
    /\ LeaseTypeOK
    /\ job \in [Job -> JobRow]
    /\ exec \in [Job -> ExecStatus]
    /\ cancel \in [Job -> BOOLEAN]
    /\ res \in [Job -> Run0]
    /\ api \in [op : ApiOp, job : Job \cup {NoJob}]
    /\ phase \in [Worker -> Phase]
    /\ tok \in [Worker -> 0..MaxToken]
    /\ todo \in [Worker -> SUBSET Job]
    /\ plan \in [Worker -> [job : Job \cup {NoJob}, seen : ExecStatus]]
    /\ run \in Seq(RunRow)
    /\ Len(run) <= MaxRuns
    /\ pc \in [Run -> Pc]
    /\ out \in [Run -> {"completed", "failed", "cancelled"}]
    /\ row \in [Run -> {"none", "closed"} \cup Unfinished]
    /\ child \in [Run -> {"none", "gone"} \cup Alive]
    /\ watch \in [Run -> {"off", "on", "killed", "told"}]
    /\ started \in [Job -> Nat]
    /\ retried \in [Job -> 0..MaxRetries]

Init ==
    /\ LeaseInit
    /\ job = [j \in Job |-> [status |-> "absent", owner |-> NoWorker, lease |-> "none"]]
    /\ exec = [j \in Job |-> "queued"]
    /\ cancel = [j \in Job |-> FALSE]
    /\ res = [j \in Job |-> 0]
    /\ api = Idle
    /\ phase = [w \in Worker |-> "idle"]
    /\ tok = [w \in Worker |-> 0]
    /\ todo = [w \in Worker |-> {}]
    /\ plan = [w \in Worker |-> NoPlan]
    /\ run = <<>>
    /\ pc = [r \in Run |-> "none"]
    /\ out = [r \in Run |-> "failed"]
    /\ row = [r \in Run |-> "none"]
    /\ child = [r \in Run |-> "none"]
    /\ watch = [r \in Run |-> "off"]
    /\ started = [j \in Job |-> 0]
    /\ retried = [j \in Job |-> 0]
-----------------------------------------------------------------------------
(* What the code reads.                                                    *)

Runs == 1..Len(run)
J(r) == run[r].job
W(r) == run[r].owner

NoLease(status) == [status |-> status, owner |-> NoWorker, lease |-> "none"]

(* ExecutionRepository.require_fence: leadership, token and job lease.     *)
RunnerFence(r) ==
    /\ FenceIsActive(W(r), run[r].token)
    /\ job[J(r)].owner = W(r)
    /\ job[J(r)].lease = "live"
    /\ job[J(r)].status \in {"running", "cancelled"}

(* The resource lease the run was admitted under is neither released nor expired. *)
Reserved(r) == run[r].lease # 0 /\ res[J(r)] = run[r].lease

(* Another tree is registered, unfinished, under the same resource lease.  *)
SeparateRoot(r) ==
    \E s \in Runs : s # r /\ run[s].lease = run[r].lease /\ row[s] \in Unfinished

(* Rows of managed_processes that keep recovery away from the job.         *)
HeldByTree(j) == \E s \in Runs : J(s) = j /\ row[s] \in Unfinished
-----------------------------------------------------------------------------
(* The API process.  Requests run one at a time on its event loop, but     *)
(* cancel_job and retry_job are sequences of autocommitted statements.     *)

(* ExecutionRepository.enqueue: job and execution in one transaction.      *)
Enqueue(j) ==
    /\ api = Idle
    /\ job[j].status = "absent"
    /\ job' = [job EXCEPT ![j] = NoLease("queued")]
    /\ UNCHANGED <<leaseVars, exec, res, apiVars, workerVars, runVars, treeVars, histVars>>

(* A job that was running keeps its lease: its runner closes under it.     *)
Cancelled(j) ==
    IF job[j].status \notin Cancellable THEN job[j]
    ELSE IF job[j].status = "running" THEN [job[j] EXCEPT !.status = "cancelled"]
    ELSE NoLease("cancelled")

(* ExecutionRepository.request_cancel, cancel_job inside its transaction.  *)
CancelExecution(j) ==
    /\ MayCancel /\ api = Idle
    /\ job[j].status # "absent"
    /\ exec[j] \notin Terminal \cup {"cancel_requested"}
    /\ exec' = [exec EXCEPT ![j] = IF @ = "queued" THEN "cancelled" ELSE "cancel_requested"]
    /\ cancel' = [cancel EXCEPT ![j] = @ \/ job[j].status \in Cancellable]
    /\ job' = [job EXCEPT ![j] = Cancelled(j)]
    /\ UNCHANGED <<leaseVars, res, api, workerVars, runVars, treeVars, histVars>>

(* cancel_job from the jobs API: the durable request first...              *)
CancelControl(j) ==
    /\ MayCancel /\ api = Idle
    /\ job[j].status # "absent"
    /\ cancel' = [cancel EXCEPT ![j] = TRUE]
    /\ api' = [op |-> "cancel", job |-> j]
    /\ UNCHANGED <<leaseVars, job, exec, res, workerVars, runVars, treeVars, histVars>>

(* ...then the conditional UPDATE; a terminal job answers 409.             *)
CancelJob ==
    /\ api.op = "cancel"
    /\ job' = [job EXCEPT ![api.job] = Cancelled(api.job)]
    /\ api' = Idle
    /\ UNCHANGED <<leaseVars, exec, res, cancel, workerVars, runVars, treeVars, histVars>>

(* retry_job: refused while a tree or the job lease is alive, otherwise    *)
(* nothing of what was checked is checked again.                           *)
RetryAllowed(j) ==
    /\ job[j].status # "absent"
    /\ ~HeldByTree(j)
    /\ job[j].lease # "live"

RetryCheck(j) ==
    /\ api = Idle
    /\ RetryAllowed(j)
    /\ retried[j] < MaxRetries
    /\ api' = [op |-> "retry_control", job |-> j]
    /\ retried' = [retried EXCEPT ![j] = @ + 1]
    /\ UNCHANGED <<leaseVars, job, exec, res, cancel, workerVars, runVars, treeVars, started>>

RetryControl ==
    /\ api.op = "retry_control"
    /\ cancel' = [cancel EXCEPT ![api.job] = FALSE]
    /\ api' = [api EXCEPT !.op = "retry_exec"]
    /\ UNCHANGED <<leaseVars, job, exec, res, workerVars, runVars, treeVars, histVars>>

RetryExec ==
    /\ api.op = "retry_exec"
    /\ exec' = [exec EXCEPT ![api.job] = "queued"]
    /\ api' = [api EXCEPT !.op = "retry_job"]
    /\ UNCHANGED <<leaseVars, job, res, cancel, workerVars, runVars, treeVars, histVars>>

RetryJob ==
    /\ api.op = "retry_job"
    /\ job' = [job EXCEPT ![api.job] = NoLease("queued")]
    /\ api' = Idle
    /\ UNCHANGED <<leaseVars, exec, res, cancel, workerVars, runVars, treeVars, histVars>>
-----------------------------------------------------------------------------
(* A worker's cycle: leadership, recovery, one job.                        *)

GrantLease(w) ==
    /\ phase[w] # "down"
    /\ Grant(w)
    /\ UNCHANGED <<job, exec, res, apiVars, workerVars, runVars, treeVars, histVars>>

FlipLease ==
    /\ Flip
    /\ UNCHANGED <<job, exec, res, apiVars, workerVars, runVars, treeVars, histVars>>

(* A cycle that found itself leader keeps its token to the end.            *)
Lead(w) ==
    /\ phase[w] = "idle"
    /\ FenceIsActive(w, token)
    /\ phase' = [phase EXCEPT ![w] = "leading"]
    /\ tok' = [tok EXCEPT ![w] = token]
    /\ UNCHANGED <<leaseVars, job, exec, res, apiVars, todo, plan, runVars, treeVars, histVars>>

(* release: nothing happens while a registered tree holds the lease.       *)
Released(j, l, rows) ==
    IF res[j] = l /\ ~\E s \in Runs : run[s].lease = l /\ rows[s] \in Unfinished
    THEN 0 ELSE res[j]

(* Mutant: the tree is killed but its row is left unfinished.              *)
MutRecoverLeavesRow(w, r) ==
    /\ phase[w] = "leading"
    /\ phase[W(r)] = "down"
    /\ row[r] = "open"
    /\ child' = [child EXCEPT ![r] = "gone"]
    /\ UNCHANGED <<leaseVars, job, exec, res, apiVars, workerVars, runVars, row, watch, histVars>>

(* Mutant: the row is finished although the tree is still there.           *)
MutRecoverLeavesTree(w, r) ==
    /\ phase[w] = "leading"
    /\ phase[W(r)] = "down"
    /\ row[r] = "open"
    /\ row' = [row EXCEPT ![r] = "closed"]
    /\ res' = [res EXCEPT ![J(r)] = Released(J(r), run[r].lease, row')]
    /\ UNCHANGED <<leaseVars, job, exec, apiVars, workerVars, runVars, child, watch, histVars>>

(* recover_managed_processes, one abandoned record: kill the tree, verify, *)
(* finish the row, release its reservation.  A root whose identity was     *)
(* never stored (row "reserved") is skipped.                               *)
RecoverProcess(w, r) ==
    /\ phase[w] = "leading"
    /\ phase[W(r)] = "down"
    /\ row[r] = "open"
    /\ child' = [child EXCEPT ![r] = "gone"]
    /\ row' = [row EXCEPT ![r] = "closed"]
    /\ res' = [res EXCEPT ![J(r)] = Released(J(r), run[r].lease, row')]
    /\ UNCHANGED <<leaseVars, job, exec, apiVars, workerVars, runVars, watch, histVars>>

(* requeue_expired_jobs: the SELECT...                                     *)
Recoverable(j) ==
    /\ job[j].status = "running"
    /\ job[j].lease = "expired"
    /\ ~HeldByTree(j)

RecoverSelect(w) ==
    /\ phase[w] = "leading"
    /\ todo' = [todo EXCEPT ![w] = {j \in Job : Recoverable(j)}]
    /\ phase' = [phase EXCEPT ![w] = "recovering"]
    /\ UNCHANGED <<leaseVars, job, exec, res, apiVars, tok, plan, runVars, treeVars, histVars>>

(* ...then for each row the execution's status is read...                  *)
RecoverRead(w) ==
    /\ phase[w] = "recovering"
    /\ \E j \in todo[w] :
        /\ todo' = [todo EXCEPT ![w] = @ \ {j}]
        /\ plan' = [plan EXCEPT ![w] = [job |-> j, seen |-> exec[j]]]
    /\ phase' = [phase EXCEPT ![w] = "row_read"]
    /\ UNCHANGED <<leaseVars, job, exec, res, apiVars, tok, runVars, treeVars, histVars>>

(* Mutant: the status of the execution is copied as it is.                 *)
MutRecoveredVerbatim(seen) == seen

(* ...and acted upon: an execution that had begun is not replayed.         *)
RecoveredStatus(seen) ==
    CASE seen = "queued" -> "queued"
      [] seen \in {"completed", "cancelled"} -> seen
      [] OTHER -> "failed"

Begun(seen) == seen \notin Terminal \cup {"queued"}

(* Its effects are unknown: "external effects require review before retry". *)
RecoverExec(w) ==
    /\ phase[w] = "row_read"
    /\ Begun(plan[w].seen)
    /\ exec' = [exec EXCEPT ![plan[w].job] = "interrupted"]
    /\ phase' = [phase EXCEPT ![w] = "row_marked"]
    /\ UNCHANGED <<leaseVars, job, res, apiVars, tok, todo, plan, runVars, treeVars, histVars>>

(* Mutant: the job goes back to the queue, and with it the execution.      *)
MutRecoverReplays(w) ==
    LET j == plan[w].job IN
    /\ phase[w] = IF Begun(plan[w].seen) THEN "row_marked" ELSE "row_read"
    /\ exec' = [exec EXCEPT ![j] = IF @ = "interrupted" THEN "queued" ELSE @]
    /\ job' = [job EXCEPT ![j] = NoLease("queued")]
    /\ phase' = [phase EXCEPT ![w] = "row_written"]
    /\ UNCHANGED <<leaseVars, res, apiVars, tok, todo, plan, runVars, treeVars, histVars>>

(* UPDATE jobs ... WHERE id = ?, whatever its status is by now.            *)
RecoverJob(w) ==
    /\ phase[w] = IF Begun(plan[w].seen) THEN "row_marked" ELSE "row_read"
    /\ job' = [job EXCEPT ![plan[w].job] = NoLease(RecoveredStatus(plan[w].seen))]
    /\ phase' = [phase EXCEPT ![w] = "row_written"]
    /\ UNCHANGED <<leaseVars, exec, res, apiVars, tok, todo, plan, runVars, treeVars, histVars>>

(* UPDATE job_runs ... WHERE job_id = ? AND status = 'running'.            *)
RunStatusAfter(seen) ==
    IF RecoveredStatus(seen) = "queued" THEN "failed" ELSE RecoveredStatus(seen)

RecoverRuns(w) ==
    LET j == plan[w].job IN
    /\ phase[w] = "row_written"
    /\ run' = [r \in Runs |->
                 IF J(r) = j /\ run[r].status = "running"
                 THEN [run[r] EXCEPT !.status = RunStatusAfter(plan[w].seen)]
                 ELSE run[r]]
    /\ plan' = [plan EXCEPT ![w] = NoPlan]
    /\ phase' = [phase EXCEPT ![w] = "recovering"]
    /\ UNCHANGED <<leaseVars, job, exec, res, apiVars, tok, todo, pc, out, treeVars, histVars>>

RecoverEnd(w) ==
    /\ phase[w] = "recovering"
    /\ todo[w] = {}
    /\ phase' = [phase EXCEPT ![w] = "batch"]
    /\ UNCHANGED <<leaseVars, job, exec, res, apiVars, tok, todo, plan, runVars, treeVars, histVars>>

(* The cycle is over and its local token with it.                          *)
EndCycle(w) ==
    /\ phase' = [phase EXCEPT ![w] = "idle"]
    /\ tok' = [tok EXCEPT ![w] = 0]
    /\ UNCHANGED <<todo, plan>>

(* HostResourceGovernor.admit refuses: the job waits and the batch ends.   *)
Park(w, j) ==
    /\ phase[w] = "batch"
    /\ job[j].status = "queued"
    /\ res[j] = 0
    /\ job' = [job EXCEPT ![j] = NoLease("resource_wait")]
    /\ EndCycle(w)
    /\ UNCHANGED <<leaseVars, exec, res, apiVars, runVars, treeVars, histVars>>

(* reevaluate_waiting admits it later.                                     *)
Unpark(w, j) ==
    /\ phase[w] = "batch"
    /\ job[j].status = "resource_wait"
    /\ job' = [job EXCEPT ![j] = NoLease("queued")]
    /\ UNCHANGED <<leaseVars, exec, res, apiVars, workerVars, runVars, treeVars, histVars>>

(* claim_next_job, under the lease that admit returned or created.  admit  *)
(* commits before the claim; whatever happens to the lease in between (it  *)
(* runs out, or another worker that lost the claim releases it) is         *)
(* ExpireResourceLease afterwards, as nothing reads it before the launch.  *)
Claim(w, j) ==
    LET r == Len(run) + 1
        l == IF res[j] = 0 THEN r ELSE res[j] IN
    /\ phase[w] = "batch"
    /\ FenceIsActive(w, tok[w])
    /\ job[j].status = "queued"
    /\ r \in Run
    /\ job' = [job EXCEPT ![j] = [status |-> "running", owner |-> w, lease |-> "live"]]
    /\ run' = Append(run, [job |-> j, owner |-> w, token |-> tok[w],
                           lease |-> l, status |-> "running"])
    /\ res' = [res EXCEPT ![j] = l]
    /\ pc' = [pc EXCEPT ![r] = "claimed"]
    /\ phase' = [phase EXCEPT ![w] = "busy"]
    /\ UNCHANGED <<leaseVars, exec, apiVars, tok, todo, plan, out, treeVars, histVars>>

(* Nothing queued, or the fence was lost: the cycle ends without a run.    *)
NoClaim(w) ==
    /\ phase[w] = "batch"
    /\ \/ ~FenceIsActive(w, tok[w])
       \/ \A j \in Job : job[j].status # "queued"
       \/ Len(run) = MaxRuns    \* the bound: a run not explored
    /\ EndCycle(w)
    /\ UNCHANGED <<leaseVars, job, exec, res, apiVars, runVars, treeVars, histVars>>

(* An exception before the claim (a busy database, a tree that recovery    *)
(* could not verify gone): run_forever logs it and polls again.            *)
CycleFails(w) ==
    /\ MayFail
    /\ phase[w] \notin {"idle", "busy", "down"}
    /\ phase' = [phase EXCEPT ![w] = "idle"]
    /\ tok' = [tok EXCEPT ![w] = 0]
    /\ todo' = [todo EXCEPT ![w] = {}]
    /\ plan' = [plan EXCEPT ![w] = NoPlan]
    /\ UNCHANGED <<leaseVars, job, exec, res, apiVars, runVars, treeVars, histVars>>

Crash(w) ==
    /\ phase[w] # "down"
    /\ phase' = [phase EXCEPT ![w] = "down"]
    /\ tok' = [tok EXCEPT ![w] = 0]
    /\ todo' = [todo EXCEPT ![w] = {}]
    /\ plan' = [plan EXCEPT ![w] = NoPlan]
    /\ pc' = [r \in Run |-> IF r \in Runs /\ W(r) = w /\ pc[r] \in Active
                            THEN "dead" ELSE pc[r]]
    /\ watch' = [r \in Run |-> IF r \in Runs /\ W(r) = w THEN "off" ELSE watch[r]]
    /\ UNCHANGED <<leaseVars, job, exec, res, apiVars, run, out, row, child, histVars>>
-----------------------------------------------------------------------------
(* The thread of run_once that executes a claimed run.                     *)

(* Everything else a thread of w can do is a move of its own pc.           *)
At(r, where) == r \in Runs /\ pc[r] = where
Goto(r, where) == pc' = [pc EXCEPT ![r] = where]

(* execute_job raised, or returned: _close_run comes next with this status. *)
CloseAs(r, status) ==
    /\ Goto(r, "closing")
    /\ out' = [out EXCEPT ![r] = status]

(* Mutant: every finished execution counts as completed.                   *)
MutOutcomeAnyTerminal(status) == IF status \in Terminal THEN "completed" ELSE "failed"

Outcome(status) == IF status = "completed" THEN "completed" ELSE "failed"

(* dispatch_execution and the checks of ProcessSupervisorService.start:    *)
(* cancellation, leadership (not the job lease) and the resource lease.    *)
Launch(r) ==
    /\ At(r, "claimed")
    /\ IF exec[J(r)] \in Terminal
       THEN CloseAs(r, Outcome(exec[J(r)]))
       ELSE IF cancel[J(r)] \/ ~FenceIsActive(W(r), run[r].token) \/ ~Reserved(r)
       THEN CloseAs(r, "failed")
       ELSE Goto(r, "checked") /\ UNCHANGED out
    /\ UNCHANGED <<leaseVars, job, exec, res, apiVars, workerVars, run, treeVars, histVars>>

(* _reserve_native_root: registers the tree before it exists, unless       *)
(* another one is unfinished under the same reservation.                   *)
Reserve(r) ==
    /\ At(r, "checked")
    /\ IF SeparateRoot(r)
       THEN CloseAs(r, "failed") /\ UNCHANGED row
       ELSE /\ row' = [row EXCEPT ![r] = "reserved"]
            /\ Goto(r, "reserved")
            /\ UNCHANGED out
    /\ UNCHANGED <<leaseVars, job, exec, res, apiVars, workerVars, run, child, watch, histVars>>

Spawn(r) ==
    /\ At(r, "reserved")
    /\ child' = [child EXCEPT ![r] = "boot"]
    /\ Goto(r, "spawned")
    /\ UNCHANGED <<leaseVars, job, exec, res, apiVars, workerVars, run, out, row, watch, histVars>>

(* The root's pid and creation time are stored and the watcher starts.     *)
Persist(r) ==
    /\ At(r, "spawned")
    /\ row' = [row EXCEPT ![r] = "open"]
    /\ watch' = [watch EXCEPT ![r] = "on"]
    /\ Goto(r, "waiting")
    /\ UNCHANGED <<leaseVars, job, exec, res, apiVars, workerVars, run, out, child, histVars>>

(* The except branch of start: whatever exists of the tree is terminated   *)
(* and its row finished.  Also every refusal before the reservation (a job *)
(* that cannot be classified, limits that do not fit).                     *)
LaunchFails(r) ==
    /\ \E where \in {"claimed", "checked", "reserved", "spawned"} : At(r, where)
    /\ child' = [child EXCEPT ![r] = IF @ \in Alive THEN "gone" ELSE @]
    /\ row' = [row EXCEPT ![r] = IF @ \in Unfinished THEN "closed" ELSE @]
    /\ CloseAs(r, "failed")
    /\ UNCHANGED <<leaseVars, job, exec, res, apiVars, workerVars, run, watch, histVars>>

(* complete: the tree is gone, the row is finished, the watcher told to stop; *)
(* one that already killed the tree may still be about to write.           *)
Complete(r) ==
    /\ At(r, "waiting")
    /\ child[r] \notin Alive
    /\ row' = [row EXCEPT ![r] = "closed"]
    /\ watch' = [watch EXCEPT ![r] = IF @ = "on" THEN "off" ELSE @]
    /\ Goto(r, "returned")
    /\ UNCHANGED <<leaseVars, job, exec, res, apiVars, workerVars, run, out, child, histVars>>

(* dispatch_execution after the child: an execution it left open is        *)
(* finished on its behalf, under the same fence.                           *)
Settle(r) ==
    /\ At(r, "returned")
    /\ \/ /\ exec[J(r)] \in Terminal
          /\ CloseAs(r, Outcome(exec[J(r)]))
          /\ UNCHANGED exec
       \/ /\ exec[J(r)] \notin Terminal
          /\ RunnerFence(r)
          /\ exec' = [exec EXCEPT ![J(r)] =
                        IF cancel[J(r)] \/ watch[r] # "off" THEN "cancelled" ELSE "failed"]
          /\ CloseAs(r, "failed")
       \/ /\ exec[J(r)] \notin Terminal
          /\ ~RunnerFence(r)
          /\ Goto(r, "closed")
          /\ UNCHANGED <<exec, out>>
    /\ UNCHANGED <<leaseVars, job, res, apiVars, workerVars, run, treeVars, histVars>>

(* _close_run reads the cancellation, then complete_job_run commits.       *)
CloseRead(r) ==
    /\ At(r, "closing")
    /\ out' = [out EXCEPT ![r] = IF cancel[J(r)] THEN "cancelled" ELSE @]
    /\ Goto(r, "committing")
    /\ UNCHANGED <<leaseVars, job, exec, res, apiVars, workerVars, run, treeVars, histVars>>

ClosedStatus(r) == IF job[J(r)].status = "cancelled" THEN "cancelled" ELSE out[r]

(* Mutant: the run is closed without its leadership and its job lease.     *)
MutCloseUnfenced(r) == TRUE

CloseFence(r) == FenceIsActive(W(r), run[r].token) /\ job[J(r)].owner = W(r)

Close(r) ==
    /\ At(r, "committing")
    /\ \/ /\ CloseFence(r)
          /\ run' = [run EXCEPT ![r].status = ClosedStatus(r)]
          /\ job' = [job EXCEPT ![J(r)] = NoLease(ClosedStatus(r))]
       \/ /\ ~CloseFence(r)
          /\ UNCHANGED <<run, job>>
    /\ Goto(r, "closed")
    /\ UNCHANGED <<leaseVars, exec, res, apiVars, workerVars, out, treeVars, histVars>>

(* The finally of run_once: the reservation goes, the cycle ends.          *)
ReleaseResource(r) ==
    /\ At(r, "closed")
    /\ res' = [res EXCEPT ![J(r)] = Released(J(r), run[r].lease, row)]
    /\ Goto(r, "done")
    /\ EndCycle(W(r))
    /\ UNCHANGED <<leaseVars, job, exec, apiVars, run, out, treeVars, histVars>>

(* heartbeat_job_lease, from its own thread until the run is closed.       *)
Heartbeat(r) ==
    /\ r \in Runs /\ pc[r] \in Active \ {"closed"}
    /\ FenceIsActive(W(r), run[r].token)
    /\ job[J(r)].status = "running"
    /\ job[J(r)].owner = W(r)
    /\ job' = [job EXCEPT ![J(r)].lease = "live"]
    /\ UNCHANGED <<leaseVars, exec, res, apiVars, workerVars, runVars, treeVars, histVars>>

ExpireJobLease(j) ==
    /\ job[j].lease = "live"
    /\ job' = [job EXCEPT ![j].lease = "expired"]
    /\ UNCHANGED <<leaseVars, exec, res, apiVars, workerVars, runVars, treeVars, histVars>>

(* An expired reservation is not found by admit, launched under, or renewed. *)
ExpireResourceLease(j) ==
    /\ res[j] # 0
    /\ res' = [res EXCEPT ![j] = 0]
    /\ UNCHANGED <<leaseVars, job, exec, apiVars, workerVars, runVars, treeVars, histVars>>
-----------------------------------------------------------------------------
(* The runner child and its watcher.                                       *)

(* Mutant: an execution that is already running starts again.              *)
MutChildStartAgain(r) ==
    /\ r \in Runs /\ child[r] = "boot"
    /\ RunnerFence(r) /\ ~cancel[J(r)] /\ exec[J(r)] \notin Terminal
    /\ exec' = [exec EXCEPT ![J(r)] = "running"]
    /\ child' = [child EXCEPT ![r] = "handler"]
    /\ started' = [started EXCEPT ![J(r)] = @ + 1]
    /\ UNCHANGED <<leaseVars, job, res, apiVars, workerVars, runVars, row, watch, retried>>

(* ExecutionRepository.start, in one transaction; refusals end the child.  *)
ChildStart(r) ==
    /\ r \in Runs /\ child[r] = "boot"
    /\ \/ /\ RunnerFence(r)
          /\ ~cancel[J(r)]
          /\ exec[J(r)] \notin Terminal \cup {"running"}
          /\ exec' = [exec EXCEPT ![J(r)] = "running"]
          /\ child' = [child EXCEPT ![r] = "handler"]
          /\ started' = [started EXCEPT ![J(r)] = @ + 1]
       \/ /\ RunnerFence(r)
          /\ cancel[J(r)]
          /\ exec[J(r)] \notin Terminal
          /\ exec' = [exec EXCEPT ![J(r)] = "cancelled"]
          /\ child' = [child EXCEPT ![r] = "gone"]
          /\ UNCHANGED started
       \/ /\ ~RunnerFence(r) \/ exec[J(r)] \in Terminal \cup {"running"}
          /\ child' = [child EXCEPT ![r] = "gone"]
          /\ UNCHANGED <<exec, started>>
    /\ UNCHANGED <<leaseVars, job, res, apiVars, workerVars, runVars, row, watch, retried>>

(* Mutant: finish does not look at the cancellation.                       *)
MutFinishedIgnoresCancel(r, status) == status

(* ExecutionRepository.finish; a committed cancellation takes precedence.  *)
FinishedStatus(r, status) == IF cancel[J(r)] THEN "cancelled" ELSE status

ChildFinish(r) ==
    /\ r \in Runs /\ child[r] = "handler"
    /\ IF RunnerFence(r) /\ exec[J(r)] \notin Terminal
       THEN \E status \in {"completed", "failed"} :
                exec' = [exec EXCEPT ![J(r)] = FinishedStatus(r, status)]
       ELSE UNCHANGED exec
    /\ child' = [child EXCEPT ![r] = "gone"]
    /\ UNCHANGED <<leaseVars, job, res, apiVars, workerVars, runVars, row, watch, histVars>>

(* It crashes, or its 900 seconds are over and its tree is terminated.     *)
ChildDies(r) ==
    /\ r \in Runs /\ child[r] \in Alive
    /\ child' = [child EXCEPT ![r] = "gone"]
    /\ UNCHANGED <<leaseVars, job, exec, res, apiVars, workerVars, runVars, row, watch, histVars>>

(* Mutant: the watcher looks at its leases only.                           *)
MutStopIgnoresCancel(r) ==
    ~FenceIsActive(W(r), run[r].token) \/ ~Reserved(r)

(* _watch_control_loop: the tree first...                                  *)
MustStop(r) ==
    cancel[J(r)] \/ ~FenceIsActive(W(r), run[r].token) \/ ~Reserved(r)

Terminate(r) ==
    /\ At(r, "waiting")
    /\ watch[r] = "on"
    /\ child' = [child EXCEPT ![r] = "gone"]
    /\ watch' = [watch EXCEPT ![r] = "killed"]
    /\ UNCHANGED <<leaseVars, job, exec, res, apiVars, workerVars, runVars, row, histVars>>

WatchKill(r) == At(r, "waiting") /\ MustStop(r) /\ Terminate(r)

(* It also stops a tree for memory pressure, a full capture, or its own    *)
(* failure to read the database.                                           *)
HostKill(r) == Terminate(r)

(* ...then the durable cancellation, unless the database is busy.          *)
WatchTell(r) ==
    /\ r \in Runs /\ watch[r] = "killed"
    /\ \E written \in BOOLEAN :
          cancel' = [cancel EXCEPT ![J(r)] = @ \/ written]
    /\ watch' = [watch EXCEPT ![r] = "told"]
    /\ UNCHANGED <<leaseVars, job, exec, res, api, workerVars, runVars, row, child, histVars>>
-----------------------------------------------------------------------------
ApiNext ==
    \/ \E j \in Job : \/ Enqueue(j) \/ CancelExecution(j) \/ CancelControl(j) \/ RetryCheck(j)
    \/ CancelJob \/ RetryControl \/ RetryExec \/ RetryJob

WorkerNext(w) ==
    \/ GrantLease(w) \/ Lead(w) \/ RecoverSelect(w) \/ RecoverRead(w) \/ RecoverExec(w) \/ RecoverJob(w)
    \/ RecoverRuns(w) \/ RecoverEnd(w) \/ NoClaim(w) \/ CycleFails(w) \/ Crash(w)
    \/ \E r \in Runs : RecoverProcess(w, r)
    \/ \E j \in Job : Park(w, j) \/ Unpark(w, j) \/ Claim(w, j)

RunNext(r) ==
    \/ Launch(r) \/ Reserve(r) \/ Spawn(r) \/ Persist(r) \/ LaunchFails(r)
    \/ Complete(r) \/ Settle(r) \/ CloseRead(r) \/ Close(r) \/ ReleaseResource(r)
    \/ Heartbeat(r) \/ ChildStart(r) \/ ChildFinish(r) \/ ChildDies(r)
    \/ WatchKill(r) \/ HostKill(r) \/ WatchTell(r)

ClockNext == FlipLease \/ \E j \in Job : ExpireJobLease(j) \/ ExpireResourceLease(j)

Next ==
    \/ ApiNext
    \/ \E w \in Worker : WorkerNext(w)
    \/ \E r \in Runs : RunNext(r)
    \/ ClockNext

Spec == Init /\ [][Next]_vars
-----------------------------------------------------------------------------
(* Safety.                                                                 *)

HandlersOf(j) == {r \in Runs : J(r) = j /\ child[r] = "handler"}

(* p0-architecture: "Expiry is not permission to overlap an old native     *)
(* tree".  No two handlers of a job run at once, whatever was recovered.   *)
NoOverlap == \A j \in Job : Cardinality(HandlersOf(j)) <= 1

(* requeue_expired_jobs, "lease_expired_no_replay", and start, "Marca      *)
(* running una vez": a handler whose effects are unknown is never started  *)
(* again unless an operator retried the job, across crashes, takeovers and *)
(* any number of claims.  (It does not hold with operator cancellations:   *)
(* request_cancel may leave cancel_requested on an execution that already  *)
(* began, and start accepts that status.)                                  *)
NoReplay == \A j \in Job : started[j] <= 1 + retried[j]

(* Two handlers of one job at a time need a retry between them: nothing    *)
(* the workers do on their own leads there.                                *)
OverlapNeedsRetry ==
    \A j \in Job : retried[j] = 0 => \A r, s \in HandlersOf(j) : r = s

(* p0-recovery: "an expired worker cannot publish a late successful        *)
(* result".  Whatever a run writes into its execution or its job, no newer *)
(* run of the job exists.                                                  *)
NewestRun(r) == \A s \in Runs : J(s) = J(r) => s <= r

OnlyNewestRunPublishes ==
    [][\A r \in Runs :
         \/ child[r] = "handler" /\ child'[r] = "gone" /\ exec'[J(r)] # exec[J(r)]
         \/ pc[r] = "returned" /\ pc'[r] = "closing" /\ exec'[J(r)] # exec[J(r)]
         \/ pc[r] = "committing" /\ pc'[r] = "closed" /\ job'[J(r)] # job[J(r)]
         => NewestRun(r)]_vars

(* Without a retry, a job is reported completed only if its handler did    *)
(* complete: never over a failed, cancelled or unfinished execution.  (Only *)
(* a recovery that stalled across a takeover can later mark the finished   *)
(* execution interrupted.)                                                 *)
CompletedIsEarned ==
    \A j \in Job : retried[j] = 0 /\ job[j].status = "completed"
                    => exec[j] \in {"completed", "interrupted"}

(* complete_job_run: "`cancelled` es terminal".  Only a retry takes a job   *)
(* out of it.                                                              *)
CancelledIsTerminal ==
    [][\A j \in Job : job[j].status = "cancelled" /\ job'[j].status # "cancelled"
                       => api.op = "retry_job"]_vars

(* An accepted cancellation wins over the handler: cancel_job makes the    *)
(* request durable before it marks the job, and finish reads the request   *)
(* in its own transaction, so an execution that had not completed when its *)
(* job became cancelled never does.                                        *)
AcceptedCancelWins ==
    [][\A j \in Job : /\ retried[j] = 0
                       /\ job[j].status = "cancelled" /\ exec[j] # "completed"
                       => exec'[j] # "completed"]_vars
-----------------------------------------------------------------------------
(* Liveness.  Threads that are not blocked keep running (the loops of      *)
(* run_forever, run_once and the watcher have no step they may decline),   *)
(* and the leases of a dead process run out.  Nothing is assumed of the    *)
(* handler itself, of the operator, or of the leader's lease staying live; *)
(* a standby that keeps finding the lease free gets it (SF: acquire is     *)
(* retried every poll), and each cycle visits every abandoned record (SF). *)
CycleStep(w) ==
    \/ RecoverSelect(w) \/ RecoverRead(w) \/ RecoverExec(w) \/ RecoverJob(w) \/ RecoverRuns(w)
    \/ RecoverEnd(w) \/ NoClaim(w) \/ \E j \in Job : Claim(w, j)

ThreadStep(r) ==
    \/ Launch(r) \/ Reserve(r) \/ Spawn(r) \/ Persist(r)
    \/ Complete(r) \/ Settle(r) \/ CloseRead(r) \/ Close(r) \/ ReleaseResource(r)

Fairness ==
    /\ \A w \in Worker :
        /\ WF_vars(CycleStep(w))
        /\ SF_vars(Lead(w))
        /\ SF_vars(GrantLease(w))
        /\ \A r \in Run : SF_vars(r \in Runs /\ RecoverProcess(w, r))
    /\ \A r \in Run :
        /\ WF_vars(ThreadStep(r))
        /\ WF_vars(WatchKill(r))
    /\ WF_vars(live /\ phase[holder] = "down" /\ FlipLease)
    /\ \A j \in Job :
        WF_vars(job[j].owner # NoWorker /\ phase[job[j].owner] = "down" /\ ExpireJobLease(j))

FairSpec == Spec /\ Fairness

(* A root that was spawned but whose identity was never stored: recovery   *)
(* leaves it, and the job, to the operator (recovery.identity.unknown).    *)
UnknownRoot(j) ==
    \E r \in Runs : J(r) = j /\ row[r] = "reserved" /\ phase[W(r)] = "down"

(* No worker can lead: all are down, or the last of the tokens that the    *)
(* bound allows has lapsed.                                                *)
NobodyLeads ==
    \/ \A w \in Worker : phase[w] = "down"
    \/ token = MaxToken /\ (~live \/ phase[holder] = "down")

(* The job of a worker that died is taken out of running by a survivor,    *)
(* after its tree was terminated.                                          *)
DeadWorkersJobRecovered ==
    \A j \in Job :
        (job[j].status = "running" /\ phase[job[j].owner] = "down")
            ~> (job[j].status # "running" \/ UnknownRoot(j) \/ NobodyLeads)

(* The tree a dead worker left behind is terminated by a survivor, unless  *)
(* its root was never identified (recover_managed_processes).              *)
OrphanedTreeStops ==
    \A r \in Run :
        (r \in Runs /\ child[r] \in Alive /\ phase[W(r)] = "down")
            ~> (child[r] \notin Alive \/ row[r] = "reserved" \/ NobodyLeads)

(* A cancelled handler is stopped by its watcher, however long the handler *)
(* itself would go on.  (OrphanedTreeStops is about those whose watcher    *)
(* died with its worker.)                                                  *)
CancelledHandlerStops ==
    \A j \in Job :
        (cancel[j] /\ HandlersOf(j) # {})
            ~> (HandlersOf(j) = {} \/ UnknownRoot(j) \/ NobodyLeads)
=============================================================================
