---------------------------- MODULE ProductLoop ----------------------------
(***************************************************************************)
(* One project thread and the product loops its messages start: the rows   *)
(* of project_threads, jobs (thread.product_loop.run and                   *)
(* product_loop.land_delivery), product_loops, action_requests and         *)
(* remediation_actions, written concurrently by                            *)
(*   - the worker, one job at a time (JobLifecycle is about that), running *)
(*     the pipeline of run_user_message or a delivery landing;             *)
(*   - the operator, through the threads, product loop, jobs and           *)
(*     remediations APIs.                                                  *)
(* Job l starts loop l.  A step is one transaction or one autocommit       *)
(* statement; the pipeline keeps a copy of its loop between steps (snap)   *)
(* and writes durableRun from that copy, as _durable_run_patch does.       *)
(* Thread runs start their loop without a governance policy, so the        *)
(* governance checkpoint and maxReworkRounds never fire and are left out.  *)
(***************************************************************************)
EXTENDS LoopFsm, Integers

CONSTANTS MaxRuns,      \* bound: thread jobs, hence loops
          NStories,     \* user stories of the backlog
          AutoRework,   \* DEFAULT_AUTO_REWORK_ROUNDS
          MaxOps,       \* bound: operator decisions and crashes
          Ops,          \* which of them the run explores
          ManualTo      \* states the transition endpoint is asked for

ASSUME ProductLoopAssumption ==
    /\ MaxRuns \in Nat
    /\ MaxOps \in Nat
    /\ AutoRework \in Nat
    /\ NStories \in Nat
    /\ ManualTo \subseteq PRODUCT_LOOP_STATES

VARIABLES thread,    \* project_threads.status
          posts,     \* post_message calls past their busy check
          job,       \* thread jobs: status, origin and the loops they follow
          loop,      \* product_loops.state
          dur,       \* product_loops.context.durableRun
          run,       \* the pipeline the worker executes
          action,    \* action_requests.status of the delivery approval
          land,      \* status of the product_loop.land_delivery job
          merged,    \* loops whose branch git has merged into the base
          rem,       \* remediation_actions.status of the retry_loop action
          ops,       \* history: operator decisions and crashes taken
          passed,    \* history: stories that passed QA, here or in the source
          secure,    \* history: loops whose security scan passed
          manual,    \* history: loops moved through the transition endpoint
          paused     \* history: loops the operator paused

rowVars  == <<thread, posts, job, action, land, merged, rem>>
histVars == <<ops, passed, secure, manual, paused>>
vars     == <<rowVars, loop, dur, run, histVars>>

Id    == 1..MaxRuns
Story == 1..NStories

ThreadStatus == {"open", "queued", "running", "waiting_decision", "blocked",
                 "awaiting_approval", "resolved"}
JobStatus    == {"none", "queued", "resource_wait", "running", "cancelled",
                 "failed", "completed"}
JobRow       == [status : JobStatus,
                 kind : {"none", "message", "retry", "continue"},
                 retry : 0..MaxRuns,    \* retryOfLoopId
                 cont : 0..MaxRuns]     \* continueOfLoopId
DurableRun   == [active : BOOLEAN,
                 ws : BOOLEAN,
                 approval : {"none", "available", "approved", "denied"},
                 landing : {"none", "queued", "landing_failed", "landed",
                            "pending_manual_pr"},
                 done : SUBSET Story]

(* Where the pipeline is.  A stage named after a state, or mapped to one   *)
(* here, is about to enter that state through _transition_run_state.       *)
Enters ==
    [p \in {"workspace_check", "git_check", "runtime_check", "discovery",
            "awaiting_user", "brief_ready", "planning", "architecture_review",
            "backlog_ready", "branch_ready", "executing", "qa_running",
            "noop_qa", "skip_qa", "reworking", "auto_rework", "next_story",
            "security_running", "quality_review", "review_ready",
            "awaiting_approval"} |->
        CASE p \in {"noop_qa", "skip_qa"}          -> "qa_running"
          [] p \in {"auto_rework", "next_story"}   -> "executing"
          [] OTHER                                 -> p]

Stage == DOMAIN Enters

(* Points at which a check of a phase can fail and block the loop          *)
(* (_block_run); the check belongs to the state being left.                *)
IntakeChecks      == {"functionality"}
EnvironmentChecks == {"git_check", "runtime_check"}
ResourceChecks    == {"discovery"}
DiscoveryChecks   == {"route"}
TeamChecks        == {"planning"}
ExecutionChecks   == {"branch_ready"}
CoverageChecks    == {"stories"}
DeveloperChecks   == {"develop"}
QaChecks          == {"verdict", "exhausted"}
ReviewChecks      == {"security_running"}
SecurityChecks    == {"scan"}
ApprovalChecks    == {"approval"}

Blockable ==
    UNION {IntakeChecks, EnvironmentChecks, ResourceChecks, DiscoveryChecks, TeamChecks,
           ExecutionChecks, CoverageChecks, DeveloperChecks, QaChecks, ReviewChecks,
           SecurityChecks, ApprovalChecks}

(* _run_plan_phase and _run_analysis_phase swallow a refused transition.   *)
BestEffort == {"architecture_review", "quality_review"}

Work   == Stage \cup Blockable \cup {"plan", "mark_done"}
Ending == {"remediate", "close", "finish", "settle", "closing"}
Pc     == {"idle", "start", "mark", "supersede", "begin"} \cup Work \cup Ending

Result == {"none", "blocked", "cancelled", "awaiting_user", "brief_ready",
           "plan_ready", "awaiting_approval", "failed"}

(* A landing job in progress: before git runs, then by its outcome.        *)
Landing   == {"running", "landed", "pending_manual_pr", "landing_failed"}

NoJob     == [status |-> "none", kind |-> "none", retry |-> 0, cont |-> 0]
NoDurable == [active |-> FALSE, ws |-> FALSE, approval |-> "none", landing |-> "none", done |-> {}]
Started   == [NoDurable EXCEPT !.active = TRUE]
NoRun     == [id |-> 0, pc |-> "idle", go |-> FALSE, snap |-> NoDurable,
              story |-> 0, round |-> 0, fast |-> FALSE, result |-> "none",
              late |-> 0]

TypeOK ==
    /\ thread \in ThreadStatus
    /\ posts \in 0..MaxRuns
    /\ job \in [Id -> JobRow]
    /\ loop \in [Id -> PRODUCT_LOOP_STATES \cup {"none"}]
    /\ dur \in [Id -> DurableRun]
    /\ run \in [id : 0..MaxRuns, pc : Pc, go : BOOLEAN, snap : DurableRun,
                story : Story \cup {0}, round : 0..AutoRework,
                fast : BOOLEAN, result : Result, late : Nat]
    /\ action \in [Id -> {"none", "pending", "approved", "denied"}]
    /\ land \in [Id -> {"none", "queued", "completed", "failed"} \cup Landing]
    /\ merged \subseteq Id
    /\ rem \in [Id -> {"none", "pending", "resolved", "dismissed"}]
    /\ ops \in 0..MaxOps
    /\ passed \in [Id -> SUBSET Story]
    /\ secure \subseteq Id
    /\ manual \subseteq Id
    /\ paused \subseteq Id

Init ==
    /\ thread = "open"
    /\ posts = 0
    /\ job = [j \in Id |-> NoJob]
    /\ loop = [l \in Id |-> "none"]
    /\ dur = [l \in Id |-> NoDurable]
    /\ run = NoRun
    /\ action = [l \in Id |-> "none"]
    /\ land = [l \in Id |-> "none"]
    /\ merged = {}
    /\ rem = [l \in Id |-> "none"]
    /\ ops = 0
    /\ passed = [l \in Id |-> {}]
    /\ secure = {}
    /\ manual = {}
    /\ paused = {}
-----------------------------------------------------------------------------
(* What the code reads.                                                    *)

Busy         == thread \in {"queued", "running"}
Allowed(l, s) == loop[l] # "none" /\ s \in ALLOWED_TRANSITIONS[loop[l]]

(* _thread_job_was_cancelled, read fresh on every call. *)
WasCancelled == job[run.id].status = "cancelled"

(* The next job row a create_job call takes. *)
Free(j) == /\ job[j].status = "none"
           /\ \A i \in Id : i < j => job[i].status # "none"

(* transition_in_transaction: a loop that reaches a terminal state has its *)
(* pending remediations resolved.                                          *)
RemAfter(l, s) ==
    IF s \in TERMINAL_STATES /\ rem[l] = "pending"
    THEN [rem EXCEPT ![l] = "resolved"] ELSE rem

(* Mutant: the routing passes an unknown result through.                   *)
MutRoutedVerbatim(result) ==
    CASE result \in {"blocked", "failed"} -> "blocked"
      [] result = "awaiting_user"         -> "waiting_decision"
      [] result = "cancelled"             -> "open"
      [] OTHER                            -> result

(* PRODUCT_LOOP_RESULT_ROUTING: the thread status each result leads to.    *)
RoutedTo(result) ==
    CASE result \in {"blocked", "failed"}                       -> "blocked"
      [] result \in {"brief_ready", "cancelled", "plan_ready"}  -> "open"
      [] result = "awaiting_user"                               -> "waiting_decision"
      [] result = "awaiting_approval"                           -> "awaiting_approval"

(* create_job for a thread.product_loop.run, with the thread set queued.   *)
(* A retry or continuation inherits the request metadata of its source.    *)
Queue(kind, retry, cont) ==
    /\ \E j \in Id :
         /\ Free(j)
         /\ job' = [job EXCEPT ![j] = [status |-> "queued", kind |-> kind,
                                      retry |-> retry, cont |-> cont]]
    /\ thread' = "queued"
-----------------------------------------------------------------------------
(* Threads: messages and the cancel button.                                *)

(* post_message reads the thread outside the transaction that queues.      *)
PostChecks ==
    /\ ~Busy
    /\ \E j \in Id : Free(j) /\ posts + j <= MaxRuns
    /\ posts' = posts + 1
    /\ UNCHANGED <<thread, job, action, land, merged, rem, loop, dur, run, histVars>>

PostQueues ==
    /\ posts > 0
    /\ posts' = posts - 1
    /\ \/ Queue("message", 0, 0)
       \/ \* the message asks for a decision (similarity, plan mode)
          thread' = "waiting_decision" /\ UNCHANGED job
    /\ UNCHANGED <<action, land, merged, rem, loop, dur, run, histVars>>

(* What disrupts a run or a decision is bounded; the decisions the flow    *)
(* asks for (accept, request_changes, continue, retry_loop) are not.       *)
Disrupt(op) ==
    /\ op \in Ops
    /\ ops < MaxOps
    /\ ops' = ops + 1

(* _CANCELLABLE_JOB_STATUSES: queued, running (and approval_required).     *)
CancellableJobs == {j \in Id : job[j].status \in {"queued", "running"}}

CancelExecution ==
    /\ Disrupt("cancel_execution")
    /\ UNCHANGED <<posts, merged, run, passed, secure>>
    /\ CancellableJobs # {} \/ Busy
    /\ job' = [j \in Id |-> IF j \in CancellableJobs
                            THEN [job[j] EXCEPT !.status = "cancelled"] ELSE job[j]]
    /\ thread' = "open"
    /\ UNCHANGED <<action, land, rem, loop, dur, manual, paused>>
-----------------------------------------------------------------------------
(* Feedback on a loop: apply_feedback, one transaction per action.  Its    *)
(* transitions go through _apply_transition, which resolves nothing.       *)

(* resolve_delivery_approval_action and record_delivery_approval_decision: *)
(* nothing without a durable reference to the approval.                    *)
Decision(l, verdict) ==
    CASE dur[l].approval = "none" -> "none"
      [] action[l] = "pending"    -> verdict
      [] OTHER                    -> action[l]

Decide(l, verdict) ==
    action' = IF dur[l].approval = "none" THEN action
              ELSE [action EXCEPT ![l] = Decision(l, verdict)]

(* The landing is queued only for a loop that has a workspace.             *)
Accept(l) ==
    /\ UNCHANGED <<ops, posts, merged, run, passed, secure>>
    /\ Allowed(l, "delivered")
    /\ loop' = [loop EXCEPT ![l] = "delivered"]
    /\ Decide(l, "approved")
    /\ dur' = [dur EXCEPT ![l].approval = Decision(l, "approved"),
                          ![l].landing = IF dur[l].ws THEN "queued" ELSE @]
    /\ land' = [land EXCEPT ![l] = IF dur[l].ws THEN "queued" ELSE @]
    /\ thread' = "resolved"
    /\ UNCHANGED <<job, rem, manual, paused>>

(* request_changes on the loop; deny_action of the jobs API does the same. *)
RequestChanges(l) ==
    /\ UNCHANGED <<ops, posts, merged, run, passed, secure>>
    /\ Allowed(l, "awaiting_feedback")
    /\ loop' = [loop EXCEPT ![l] = "awaiting_feedback"]
    /\ Decide(l, "denied")
    /\ dur' = [dur EXCEPT ![l].approval = Decision(l, "denied")]
    /\ thread' = "open"
    /\ UNCHANGED <<job, land, rem, manual, paused>>

(* request_changes on one task of the loop. *)
RequestTaskChanges(l) ==
    /\ Disrupt("request_task_changes")
    /\ UNCHANGED <<posts, merged, run, passed, secure>>
    /\ Allowed(l, "reworking")
    /\ loop' = [loop EXCEPT ![l] = "reworking"]
    /\ Decide(l, "denied")
    /\ dur' = [dur EXCEPT ![l].approval = Decision(l, "denied")]
    /\ thread' = "open"
    /\ UNCHANGED <<job, land, rem, manual, paused>>

Continue(l) ==
    /\ UNCHANGED <<ops, posts, merged, run, passed, secure>>
    /\ loop[l] = "awaiting_feedback"
    /\ ~Busy
    /\ loop' = [loop EXCEPT ![l] = "reworking"]
    /\ Queue("continue", job[l].retry, l)
    /\ UNCHANGED <<action, land, rem, dur, manual, paused>>

PauseLoop(l) ==
    /\ Disrupt("pause_loop")
    /\ UNCHANGED <<posts, merged, run, passed, secure>>
    /\ Allowed(l, "blocked")
    /\ loop' = [loop EXCEPT ![l] = "blocked"]
    /\ paused' = paused \cup {l}
    /\ UNCHANGED <<thread, job, action, land, rem, dur, manual>>

CancelLoop(l) ==
    /\ Disrupt("cancel_loop")
    /\ UNCHANGED <<posts, merged, run, passed, secure>>
    /\ Allowed(l, "cancelled")
    /\ loop' = [loop EXCEPT ![l] = "cancelled"]
    /\ UNCHANGED <<thread, job, action, land, rem, dur, manual, paused>>

(* POST .../transition: any edge of the table, with no other effect than   *)
(* the cleanup of a terminal state.                                        *)
TransitionApi(l) ==
    /\ Disrupt("transition")
    /\ UNCHANGED <<posts, merged, run, passed, secure>>
    /\ \E s \in ManualTo :
         /\ Allowed(l, s)
         /\ loop' = [loop EXCEPT ![l] = s]
         /\ rem' = RemAfter(l, s)
    /\ manual' = manual \cup {l}
    /\ UNCHANGED <<thread, job, action, land, dur, paused>>
-----------------------------------------------------------------------------
(* Remediations.                                                           *)

RetryLoop(l) ==
    /\ UNCHANGED <<ops, posts, merged, run, passed, secure>>
    /\ rem[l] = "pending"
    /\ loop[l] = "blocked"
    /\ thread \in {"open", "blocked"}
    /\ Queue("retry", l, job[l].cont)
    /\ loop' = [loop EXCEPT ![l] = "cancelled"]
    /\ rem' = RemAfter(l, "cancelled")
    /\ UNCHANGED <<action, land, dur, manual, paused>>

(* list_for_thread: rows of terminal loops are resolved, rows of blocked   *)
(* loops older than the thread's latest one dismissed.                     *)
ListRemediations ==
    LET started == {l \in Id : loop[l] # "none"}
        stale(l) == loop[l] = "blocked" /\ \E n \in started : n > l
    IN  /\ rem' = [l \in Id |->
                     IF rem[l] # "pending" THEN rem[l]
                     ELSE CASE loop[l] \in TERMINAL_STATES -> "resolved"
                            [] stale(l)                    -> "dismissed"
                            [] OTHER                       -> "pending"]
        /\ rem' # rem
        /\ UNCHANGED <<thread, posts, job, action, land, merged, loop, dur, run, histVars>>
-----------------------------------------------------------------------------
(* The worker around the pipeline: _execute_thread_product_loop_job.       *)

Idle == run.pc = "idle" /\ \A l \in Id : land[l] \notin Landing

(* Admission without capacity parks the job; with capacity it is claimed.  *)
WaitForCapacity(j) ==
    /\ Idle
    /\ job[j].status = "queued"
    /\ job' = [job EXCEPT ![j].status = "resource_wait"]
    /\ UNCHANGED <<thread, posts, action, land, merged, rem, loop, dur, run, histVars>>

Claim(j) ==
    /\ Idle
    /\ job[j].status \in {"queued", "resource_wait"}
    /\ job' = [job EXCEPT ![j].status = "running"]
    /\ run' = [NoRun EXCEPT !.id = j, !.pc = "start"]
    /\ UNCHANGED <<thread, posts, action, land, merged, rem, loop, dur, histVars>>

Goto(p) == run' = [run EXCEPT !.pc = p, !.go = FALSE]
Finish(result, p) == run' = [run EXCEPT !.pc = p, !.go = FALSE, !.result = result]

CheckBeforeStart ==
    /\ run.pc = "start"
    /\ IF WasCancelled THEN Goto("closing") ELSE Goto("mark")
    /\ UNCHANGED <<rowVars, loop, dur, histVars>>

MarkRunning ==
    /\ run.pc = "mark"
    /\ thread' = "running"
    /\ Goto("supersede")
    /\ UNCHANGED <<posts, job, action, land, merged, rem, loop, dur, histVars>>

(* _finish_thread_after_product_loop: the check and the write are two      *)
(* statements.                                                             *)
CheckBeforeFinish ==
    /\ run.pc = "finish"
    /\ IF WasCancelled THEN Goto("closing") ELSE Goto("settle")
    /\ UNCHANGED <<rowVars, loop, dur, histVars>>

SettleThread ==
    /\ run.pc = "settle"
    /\ thread' = RoutedTo(run.result)
    /\ Goto("closing")
    /\ UNCHANGED <<posts, job, action, land, merged, rem, loop, dur, histVars>>

(* _close_run: a cancelled job stays cancelled. *)
CloseRun ==
    /\ run.pc = "closing"
    /\ job' = [job EXCEPT ![run.id].status =
                  IF @ = "cancelled" THEN @
                  ELSE IF run.result = "failed" THEN "failed" ELSE "completed"]
    /\ run' = NoRun
    /\ UNCHANGED <<thread, posts, action, land, merged, rem, loop, dur, histVars>>

(* The worker process dies.  Recovery ends a started job without replay;   *)
(* one whose execution was still queued goes back to the queue.            *)
Crash ==
    /\ run.pc # "idle"
    /\ Disrupt("crash")
    /\ job' = [job EXCEPT ![run.id].status =
                  IF @ = "cancelled" THEN @
                  ELSE IF run.pc = "start" THEN "queued" ELSE "failed"]
    /\ run' = NoRun
    /\ UNCHANGED <<thread, posts, action, land, merged, rem, loop, dur,
                   passed, secure, manual, paused>>
-----------------------------------------------------------------------------
(* Intake: ensure_thread_and_similarity.                                   *)

(* _supersede_interrupted_loops: loops a dead run left mid-execution.      *)
Interrupted(l) ==
    /\ loop[l] \notin TERMINAL_STATES \cup OPERATOR_WAIT_STATES \cup {"none"}
    /\ dur[l].active

(* _supersede_continued_loop: the loop this continuation replaces.         *)
Continued(l) ==
    /\ job[run.id].cont = l
    /\ loop[l] = "reworking"
    /\ ~dur[l].active

(* Mutant: a cancelled job's loop is taken to have been closed already.    *)
MutSupersedeTrustsCancel ==
    /\ run.pc = "supersede"
    /\ LET gone == {l \in Id : Continued(l) \/ (Interrupted(l) /\ job[l].status # "cancelled")}
       IN  /\ loop' = [l \in Id |-> IF l \in gone THEN "cancelled" ELSE loop[l]]
           /\ rem' = [l \in Id |-> IF l \in gone /\ rem[l] = "pending"
                                   THEN "resolved" ELSE rem[l]]
    /\ Goto("begin")
    /\ UNCHANGED <<thread, posts, job, action, land, merged, dur, histVars>>

Supersede ==
    /\ run.pc = "supersede"
    /\ LET gone == {l \in Id : Interrupted(l) \/ Continued(l)}
       IN  /\ loop' = [l \in Id |-> IF l \in gone THEN "cancelled" ELSE loop[l]]
           /\ rem' = [l \in Id |-> IF l \in gone /\ rem[l] = "pending"
                                   THEN "resolved" ELSE rem[l]]
    /\ Goto("begin")
    /\ UNCHANGED <<thread, posts, job, action, land, merged, dur, histVars>>

Begin ==
    /\ run.pc = "begin"
    /\ loop' = [loop EXCEPT ![run.id] = "goal_received"]
    /\ dur' = [dur EXCEPT ![run.id] = Started]
    /\ run' = [run EXCEPT !.pc = "workspace_check", !.snap = Started]
    /\ UNCHANGED <<rowVars, histVars>>
-----------------------------------------------------------------------------
(* A stage boundary: _transition_run_state polls for a cancel, then runs   *)
(* the transition in its own transaction.                                  *)

(* _cancel_run, from a fresh read; a loop that is already terminal makes   *)
(* the transition raise.                                                   *)
CancelRun ==
    IF Allowed(run.id, "cancelled")
    THEN /\ loop' = [loop EXCEPT ![run.id] = "cancelled"]
         /\ rem' = RemAfter(run.id, "cancelled")
         /\ run' = [run EXCEPT !.pc = "close", !.result = "cancelled",
                               !.snap = dur[run.id]]
    ELSE Finish("failed", "finish") /\ UNCHANGED <<loop, rem>>

(* Mutant: the stage boundary no longer polls for a cancel.                *)
MutPollSkipped ==
    /\ run.pc \in Stage
    /\ ~run.go
    /\ run' = [run EXCEPT !.go = TRUE]
    /\ UNCHANGED <<rowVars, loop, dur, histVars>>

Poll ==
    /\ run.pc \in Stage
    /\ ~run.go
    /\ IF WasCancelled THEN CancelRun
       ELSE run' = [run EXCEPT !.go = TRUE] /\ UNCHANGED <<loop, rem>>
    /\ UNCHANGED <<thread, posts, job, action, land, merged, dur, histVars>>

(* The first story not yet done, in backlog order; 0 when all are.         *)
Pending(done) == Story \ done
NextStory(done) ==
    IF Pending(done) = {} THEN 0
    ELSE CHOOSE s \in Pending(done) : \A t \in Pending(done) : s <= t

(* Mutant: a rework round is not counted.                                  *)
MutReworkedUncounted(r) ==
    IF r.round >= AutoRework THEN [r EXCEPT !.pc = "exhausted"]
    ELSE [r EXCEPT !.pc = "auto_rework"]

(* evaluate_qa_gate after a failed QA: another round, or the block.        *)
Reworked(r) ==
    IF r.round >= AutoRework THEN [r EXCEPT !.pc = "exhausted"]
    ELSE [r EXCEPT !.pc = "auto_rework", !.round = @ + 1]

(* The pipeline's own state once the stage at run.pc has entered its       *)
(* state; d is the durableRun it wrote.                                    *)
After(p, d) ==
    LET at(q) == [run EXCEPT !.pc = q, !.go = FALSE, !.snap = d]
        end   == [at("close") EXCEPT !.result = Enters[p]]
    IN  CASE p = "workspace_check"     -> at("git_check")
          [] p = "git_check"           -> at("runtime_check")
          [] p = "runtime_check"       -> at("discovery")
          [] p = "discovery"           -> at("route")
          [] p = "planning"            -> at("plan")
          [] p = "architecture_review" -> at("backlog_ready")
          [] p = "backlog_ready"       -> at("branch_ready")
          [] p = "branch_ready"        -> at("executing")
          [] p = "executing"           -> at("stories")
          [] p = "auto_rework"         -> at("develop")
          [] p = "next_story"          -> [at("develop") EXCEPT
                                            !.story = NextStory(d.done), !.round = 0]
          [] p = "qa_running"          -> at("verdict")
          [] p = "noop_qa"             -> at("mark_done")
          [] p = "skip_qa"             -> at("security_running")
          [] p = "reworking"           -> Reworked(at("reworking"))
          [] p = "security_running"    -> at("scan")
          [] p = "quality_review"      -> at("approval")
          [] p = "review_ready"        -> at("awaiting_approval")
          [] p \in {"awaiting_user", "brief_ready", "awaiting_approval"} -> end

(* Mutant: the approval reference is not kept in durableRun.               *)
MutPatchedNoReference(p) == [run.snap EXCEPT !.ws = @ \/ p = "branch_ready"]

(* _durable_run_patch: durableRun as the pipeline last saw it, updated.    *)
Patched(p) ==
    [run.snap EXCEPT !.ws = @ \/ p = "branch_ready",
                     !.approval = IF p \in {"review_ready", "awaiting_approval"}
                                  THEN "available" ELSE @]

Commit ==
    /\ run.pc \in Stage
    /\ run.go
    /\ IF Allowed(run.id, Enters[run.pc])
       THEN /\ loop' = [loop EXCEPT ![run.id] = Enters[run.pc]]
            /\ dur' = [dur EXCEPT ![run.id] = Patched(run.pc)]
            /\ run' = [After(run.pc, Patched(run.pc)) EXCEPT
                          !.late = IF WasCancelled THEN @ + 1 ELSE @]
            /\ passed' = IF run.pc = "noop_qa"
                         THEN [passed EXCEPT ![run.id] = @ \cup {run.story}] ELSE passed
       ELSE /\ IF run.pc \in BestEffort THEN run' = After(run.pc, run.snap)
               ELSE Finish("failed", "finish")
            /\ UNCHANGED <<loop, dur, passed>>
    /\ UNCHANGED <<rowVars, ops, secure, manual, paused>>

(* _block_run: no poll before it; a paused or ended loop refuses it.       *)
Block ==
    /\ run.pc \in Blockable
    /\ ~run.go
    /\ IF Allowed(run.id, "blocked")
       THEN /\ loop' = [loop EXCEPT ![run.id] = "blocked"]
            /\ dur' = [dur EXCEPT ![run.id] = run.snap]
            /\ Finish("blocked", "remediate")
       ELSE Finish("failed", "finish") /\ UNCHANGED <<loop, dur>>
    /\ UNCHANGED <<rowVars, histVars>>

(* _create_blocker_remediations_best_effort. *)
Remediate ==
    /\ run.pc = "remediate"
    /\ rem' \in {rem, [rem EXCEPT ![run.id] = "pending"]}
    /\ Goto("close")
    /\ UNCHANGED <<thread, posts, job, action, land, merged, loop, dur, histVars>>

(* _run_result calls _clear_run_active: the durableRun it writes is the    *)
(* copy taken at the last transition.  Best effort: it may fail.           *)
ClearRunActive ==
    /\ run.pc = "close"
    /\ \/ dur' = [dur EXCEPT ![run.id] = [run.snap EXCEPT !.active = FALSE]]
       \/ UNCHANGED dur
    /\ Goto("finish")
    /\ UNCHANGED <<rowVars, loop, histVars>>
-----------------------------------------------------------------------------
(* The phases between the stage boundaries.                                *)

(* _block_existing_functionality asks the operator, then blocks.           *)
MatchExisting ==
    /\ run.pc = "workspace_check" /\ ~run.go
    /\ thread' = "waiting_decision"
    /\ Goto("functionality")
    /\ UNCHANGED <<posts, job, action, land, merged, rem, loop, dur, histVars>>

(* route_product_owner_outcome: needs_input, brief_ready or a backlog.     *)
Route ==
    /\ run.pc = "route"
    /\ \/ thread' = "waiting_decision" /\ Goto("awaiting_user")
       \/ UNCHANGED thread /\ (Goto("brief_ready") \/ Goto("planning"))
    /\ UNCHANGED <<posts, job, action, land, merged, rem, loop, dur, histVars>>

(* _run_plan_phase: low risk skips the review, and later the analysis.     *)
Plan ==
    /\ run.pc = "plan"
    /\ \/ /\ dur' = [dur EXCEPT ![run.id] = run.snap]
          /\ run' = [run EXCEPT !.pc = "backlog_ready", !.fast = TRUE]
       \/ UNCHANGED dur /\ (Goto("backlog_ready") \/ Goto("architecture_review"))
    /\ UNCHANGED <<rowVars, loop, histVars>>

(* _complete_plan_only, in place of preparing the execution.               *)
CompletePlanOnly ==
    /\ run.pc = "branch_ready" /\ ~run.go
    /\ dur' = [dur EXCEPT ![run.id] = run.snap]
    /\ Finish("plan_ready", "close")
    /\ UNCHANGED <<rowVars, loop, histVars>>

(* _retry_source_progress: the stories done in the nearest loop of the     *)
(* retry chain that has a cursor.                                          *)
RetrySource ==
    LET source[l \in 0..MaxRuns] ==
            IF l = 0 THEN {}
            ELSE IF dur[l].done # {} THEN dur[l].done ELSE source[job[l].retry]
    IN  source[job[run.id].retry]

(* A story marked done: the next one, or the security phase.               *)
NextStage(done) == IF Pending(done) = {} THEN "security_running" ELSE "next_story"

(* run_story_batches: a carried-over story must match one of the source.   *)
(* Stories whose rows are done already are skipped there too; a run plans  *)
(* its stories as new rows and only the story loop marks them, so it       *)
(* starts with none.                                                       *)
StartStories ==
    /\ run.pc = "stories"
    /\ \E carried \in SUBSET RetrySource :
         LET d == [dur[run.id] EXCEPT !.done = carried]
         IN  /\ dur' = [dur EXCEPT ![run.id] = d]
             /\ run' = [run EXCEPT !.snap = d, !.story = NextStory(carried),
                          !.pc = IF Pending(carried) = {} THEN "skip_qa" ELSE "develop"]
             /\ passed' = [passed EXCEPT ![run.id] =
                              carried \cap UNION {passed[l] : l \in Id}]
    /\ UNCHANGED <<rowVars, loop, ops, secure, manual, paused>>

(* execute_developer_phase and capture_review_evidence.                    *)
Develop ==
    /\ run.pc = "develop"
    /\ Goto("qa_running") \/ Goto("noop_qa")
    /\ UNCHANGED <<rowVars, loop, dur, histVars>>

(* evaluate_qa_gate: an inconclusive verdict blocks (Block).               *)
QaPasses ==
    /\ run.pc = "verdict"
    /\ Goto("mark_done")
    /\ passed' = [passed EXCEPT ![run.id] = @ \cup {run.story}]
    /\ UNCHANGED <<rowVars, loop, dur, ops, secure, manual, paused>>

(* Mutant: a failed QA verdict is taken as a pass.                         *)
MutQaFailsPasses ==
    /\ run.pc = "verdict"
    /\ Goto("mark_done")
    /\ UNCHANGED <<rowVars, loop, dur, histVars>>

QaFails ==
    /\ run.pc = "verdict"
    /\ Goto("reworking")
    /\ UNCHANGED <<rowVars, loop, dur, histVars>>

(* _mark_story, from a fresh read of durableRun.                           *)
MarkStoryDone ==
    /\ run.pc = "mark_done"
    /\ LET d == [dur[run.id] EXCEPT !.done = @ \cup {run.story}]
       IN  /\ dur' = [dur EXCEPT ![run.id] = d]
           /\ run' = [run EXCEPT !.pc = NextStage(d.done), !.snap = d]
    /\ UNCHANGED <<rowVars, loop, histVars>>

(* run_security_phase: gitleaks and the SecurityAgent both pass.           *)
ScanPasses ==
    /\ run.pc = "scan"
    /\ secure' = secure \cup {run.id}
    /\ Goto(IF run.fast THEN "approval" ELSE "quality_review")
    /\ UNCHANGED <<rowVars, loop, dur, ops, passed, manual, paused>>

(* finalize_delivery_approval creates the action request before it moves   *)
(* the loop.                                                               *)
RequestApproval ==
    /\ run.pc = "approval"
    /\ action' = [action EXCEPT ![run.id] = "pending"]
    /\ Goto("review_ready")
    /\ UNCHANGED <<thread, posts, job, land, merged, rem, loop, dur, histVars>>
-----------------------------------------------------------------------------
(* Landing an accepted delivery: _execute_delivery_landing_job.            *)

(* Mutant: a resolved landing is started again.                            *)
MutStartLandingAgain(l) ==
    /\ Idle
    /\ land[l] = "queued"
    /\ land' = [land EXCEPT ![l] = IF loop[l] = "delivered" THEN "running" ELSE "completed"]
    /\ UNCHANGED <<thread, posts, job, action, merged, rem, loop, dur, run, histVars>>

(* land_queued_delivery: an already resolved landing is not repeated.      *)
StartLanding(l) ==
    /\ Idle
    /\ land[l] = "queued"
    /\ land' = [land EXCEPT ![l] =
                   IF loop[l] = "delivered" /\ dur[l].landing \in {"queued", "landing_failed"}
                   THEN "running" ELSE "completed"]
    /\ UNCHANGED <<thread, posts, job, action, merged, rem, loop, dur, run, histVars>>

(* ProductLoopDeliveryService.land: merge, leave to a pull request, or fail. *)
RunGit(l) ==
    /\ land[l] = "running"
    /\ \/ /\ land' = [land EXCEPT ![l] = "landed"]
          /\ merged' = merged \cup {l}
       \/ /\ land' \in {[land EXCEPT ![l] = s] : s \in {"pending_manual_pr", "landing_failed"}}
          /\ UNCHANGED merged
    /\ UNCHANGED <<thread, posts, job, action, rem, loop, dur, run, histVars>>

(* Mutant: a failed landing goes back to the queue.                        *)
MutRecordLandingRequeues(l) ==
    /\ land[l] \in Landing \ {"running"}
    /\ dur' = [dur EXCEPT ![l].landing = land[l]]
    /\ land' = [land EXCEPT ![l] = IF @ = "landing_failed" THEN "queued" ELSE "completed"]
    /\ UNCHANGED <<thread, posts, job, action, merged, rem, loop, run, histVars>>

RecordLanding(l) ==
    /\ land[l] \in Landing \ {"running"}
    /\ dur' = [dur EXCEPT ![l].landing = land[l]]
    /\ land' = [land EXCEPT ![l] = IF @ = "landing_failed" THEN "failed" ELSE "completed"]
    /\ UNCHANGED <<thread, posts, job, action, merged, rem, loop, run, histVars>>

(* The worker dies while landing: this job kind is queued again.           *)
CrashLanding(l) ==
    /\ Disrupt("crash")
    /\ UNCHANGED <<posts, merged, run, passed, secure>>
    /\ land[l] \in Landing
    /\ land' = [land EXCEPT ![l] = "queued"]
    /\ UNCHANGED <<thread, job, action, rem, loop, dur, manual, paused>>

(* retry_job of the landing job, which asks for no particular status.      *)
RetryLanding(l) ==
    /\ Disrupt("retry_landing")
    /\ UNCHANGED <<posts, merged, run, passed, secure>>
    /\ land[l] \in {"completed", "failed"}
    /\ land' = [land EXCEPT ![l] = "queued"]
    /\ UNCHANGED <<thread, job, action, rem, loop, dur, manual, paused>>
-----------------------------------------------------------------------------
Pipeline ==
    \/ CheckBeforeStart \/ MarkRunning \/ Supersede \/ Begin
    \/ Poll \/ Commit \/ Block \/ Remediate \/ ClearRunActive
    \/ MatchExisting \/ Route \/ Plan \/ CompletePlanOnly
    \/ StartStories \/ Develop \/ QaPasses \/ QaFails \/ MarkStoryDone
    \/ ScanPasses \/ RequestApproval
    \/ CheckBeforeFinish \/ SettleThread \/ CloseRun

Lander(l) == StartLanding(l) \/ RunGit(l) \/ RecordLanding(l)

OperatorStep ==
    \/ PostChecks \/ PostQueues \/ CancelExecution \/ ListRemediations
    \/ \E l \in Id :
         \/ Accept(l) \/ RequestChanges(l) \/ RequestTaskChanges(l) \/ Continue(l)
         \/ PauseLoop(l) \/ CancelLoop(l) \/ TransitionApi(l)
         \/ RetryLoop(l) \/ RetryLanding(l)

Next ==
    \/ OperatorStep
    \/ Pipeline
    \/ Crash
    \/ \E l \in Id : WaitForCapacity(l) \/ Claim(l) \/ Lander(l) \/ CrashLanding(l)

Spec == Init /\ [][Next]_vars

(* The worker keeps running: what it started it goes on with, and it       *)
(* claims what is queued.                                                  *)
FairSpec ==
    /\ Spec
    /\ WF_vars(Pipeline)
    /\ \A l \in Id : WF_vars(Claim(l)) /\ WF_vars(Lander(l))
-----------------------------------------------------------------------------
(* A delivered loop went through every gate: each story passed QA (or had  *)
(* nothing to verify) in its run or in the run it retries, and the security*)
(* scan of its run passed - whatever pauses, refused transitions, crashes  *)
(* and retries came before.  The transition endpoint is the only way round.*)
DeliveredWasGated ==
    \A l \in Id : loop[l] = "delivered" /\ l \notin manual =>
                     passed[l] = Story /\ l \in secure

(* What git merged into the base branch belongs to a delivered loop whose  *)
(* approval the operator granted.                                          *)
LandedWasAccepted ==
    \A l \in merged \ (manual \cup paused) : loop[l] = "delivered" /\ action[l] = "approved"

(* should_abort: once its job is cancelled a run enters at most the one    *)
(* state whose poll had already passed.                                    *)
AbortWithinOneStage == run.late <= 1

(* A loop shown as awaiting approval can be decided: its action request is *)
(* pending and durableRun refers to it.                                    *)
DecidableWhenAwaiting ==
    \A l \in Id \ (manual \cup paused) : loop[l] = "awaiting_approval" =>
                             action[l] = "pending" /\ dur[l].approval = "available"

(* Once a run has started its loop, no other loop of the thread is left    *)
(* looking as if a run of its own were executing it, however the runs      *)
(* before ended.  Rework is left out: the operator's request for changes   *)
(* leads there too, at any moment.                                         *)
NoZombieLoop ==
    run.pc \in Work =>
        \A l \in Id \ ({run.id} \cup manual) : Interrupted(l) => loop[l] = "reworking"

(* No crash, retry or late write makes a landing that git finished be      *)
(* recorded as anything else, or be started again.                         *)
LandedIsFinal ==
    [][\A l \in Id : dur[l].landing \in {"landed", "pending_manual_pr"} =>
          dur'[l].landing = dur[l].landing /\ land'[l] \notin Landing]_vars

(* Every run ends, whatever the operator does to its loop meanwhile: the   *)
(* rework rounds of a story are bounded and every refusal leads out.       *)
RunEnds == (run.pc # "idle") ~> (run.pc = "idle")

(* A queued landing gets an outcome.                                       *)
LandingSettles ==
    \A l \in Id : (land[l] = "queued") ~> (land[l] \in {"completed", "failed"})

(* A landing job only ends as completed when the delivery has landed or    *)
(* waits for a pull request.                                               *)
AcceptedDeliveryLands ==
    \A l \in Id \ manual : land[l] = "completed" =>
        dur[l].landing \in {"landed", "pending_manual_pr"}

=============================================================================
