# AIDO: verification of the control plane

AIDO's local control centre is a Python control plane over one SQLite database.
An API process and any number of *worker* processes share that database and
nothing else; workers execute jobs in child processes, supervise those
children, and fight over the right to do so. This directory holds TLA+ modules
that model this core (leadership, jobs, host resources, provider quota) and the
product loop that runs on top of it, the TLC configurations that check them, and
TLAPS proofs of the results that matter most.

Paths below are relative to `src/local_control_center/` unless they start with
`docs/`.

## 1. Inventory

| Component | State | Operations | What is hard | What makes it correct |
|---|---|---|---|---|
| **Worker leadership** (`workers/leadership.py`, `workers/runtime.py`, `workers/api.py`) | `worker_leader_leases` (one row), `worker_heartbeats`, `worker_control_state`; in memory `_fencing_token` | `acquire`, `renew`, `release`, `assert_fenced`, `consume_run_once`, the loop `run_forever`, the leadership watcher thread, `request_state`, `request_run_once` | the clock is read before a wait of up to 30 s for the write lock; two threads share the token; leaders stall and come back; crashes never release | one owner per token, stale leaders can write nothing, a run-once request is served once, a standby takes over, drain empties the fleet |
| **Jobs and runs** (`jobs_approvals/repository.py`, `jobs_approvals/worker.py`) | `jobs`, `job_runs` | `claim_job_by_id`, `heartbeat_job`, `complete_job_from_worker`, `requeue_expired_jobs`, `cancel_job`, `retry_job`, `run_once` | autocommit: every statement is its own transaction; recovery acts on rows it selected earlier | a late run's result is refused, no side effect is repeated on its own, cancellation wins, a dead worker's job is recovered |
| **Durable executions** (`executions/repository.py`, `dispatcher.py`, `runner.py`) | `operational_executions`, `process_execution_controls` | `enqueue`, `start`, `finish`, `request_cancel`, `require_fence` | start, finish, cancel, recovery and retry race over one status column | a handler runs once; only the newest run publishes; `completed` is earned |
| **Process supervision** (`process_supervision/`) | `managed_processes`, containers, watcher threads, process trees | `start`, reserve root, spawn, persist identity, watch, terminate, `complete`, `recover_expired` | a crash between spawn and identity; POSIX children outlive their parent | an orphaned tree is stopped before its job runs again |
| **Host resources** (`host_resources/`, `jobs_approvals/worker.py`) | `resource_leases`, `resource_admissions`, `resource_violations`, jobs in `resource_wait` | `admit`, `reevaluate_waiting`, `heartbeat`, `release`, `recover_expired`, branch borrow, eviction | capacity counted over expiring leases and live trees; admission, claim and start are separate transactions; the sampler acts on what it read earlier | the host is never over-committed; nothing is released under a process; a wait ends |
| **Action requests, approvals** (`jobs_approvals/`) | `action_requests` | request, approve, deny, resume | approval racing with cancel and recovery | an action runs only once and only approved |
| **Security policy, grants, sandbox** (`security_policy/`) | `permission_grants` | classify, grant, consume, expire | single use under two callers | a single-use grant is consumed once |
| **Product loop** (`product_loop/`) | `product_loops.state`, `context.durableRun` | the transition table, the pipeline of `run_user_message`, feedback, retry, continuation, landing | the pipeline works on a copy of the loop while the operator pauses, accepts, cancels and retries; runs die half way | nothing is delivered that was not gated, nothing lands that was not accepted, runs end, landings get an outcome |
| **Threads, remediations** (`threads/`, `remediations/`) | `project_threads.status`, `remediation_actions.status` | `post_message`, `cancel_execution`, `retry_loop` | the thread is read outside the transaction that queues; several runs of a thread | a new run leaves no zombie of an old one |
| **Workflows, backlog** | status rows per entity | create, advance | status derived from calls to agents | no dependency cycle, stage order |
| **Worktrees** (`workspaces_projects/git_worktrees.py`) | rows and git directories | allocate, archive, reconcile | crash between the row and the git command | no directory with two owners |
| **Quota** (`agents/quota_manager.py`, `agents/ai_execution.py`, `agents/runtime_preflight.py`) | `provider_limits`, their windows, `provider_execution_leases` and the windows each holds; executions and branches | `acquire`, `mark_dispatched`, `commit`, `release`, `record_rate_limit`, expiry | a call outlives its lease; callers die with a request at the provider; windows roll over; limits change under them | the windows add up to the leases, limits are kept, spending is never lost |
| Agents, gateway, router, team scheduler, integrations, settings, credentials, evidence, governance, discovery, memory, console | documents and configuration | CRUD, remote calls, scoring | little concurrency of their own | no protocol to check |

`PROJECT.json` lists every component with its status, and under `hazards` the
places where the code can go wrong in ways a test would hardly reach.

How the parts interact. The API process writes control rows, jobs, executions
and cancellations; it never talks to a worker directly. A worker loops: acquire
or renew leadership; read the control row; recover what dead workers left
(processes first, then resources, then jobs); admit and claim one job
(`DEFAULT_MAX_CONCURRENT_JOBS = 1`); start a runner child that executes the
handler and writes the result itself. Two more threads act meanwhile: the
leadership watcher, which renews the lease, and the process watcher, which
kills the child when it is cancelled or its fence, job lease or reservation is
lost. Every write a worker makes for a run carries `(worker, fencing token)`
and is checked against the lease row in the same transaction. The recovery of
jobs is the exception: `requeue_expired_jobs` is unfenced.

A thread message becomes a job, its handler is the product loop's pipeline, and
an accepted delivery becomes another job that merges the branch. A job must be
admitted by the resource governor before it may be claimed, and holds the
reservation while its process tree lives. Agents inside a run call model
providers through the AI execution service, which takes a quota lease per call.

## 2. Modules

| Module | Models | Lines of argument |
|---|---|---|
| `FencedLease` | what leadership promises to everything else: a holder, a token that grows with each grant, and a lease that may be live or not at any time | abstract specification |
| `WorkerLeadership` | the lease row with its expiry, heartbeats, control row, scheduler loop and watcher thread | implements `FencedLease` |
| `JobLifecycle` | jobs, runs, executions, cancellations, processes, and everyone who writes them | EXTENDS `FencedLease` |
| `ResourceAdmission` | the host resource governor, the worker's way through admission, claim, start and release, branches, sampler, evictions | own job rows, no fencing tokens |
| `LoopFsm` | the product loop's states and transition table | a table, no behaviour |
| `ProductLoop` | a thread, its runs, loops, delivery approvals, remediations and landings | EXTENDS `LoopFsm` |
| `Quota` | provider limits, windows, leases, and their callers | |
| `WorkerLeadershipProofs`, `JobLifecycleProofs`, `JobOutcomeProofs`, `ResourceAdmissionProofs`, `QuotaProofs`, `ProductLoopProofs` | theorems about the module each is named after (`JobOutcomeProofs` too is about `JobLifecycle`) | section 5 |
| `NaturalLemmas` | two facts about natural numbers that `QuotaProofs` and `ProductLoopProofs` use in place of an induction principle | |
| `MCWorkerLeadership`, `MCJobLifecycle`, `MCResourceAdmission`, `MCProductLoop`, `MCQuota` | instances, symmetry and state constraints for TLC | |

The composition is by the abstract lease. `WorkerLeadership` is proved to
implement `FencedLease`; `JobLifecycle` uses `FencedLease` for its lease, so its
results hold over the real lease row, stale clock readings and revivals
included. The other three modules each look at one protocol that `JobLifecycle`
abstracts from: what admits a job (`Park`, `Unpark` there), what its handler
does (`ChildStart` to `ChildFinish`), and what the handler's model calls may
spend.

### FencedLease

`Grant(w)` gives the lease to `w` under the next token, and only while it is not live.
`Flip` makes it live or not. A lease that comes back to life *with the same
holder and token* is allowed, because the code does it (section 6, known deviations); nobody else
can have held it in between. `FenceIsActive(w, t)` is the test every fenced
write makes.

### WorkerLeadership

| Variable | Code |
|---|---|
| `lease` | row of `worker_leader_leases`; `ttl` is `expires_at - now` |
| `beat` | `worker_heartbeats.fencing_token` |
| `control`, `requests` | `worker_control_state` and the run-once timestamps handed out |
| `pc`, `mem`, `dec`, `ctl`, `arg`, `lag` | the loop: its position, `self._fencing_token`, the local `decision`, its copy of the control row, the token handed to a call, the age of the clock reading |
| `watch`, `watchLost`, `watchLag` | the leadership watcher |
| `applied` | history: the last fenced write the database accepted |

Time is relative: `Tick` decrements `ttl` and ages the readings of threads that
wait for the write lock. A thread that waits carries `lag`, compares with
`ttl > -lag` and writes `LeaseLen - lag`, as the code does when it computes
`now` before `BEGIN IMMEDIATE`. `MaxLag` is the busy timeout, after which the
call fails. A worker id is a uuid made at process start: a restart is another
element of `Worker`.

Every action is one transaction or one stretch of a thread between two points
at which others can interleave: `BeginAcquire`/`Acquire`/`StoreDecision`,
`BeginRenew`/`Renew`, `ObeyExit`, `DecideRun`, `ConsumeRunOnce`,
`PreflightRefuses`, `StartBatch`, `BeginFencedWrite`/`FencedWrite`,
`FinishBatch`, `CycleFails`, `Interrupt`, `Release`, `Exit`, for the watcher
`WatchBegin`/`WatchRenew`/`WatchClear`/`WatchFails`, for the operator
`RequestState`/`RequestRunOnce`. The batch is abstracted to fenced writes; its
content is `JobLifecycle`.

### JobLifecycle

| Variable | Code |
|---|---|
| `job`, `exec`, `cancel` | `jobs`, `operational_executions.status`, existence of the `process_execution_controls` row |
| `res` | the job's resource reservation, named by the run that created it |
| `api` | the API request that is between two of its statements |
| `phase`, `tok`, `todo`, `plan` | a worker's cycle: where it is, its token, the rows recovery selected, the one it is working on |
| `run`, `pc`, `out` | `job_runs`, the thread in `run_once`, the status it closes with |
| `row`, `child`, `watch` | `managed_processes` row, the runner child, its watcher thread |
| `started`, `retried` | history |

The API: `Enqueue`, `CancelExecution` (the execution's path), `CancelControl` then
`CancelJob` (the job's path, two statements), `RetryCheck` then `RetryControl`,
`RetryExec`, `RetryJob` (a check and three autocommitted statements). A
worker's cycle: `Lead`; `RecoverProcess` per process row; `RecoverSelect`, then
per job `RecoverRead`, `RecoverExec`, `RecoverJob`, `RecoverRuns`;
`RecoverEnd`; `Park`, `Unpark`, `Claim` or `NoClaim`; `CycleFails` and `Crash`
anywhere. A run: `Launch` (checks), `Reserve` (row with pid 0), `Spawn`,
`Persist` (identity), `Complete`, `Settle`, `CloseRead`, `Close`,
`ReleaseResource`, with `Heartbeat` beside it and `LaunchFails` as the error
path. The child: `ChildStart` (`start` in `executions/repository.py`),
`ChildFinish`, `ChildDies`; the watcher: `WatchKill`, `WatchTell` (the durable
cancellation it writes after the kill); `HostKill` is a termination by the
host. Leases run out at any time: `FlipLease`, `ExpireJobLease`,
`ExpireResourceLease`.

Abstractions worth knowing:

- there is no clock. A lease may expire at any moment, so a pause of any length
  of a process, thread or host is covered, at the price of behaviours that need
  implausible timing;
- admission and claim are two transactions in `run_once`; `Claim` merges them.
  What can happen to the reservation in between is an `ExpireResourceLease`
  right after the claim;
- recovery of jobs may begin before every process row was visited. The code
  visits them all, unless one raises and the cycle ends; the model allows more;
- `CancelExecution` tests the status and not `cancelRequestedAt`: where an
  execution with an old request runs again, the model accepts a second request
  that the code ignores, so it has more behaviours than the code;
- a job that waits for resources is parked and unparked freely: capacity is the
  subject of `ResourceAdmission`;
- `blocked` is told apart from `failed` by nothing in this module, and is `failed`.

### ResourceAdmission

| Variable | Code |
|---|---|
| `lease` | `resource_leases`: live, expired (past `expires_at`, row not yet recovered) or released, with execution, class, owner and the execution it belongs to |
| `violated`, `grace` | unresolved `resource_violations`; less than `EVICTION_GRACE_SECONDS` since the last one |
| `jobs`, `request` | `jobs.status`; the owner in the job's last `resource_wait` decision |
| `root` | unfinished `managed_processes`, by execution and lease |
| `leader`, `run` | the worker with the current token; where each worker is in `run_once` |
| `branch` | inference branches of a running job (`BranchAdmission.reserve`) |
| `batch` | the requests `reevaluate_waiting` has read and not yet admitted |
| `owed` | the leases whose process row a recovery has finished and which it has still to release |

`WORKLOAD_PROFILES` keeps the columns that decide anything here. `Admissible` is
`_decide`: slots, exclusive cook, browser against build, CPU budget; the host
probe (memory, disk, load) is a Boolean choice. `Admit` is one transaction:
recover what expired, return the execution's own lease, else create one or park
the job. A worker goes `Peek`, `AdmitJob`, `Claim`, `CheckReservation` (the test of
`execute_job`), `StartCheck` and `ReserveRoot` (two transactions of
`ProcessSupervisorService.start`), `RootEnds`, `Close`, `ReleaseOwn` (the `finally`
of `run_once`). What a dead worker leaves running is `RecoverRoot` (the process row is
finished) and then `ReleaseOrphan`, in another transaction. A branch borrows (`Borrow`) what fits in the job's profile or reserves
its own (`ReserveBranch`), and ends. The sampler: `RecoverExpired`, `ReadWaiting`
(all waiting requests at once) then `Reevaluate` for each, `Evict`, `GraceEnds`. Faults: `TakeOver` (the old leader goes
on where it stands), `Crash` with `Requeue`, `Lapse` of an unrenewed lease,
`RenewalLate`, `OperatorRelease`, `CancelJob`.

### LoopFsm and ProductLoop

`LoopFsm` is the table of `product_loop/fsm.py`: states, `ALLOWED_TRANSITIONS`,
terminal states. `ProductLoop` follows one thread; job `l` starts loop `l`.

| Variable | Code |
|---|---|
| `thread`, `posts` | `project_threads.status`; `post_message` calls past their busy check |
| `job` | thread jobs: status, and the loop they retry or continue |
| `loop`, `dur` | `product_loops.state`; what `context.durableRun` says about the run, the approval, the landing and the stories done |
| `run` | the pipeline the worker executes: its point, its poll, its *copy* of `durableRun` (`snap`), story and rework round |
| `action`, `land`, `merged`, `rem` | delivery approval, landing job, what git merged, the `retry_loop` remediation |
| `ops`, `passed`, `secure`, `manual`, `paused` | history |

The operator: `PostChecks`/`PostQueues` (two steps, as in `post_message`),
`CancelExecution`, `Accept`, `RequestChanges`, `RequestTaskChanges`, `Continue`,
`PauseLoop`, `CancelLoop`, `TransitionApi`, `RetryLoop`, `RetryLanding`,
`ListRemediations` (which dismisses stale ones). The worker: `WaitForCapacity`,
`Claim`, `CheckBeforeStart`, `MarkRunning`, `Supersede`, `Begin`; then for every stage
`Poll` (`should_abort`) and `Commit` (the transition), which are two steps, with
the choices of the phases between them: `MatchExisting`, `Route`, `Plan`,
`CompletePlanOnly`, `StartStories`, `Develop`, `QaPasses`, `QaFails`, `MarkStoryDone`,
`ScanPasses`, `RequestApproval`; a failed check is `Block` and `Remediate`; the end is
`ClearRunActive`, `CheckBeforeFinish`, `SettleThread`, `CloseRun`; `Crash` anywhere.
A landing: `StartLanding`, `RunGit`, `RecordLanding`, `CrashLanding`. What agents
produce is a choice among the outcomes the phases tell apart.

### Quota

| Variable | Code |
|---|---|
| `policy` | `provider_limits` by model or for the whole provider: present, enabled, limited, cooldown |
| `window` | `provider_limit_windows`: requests and tokens committed, reserved, unverified |
| `lease` | `provider_execution_leases` with the windows each was taken from |
| `branch`, `required`, `status`, `stage` | branches and executions of `AIExecutionService.execute`, and preflights |
| `call` | the request: in the thread pool, at the provider, answered |
| `now` | the clock, in ticks |

Each `QuotaManager` method is one `BEGIN IMMEDIATE` transaction and an operator of
the module: `Acquired` (expiring what is stale first), `Dispatched`, `Committed`,
`Released`, `RateLimited`. Callers: `AdmitBranch` per branch, `Begin` or `Undo`,
`DispatchBranch`, `PlanFails`, `Complete`, `RecordRateLimit`, `Fail`, `Finish`. The
provider: `Invoke`, which may answer with or without usage, with a 429 or an
error, also after its caller died. A 429 is recorded by the caller when it collects
the answer (`RecordRateLimit`) or, by the NVIDIA transport, in the pool thread that
meets it (`NimRateLimited`). Around them: `Tick`, `Crash`, `CreateLimit`,
`PatchLimit`, `CliRateLimit`. Costs follow the tokens in the same statements and are
left out; a refusal by cost is part of the choice `ok`.

## 3. Runs

Deadlock is not checked, because the systems really may stop: every worker may
exit on request or crash, every job and call may be over, and nothing is then
left to do.

| Run | Checks | Result |
|---|---|---|
| `leadership_safety` | `TypeOK`, `TokensDisjoint`, `BatchKeepsFence`, `RunOnceServedOnce`, `FencedWritesOrdered`, `ImplementsFencedLease` | hold |
| `leadership_liveness` | `StandbyTakesOver`, `StopEmptiesFleet` | hold under fairness |
| `job_overlap` | `TypeOK`, `NoReplay`, `OverlapNeedsRetry`, `OnlyNewestRunPublishes` | hold |
| `job_cancel` | `CompletedIsEarned`, `AcceptedCancelWins`, `CancelledHandlerStops` | hold, the last under fairness |
| `job_liveness` | `DeadWorkersJobRecovered`, `OrphanedTreeStops` | hold under fairness |
| `product_loop` | `TypeOK`, `DeliveredWasGated`, `AbortWithinOneStage`, `NoZombieLoop` | hold |
| `product_loop_liveness` | `LandedWasAccepted`, `DecidableWhenAwaiting`, `LandedIsFinal`, `RunEnds`, `LandingSettles` | hold, the last two under fairness |
| `product_loop_landing` | `AcceptedDeliveryLands` | violated, finding 1 |
| `resource_admission` | `TypeOK`, `CapacityRespected`, `WaitingHasNoLease`, `ReservationKept`, `EvictionEndsWithLease`, `NoReleaseUnderTree` | hold |
| `resource_liveness` | `WaitEnds`, `EvictionFrees` | hold under fairness |
| `resource_takeover` | `WaitIsRecoverable` | violated, finding 2 |
| `quota` | `TypeOK`, `LedgerMatchesLeases`, `UsageWithinLimits`, `SpendNeverLost`, `OutcomeMatchesLease`, `UsageNeverForgotten` | hold |

### Bounds, and why they are enough

- *Leadership.* Two workers and two tokens: a stale leader and its successor,
  which is every pair the safety properties speak of (the theorems cover any
  number). `LeaseLen = 1` and `MaxLag = 1` let a reading be stale by a tick while
  the lease is live, has just run out, and has been taken over. Two run-once
  requests and no commands: batches run for requests only, since the initial
  state is paused, and a leader may hold a copy of the first request while the
  second is pending. `draining` is the liveness run's command.
- *Overlap.* Two handlers of one job at once need three tenures even in a wrong
  program: the first stalls in recovery between its SELECT and its UPDATE, the
  second runs the job, the first wakes and requeues it, the third claims. The
  constraint `LateRuns` gives the second and third tenure one claim each and the
  first none. Retries, cancellations and cycles that fail are left out: with one retry
  the run does not finish. For any number of retries `NoReplay` and
  `OverlapNeedsRetry` are theorems; with cancellations `NoReplay` is false (section 6).
- *Cancel.* One worker, two tenures, one claim and one retry: each statement of a
  retry and of a cancellation interleaves with claim, start, finish, close and
  recovery. The two safety properties are proved for any number of workers.
- One job: jobs share nothing but the worker's slot, the lease and capacity; the
  theorems hold for any set of jobs, and competition for capacity is
  `ResourceAdmission`'s.
- *Product loop.* Safety: two runs of one story with one rework round, so that a
  message, a retry or a continuation finds what the first run left, and one
  disruption (cancel or crash) at any statement. Liveness: one run with two
  stories and two rework rounds, so that the counter of the first story could
  leak into the second, and three disruptions of any kind. Accepting, asking
  for changes, continuing and retrying are not bounded.
- *Resources.* Two workers and two heavy jobs for one slot, three lease rows (the
  third is the fresh id while two are referred to) and two faults: every known race
  needs a stall and a takeover or a release. The liveness run has one worker and
  a light job with a branch that needs a heavy slot of its own.
- *Quota.* An execution of two branches, on different models as the plan validator
  demands, and a preflight on the model of the first; the limit is
  two requests and two tokens per window of a tick and two leases at once, so
  each limit is met; leases last a tick or two, so they expire inside and across
  windows; one tick and one fault.

### Fairness

Threads keep running and time passes; nothing the operator does, no crash and no
interrupt is fair, and the handler may never return.

- *Leadership.* Weak fairness of the loop's steps and of the watcher's pending
  call: no wait in the code is unbounded. Strong fairness of `Acquire`,
  `FinishBatch` and `ObeyExit`, because the loop comes back to them in every pass
  and a transient database error (`CycleFails`) may take their place in some
  passes, not in all; and of `Tick`, which waits while a call at the busy timeout
  has not returned.
- *Product loop.* Weak fairness of the pipeline, of `Claim` and of the landing job:
  the worker goes on with what it started and claims what is queued.
- *Resources.* Weak fairness of recovery (expired leases, dead workers' processes and
  the leases it owes), requeue, the worker's and the branches'
  steps, the end of processes and the expiry of leases nobody renews. Strong
  fairness of `ReadWaiting`, `Reevaluate` and `AdmitJob` with the host below its
  thresholds: the sampler and the poll come back for ever, and the host is
  assumed to be below its thresholds again and again, without which no wait can
  end.
- *Quota.* None: nothing obliges a provider to answer.
- *Jobs.* Weak fairness of the cycle's steps, of the run's thread, of the
  watcher's kill, and of the expiry of a dead process's leases. Strong fairness of
  `Lead` and `GrantLease` (acquire is tried at every poll) and of
  `RecoverProcess`: the cycle ends and begins again, so a visit is enabled over
  and over, not continuously, and the code visits every row in each cycle.

`job_liveness` assumes that cycles do not fail (`MayFail = FALSE`): a recovery
that raises in each cycle blocks everything, stop included (a listed hazard). The
liveness properties exclude by name what the code cannot resolve: tokens
used up (a bound of the model), no worker left, and a root that was
reserved but never identified (`UnknownRoot`), which recovery skips for ever.
`CancelledHandlerStops` is checked with one worker: with two and cancellation the
temporal check is too large; what a survivor does about the tree of a dead
worker is `OrphanedTreeStops`.

## 4. What the properties say

- `TokensDisjoint`: whatever is held in a variable, a call in flight, a watcher or
  a heartbeat row, no token is held by two workers.
- `BatchKeepsFence`: a batch that started under a token keeps it, although the
  watcher clears `_fencing_token` under its feet.
- `FencedWritesOrdered`: accepted writes never go back to an older token.
- `RunOnceServedOnce`: two leaders that both read the request serve it once.
- `OnlyNewestRunPublishes`: nothing but the newest run of a job writes a result
  into its execution or its job row.
- `NoReplay`: a handler starts at most once, plus once per retry the operator
  asked for.
- `OverlapNeedsRetry`: two handlers of one job never run at the same time,
  unless the job was retried.
- `CompletedIsEarned`: a job never retried reads `completed` only over an execution that
  completed (or was later marked interrupted by a recovery that stalled across a
  takeover). `AcceptedCancelWins`: an execution that had not
  completed when its job became `cancelled` never does, unless the job is retried.
- `StandbyTakesOver`, `StopEmptiesFleet`, `DeadWorkersJobRecovered`,
  `OrphanedTreeStops`, `CancelledHandlerStops`: the liveness counterparts.
- `DeliveredWasGated`: a delivered loop passed QA for every story and the security
  scan, whatever chain of retries, continuations, pauses and crashes came
  before; only the transition endpoint goes round the gates.
- `AbortWithinOneStage`: a cancelled run enters at most the one state whose poll had
  already passed. `NoZombieLoop`: a new run leaves no other loop of the thread
  looking as if it were executing.
- `LandedWasAccepted`, `LandedIsFinal`: what git merged was accepted, and a landing
  is neither repeated nor reported as something else later.
  `DecidableWhenAwaiting`: a loop that awaits approval has a pending approval the
  operator can decide. `RunEnds`, `LandingSettles`: liveness.
- `CapacityRespected`: slots, exclusivity and CPU budget are kept by the reservations
  that are live *or expired under a process that still runs*.
  `NoReleaseUnderTree`: nothing releases a lease under the process that runs on it.
  `ReservationKept`: nothing but expiry, the operator or a reservation shared with
  another worker, alive or recovered after its death, takes a reservation from a job
  that executes.
  `WaitingHasNoLease`: a waiting job has no lease that admission would return without
  waking it. `EvictionEndsWithLease`: an eviction never cancels the next
  attempt. `WaitEnds`, `EvictionFrees`: liveness.
- `LedgerMatchesLeases`: every window is the sum of its leases, whatever the order of
  dispatch, settlement, expiry and release. `UsageWithinLimits`: what the operator
  configured holds at every moment. `SpendNeverLost`: what the provider was made to
  spend is in the window it was admitted in. `UsageNeverForgotten`: counted use
  only grows, and a settled lease stays settled. `OutcomeMatchesLease`: branch,
  lease and execution report the same outcome, and an execution that ends leaves
  no lease behind.

## 5. What is proved

All proofs are checked by TLAPS for every value of the constants, under the
named assumptions of the modules: `ConstantsAssumption`, `WorkerAssumption`,
`MaxTokenAssumption`, `JobAssumption`, `ResourceAssumption`, `QuotaAssumption`,
`ProductLoopAssumption`. They say that bounds and limits are natural numbers,
that null values are no worker, job or model, and which table a constant is; the
one assumption on a size is that there are finitely many model calls
(`IsFiniteSet(Call)`: rows of a table, whose tokens have to have a sum). No bound
has a value: the results hold for any number of workers, jobs, tenures, retries,
leases, branches, calls, stories, runs, operator decisions and crashes.

Every type invariant, safety invariant and action property of a passing run is
stated by a theorem, and so is the refinement; what a run shows on its instance
the theorem shows for all. Two of them, `NoReplay` and `OverlapNeedsRetry`, are proved
as they are checked, without operator cancellation (`~MayCancel`, see below).

`WorkerLeadershipProofs`:

- `TypeCorrect`, `NoSharedToken`, `BatchesAreFenced`, `StaleLeaderIsFenced`,
  `LeadershipRefines` (every step of the lease row is a step of `FencedLease` or
  a stutter). They rest on one inductive invariant, `IInv`: types, `HeldTokenIsOwn`
  (anything a worker holds was granted to it), `TokensDisjoint`, `DecisionHeld`
  (from acquire to the end of a cycle the loop has a decision, and a batch carries
  it) and `RowOrdered` (the last accepted write is no newer than the row, and of the
  row's owner if as new). The last two are the strengthening: `BatchKeepsFence` and
  `FencedWritesOrdered` are not inductive without them.
- `RequestServedOnce` (`RunOnceServedOnce`): a run-once request is served by one
  batch. The copy of the control row a loop decided on may be stale; what counts is
  that `consume_run_once` clears the request under the fence and that only its
  caller starts the batch (`ServesNoneNew`: no step makes a loop serve a request
  that another serves or that was served before).

`JobLifecycleProofs`:

- `TypeCorrect`.
- `LateResultsRefused` (`OnlyNewestRunPublishes`). The invariant `PublishInv`
  orders runs by token (`TokensOrdered`: a newer run has no older token, runs of
  one token have one worker, the row's token belongs to the row's holder), says
  that a worker claims again only when its previous run is over (`OneRunAtATime`)
  and that a run is not over while its child is alive (`TreeOutlivesRun`). A run that publishes has the live token, so no run of a
  later tenure exists; within its tenure a newer run would be the same worker's,
  which claims again only once this run is over.
- `HandlersNotReplayed` (`NoReplay`) and `OverlapOnlyAfterRetry`, without operator
  cancellation (`~MayCancel`; with it `NoReplay` is false, section 6). The invariant
  `StartInv` ties the history to the rows: `StartsBounded` (a queued execution has
  an unused start), `GrantedRetry` (a retry in progress has already been counted),
  `HandlerHoldsJob` (in a job never retried there is at most one handler, and none
  while the execution is queued), `Fresh` (a run not claimed yet has no child),
  `NoCancelRequested` (the one other status from which `start` begins).

`JobOutcomeProofs`, with cancellations:

- `CompletionsEarned` (`CompletedIsEarned`) and `CancellationWins`
  (`AcceptedCancelWins`). A status travels: from the execution to the thread that
  closes the run or to the recovery that read it, and from there, much later,
  to the job. The invariant `OutcomeInv` says that what is under way is still true
  when it arrives: `ThreadTruthful` (what a thread is about to close with),
  `RecoveryTruthful` (what a recovery read), `CancelIsDurable` and `CancelAnnounced`
  (a cancelled job has its durable request, which is committed first). It is
  inductive because an execution's final status and a cancellation request are
  stable until a retry is granted (`JobsStable`), which `GrantedRetry` ties to the
  retry counter.

`ResourceAdmissionProofs`:

- `TypeCorrect` from `Typed`, table by table: a run past its admission names a
  lease, a reservation keeps the execution and the class it was made for.
- `ProcessKeepsLease`, `EvictionIsBounded`, `WaitingIsUnreserved`: in one step a lease
  row is kept, goes or is made (`Kept`, `Gone`, `Made`; lemma `RowFate`), and a row is
  made only for an execution that has none.
- `ReservationIsKept` from `Holding`: a worker that executes has its own row
  (`OwnRows`) or the loss has been noted (`LossNoted`), two workers share one only
  after a takeover (`SharingNoted`), and jobs and branches have different rows
  (`Apart`), so that what a branch or another worker returns is never this one.
- `CapacityIsRespected` from `ReservedFits`: the property is about the leases in force,
  the invariant about *all* that are not released. That is stronger and inductive: an
  admission first releases what expired without a process, in the same transaction,
  so that what `_decide` counts is all that is left, and fitting is kept by subsets.

`QuotaProofs`:

- `TypeCorrect`, and `OutcomeFollowsLease` (`OutcomeMatchesLease`) from `Agreement`:
  `Coherent` (branch, lease and call of one request tell the same story) and
  `InStep` (the branches have got as far as the stage of their execution). A step
  gives each branch one of a few *fates* (`Fates`), each of which keeps both.
- `LedgerIsExact` (`LedgerMatchesLeases`) from `Booked`: each column of a window is
  the sum over the leases mapped to it. Sums are the cardinality of a set of units
  (`Units`, `Total`), so that splitting a set of leases splits the sum
  (`TotalSplit`) without induction. Then a subtraction that stops at zero never does
  so with something left.
- `SpendIsCovered` (`SpendNeverLost`) and `UsageIsKept` (`UsageNeverForgotten`): what
  a call has used is covered by its reservation while the lease lives and by the
  charge afterwards.
- `LimitsAreKept` (`UsageWithinLimits`) from `Limits`: windows are `Bounded`, leases
  count against present policies (`Policed`), and those in force (`InForce`) are as
  few as the concurrency allows; acquire tests all three after it has expired what
  is stale, in the transaction that reserves.

`ProductLoopProofs`, in layers, each inductive relative to those before:

- `TypeCorrect` and `CoreHolds` from `Core`: one job at a time and no landing
  meanwhile (`Placed`), jobs created in order and retrying older ones (`Chained`), a
  job starts its loop once (`Fresh`), a run at work on a story has one (`OnStory`),
  one that ends has a result (`Concluded`). `Chained` also makes the recursion of
  `RetrySource` well-founded: its function exists (`SourceExists`), and what it
  returns was done in an older loop (`CarriedWasDone`).
- `NoLoopLeftRunning` (`NoZombieLoop`) from `Superseded`, which starts one step
  earlier, at the supersede.
- `CancelledRunStops` (`AbortWithinOneStage`) from `Tardy`: a late run has used up its
  poll, and its job stays cancelled.
- `LandingIsFinal` (`LandedIsFinal`) from `Landed`: the loop of a finished landing is
  delivered and belongs to no run, and no pipeline carries a finished landing in
  its copy of `durableRun`.
- `DeliveryIsGated` (`DeliveredWasGated`) from `Earned` and `Gates`: what `durableRun`
  and its copy call done has passed, a run is past a gate only if it passed it, and
  while a run is at work its loop is neither up for a decision nor delivered. Without
  the latter a retry could reset what an earlier delivery rests on.
- `AwaitedIsDecidable` (`DecidableWhenAwaiting`) and `LandingWasAccepted`
  (`LandedWasAccepted`) from `Asked`: as long as the loop can still get to
  `awaiting_approval` the request is pending, and the closing write of the pipeline
  carries the reference; hence `Approved`. Both exclude loops the operator paused or
  moved through the transition endpoint, as the properties do (section 4).

TLC finds these invariants true on the instances of section 3 as well; the three
larger sets (`Holding` and `ReservedFits`, `Accounts` and `Limits`, `Guarded` and
`Decided`) were checked on the constants of `ResourceAdmission.cfg`, `Quota.cfg` and the
`ProductLoop*.cfg`.

Only model-checked: the liveness properties (`StandbyTakesOver`, `StopEmptiesFleet`,
`CancelledHandlerStops`, `DeadWorkersJobRecovered`, `OrphanedTreeStops`, `RunEnds`,
`LandingSettles`, `WaitEnds`, `EvictionFrees`), since fairness and ENABLED are out of
TLAPS's reach here, and the two violations of section 6, which TLC exhibits.

## 6. Findings

1. `product_loop_landing`: the pipeline writes `durableRun` back from its own copy
   (`_clear_run_active`, `product_loop/coordinator.py:2905`) after the loop is already
   `awaiting_approval`. An accept committed in between is overwritten, and the
   landing job completes without having landed anything, against the comment at
   `product_loop/coordinator.py:325`.
2. `resource_takeover`: `reevaluate_waiting` admits a waiting job for the owner its
   request names. If that worker was replaced meanwhile, the new one is handed a
   reservation that is not its own and fails the job
   (`jobs_approvals/worker.py:459`), although waiting is documented as recoverable
   (`host_resources/governor.py:53`).

Known deviations without a run of their own. The definitions are in the modules,
and TLC refutes them; the checked properties and theorems are stated around them:

- `ExpiredStaysExpired` (`workers/leadership.py:157`): `renew` compares the expiry
  with a clock reading taken before it waited for the lock, so an expired lease is
  renewed. Harmless for exclusion: if somebody acquired meanwhile the token does
  not match.
- `CancelledIsTerminal` (`jobs_approvals/repository.py:1048`): `requeue_expired_jobs`
  updates a row it selected earlier without testing its status, and turns a job
  cancelled in between into a queued one.
- `NoOverlap` (`jobs_approvals/repository.py:802`): `retry_job` checks for live
  processes and then runs three statements that test nothing; a worker can start
  the job in between, and two handlers run at once. Hence `OverlapNeedsRetry`.
- `NoReplay` with cancellation (`executions/repository.py:180`): an execution left
  `cancel_requested` without a control row is startable again; with a recovery
  that stalled, a handler runs twice without a retry. Hence `~MayCancel` in two
  theorems, and no property covers the hazard at `executions/repository.py:248`.
- `ConfiguredLimitHolds` (`agents/quota_manager.py`, `record_rate_limit`): a 429 gives
  the model a policy of its own with empty windows, so the models of a provider
  together exceed what the operator configured for the provider. Hence
  `UsageWithinLimits` speaks of each policy by itself.

Noticed: `workers/api.py:157` says that pause stops "manual run-once execution",
while the loop (`workers/runtime.py:393`) runs a batch for a pending run-once
request in the paused state; and `cancel_execution` (`threads/coordinator.py:66`) does
not cancel a job parked in `resource_wait`, which runs later. A decision whose reason does
not change keeps its `created_at` (`record_admission`, `host_resources/repository.py:265`),
so a job that waits for more than seven days for one reason loses its request to
`prune_admission_decisions` and is not reevaluated again. `WaitEnds` is about waits that
capacity ends before. The watcher of a run kills the tree first and writes the durable
cancellation later (`process_supervision/service.py:754`); by then the job may be requeued or
retried, and the new attempt is cancelled. That is modelled (`WatchTell`), but no document
promises otherwise, so no property forbids it.

## 7. Plan

Done: leadership and its abstract lease; jobs, executions and their processes
(jobs of kind `operation.execute` without parents); host resources; the product
loop with its threads, remediations and landings; quota.

Next, in order of importance:

1. action requests and permission grants: `create_action_request`, `approve_action`,
   `deny_action`, `_decide_developer_patch` (`jobs_approvals/repository.py`),
   `validate_and_consume_grant`, `revoke_grant` (`security_policy/repository.py`), with
   the tool broker as consumer: a grant is used once, a patch and its job are
   decided together;
2. child jobs (`fail_orphaned_child_jobs`) against the agent that still finishes;
3. containers and aggregate sessions of process supervision;
4. worktrees: allocation and archival with crashes between row and git command;
5. workflow stages.

Proofs planned:

- a refinement of an abstract job (queued, running, terminal) by `JobLifecycle`,
  where the known deviations are excluded by hypothesis;
- a refinement of an abstract delivery (open, up for a decision, delivered,
  merged) by `ProductLoop`, for which `Gates`, `Asked` and `Landed` are the lemmas;
- that recovery leaves nothing behind, as invariants: the safety half of
  `DeadWorkersJobRecovered` and `OrphanedTreeStops`.

## 8. Not modelled, and why

- *Jobs and processes.* Approvals that resume a job, child jobs, kinds executed in
  the worker itself, aggregate sessions, containers and timeout reconciliation
  (section 7, or variants of what is modelled).
- *Host resources.* Capture and launcher sessions, starts without a job, sums of
  memory (part of the probe's choice), jobs whose class cannot be determined; the
  limit of 20 requests per reevaluation, and the pruning of admission decisions after
  seven days (section 6).
- *Product loop.* The governance policy (thread runs have none), research and risk
  continuations, feedback that changes no state, the backfill of remediations for
  blocked threads (`ensure_blocked_thread_remediation`), the variants of
  `retry_delivery_approval`, remediations other than `retry_loop`.
- *Quota.* Cost columns, changes of limit values, the preflight of command-line
  runtimes, `status` and `check` (reads), usage suspensions, the scoring of
  `ai_resource_manager`.
- Agents, model gateway, router, integrations and runtimes are remote calls and
  parsing of model output. The policy engine and the command classifier are pattern
  matching over commands without state. Git operations keep their state in git.
  Settings, credentials, evidence, governance, discovery, projects, memory, backlog
  and the console are sequential record keeping over SQLite; the migrations are the
  schema. Together they are most of the repository's lines: the models cover the
  parts where several writers meet.
- Native backends (Job Objects, process groups) are operating-system glue: the
  models take from them that a termination ends a tree, and that on POSIX a crash
  of the worker does not.
