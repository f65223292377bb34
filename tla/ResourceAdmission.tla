------------------------- MODULE ResourceAdmission -------------------------
(***************************************************************************)
(* The host resource governor: resource_leases, resource_violations, the   *)
(* jobs that wait for capacity and the native process trees that hold it,  *)
(* written concurrently by                                                 *)
(*   - worker processes going through ConcurrentWorker.run_once: peek,     *)
(*     admit, claim, execute, close, release (a worker that lost the       *)
(*     leadership goes on where it stands);                                *)
(*   - the inference branches of a job (BranchAdmission.reserve), which    *)
(*     borrow the job's reservation or take their own;                     *)
(*   - the sampler: recover_expired, reevaluate_waiting and the eviction   *)
(*     under memory pressure;                                              *)
(*   - the operator, who cancels jobs and releases reservations.           *)
(* A step is one transaction or one autocommit statement.  What the host   *)
(* probe reads (memory, disk, CPU) is a choice, `ok' or not; the rules     *)
(* about reservations already given are kept.  A worker id names one       *)
(* process, as local-worker-<uuid> does.                                   *)
(***************************************************************************)
EXTENDS Integers, FiniteSets

CONSTANTS Worker,       \* worker processes, in the order they may lead
          Job,          \* jobs; a job's id is the id of its execution
          Branch,       \* inference branches jobs may open
          JobClass,     \* workload class of each job
          BranchClass,  \* workload class of each branch
          Contained,    \* thread jobs: execute_job asks for their own reservation
          MaxLeases,    \* bound: rows of resource_leases told apart
          MaxHeavy,     \* resources.maxHeavyWorkloads
          MaxLight,     \* resources.maxLightWorkloads
          MaxCpu,       \* resources.maxCpuPercent
          MaxFaults,    \* bound: crashes, takeovers, late renewals, evictions,
                        \* operator releases and cancels
          None

(* WORKLOAD_PROFILES, the fields admission and borrowing tell apart: CPU   *)
(* in percent, memory in GiB, processes.                                   *)
Profile(heavy, light, essential, cpu, memory, procs) ==
    [heavy |-> heavy, light |-> light, essential |-> essential,
     cpu |-> cpu, memory |-> memory, procs |-> procs]

WORKLOAD_PROFILES ==
    [capture_session  |-> Profile(TRUE, FALSE, FALSE, 65, 18, 64),
     control_plane    |-> Profile(FALSE, FALSE, TRUE, 20, 2, 8),
     remote_llm_light |-> Profile(FALSE, TRUE, FALSE, 15, 2, 4),
     local_model_call |-> Profile(FALSE, TRUE, FALSE, 15, 2, 4),
     qa_light         |-> Profile(FALSE, TRUE, FALSE, 25, 4, 64),
     ops_light        |-> Profile(FALSE, TRUE, FALSE, 25, 4, 64),
     agent_cli        |-> Profile(TRUE, FALSE, FALSE, 40, 8, 64),
     browser_test     |-> Profile(TRUE, FALSE, FALSE, 40, 8, 64),
     local_gpu_model  |-> Profile(TRUE, FALSE, FALSE, 50, 16, 16),
     build_heavy      |-> Profile(TRUE, FALSE, FALSE, 65, 16, 32),
     unreal_editor    |-> Profile(TRUE, FALSE, FALSE, 70, 24, 64),
     unreal_cook      |-> Profile(TRUE, FALSE, FALSE, 80, 32, 64)]

Class == DOMAIN WORKLOAD_PROFILES
Lease == 1..MaxLeases
Exec  == Job \cup Branch

ASSUME ResourceAssumption ==
    /\ JobClass \in [Job -> Class]
    /\ BranchClass \in [Branch -> Class]
    /\ Contained \subseteq Job
    /\ Job \cap Branch = {}
    /\ {MaxLeases, MaxHeavy, MaxLight, MaxCpu, MaxFaults} \subseteq Nat
    /\ None \notin Worker \cup Exec

VARIABLES lease,      \* resource_leases
          violated,   \* leases with an unresolved resource_violation
          grace,      \* less than EVICTION_GRACE_SECONDS since the last one
          jobs,       \* jobs.status
          request,    \* owner in the job's last resource_wait decision
          root,       \* unfinished managed_processes: execution and lease
          leader,     \* the worker whose fencing token is current
          run,        \* what each worker is doing
          branch,     \* what each branch is doing
          batch,      \* the requests reevaluate_waiting has read
          owed,       \* leases a process recovery has still to release
          faults      \* history: faults so far

leaseVars == <<lease, violated>>
vars == <<leaseVars, grace, jobs, request, root, leader, run, branch, batch, owed, faults>>

Row == [state : {"live", "expired", "released"}, exec : Exec \cup {None},
        class : Class \cup {None}, owner : Worker \cup {None},
        parent : Job \cup {None}]

Released == [state |-> "released", exec |-> None, class |-> None, owner |-> None, parent |-> None]
NoRun    == [pc |-> "idle", job |-> None, lease |-> 0, lost |-> FALSE]
NoBranch == [pc |-> "idle", worker |-> None, lease |-> 0]

Executing == {"execute", "checked", "rooted"}

TypeOK ==
    /\ lease \in [Lease -> Row]
    /\ violated \subseteq Lease
    /\ grace \in BOOLEAN
    /\ jobs \in [Job -> {"queued", "resource_wait", "running", "completed",
                         "failed", "unreserved", "cancelled"}]
    /\ request \in [Job -> Worker \cup {None}]
    /\ root \subseteq [exec : Job, lease : Lease]
    /\ leader \in Worker
    /\ run \in [Worker -> [pc : {"idle", "peeked", "admitted", "close_ok", "close_failed",
                                 "close_unreserved", "release", "dead"} \cup Executing,
                           job : Job \cup {None}, lease : Lease \cup {0},
                           lost : BOOLEAN]]  \* history: see Losing
    /\ branch \in [Branch -> [pc : {"idle", "borrowed", "owned", "done"},
                              worker : Worker \cup {None}, lease : Lease \cup {0}]]
    /\ batch \subseteq Job \X Worker
    /\ owed \subseteq Lease
    /\ faults \in 0..MaxFaults

Init ==
    /\ lease = [l \in Lease |-> Released]
    /\ violated = {}
    /\ grace = FALSE
    /\ jobs = [j \in Job |-> "queued"]
    /\ request = [j \in Job |-> None]
    /\ root = {}
    /\ leader \in Worker
    /\ run = [w \in Worker |-> NoRun]
    /\ branch = [b \in Branch |-> NoBranch]
    /\ batch = {}
    /\ owed = {}
    /\ faults = 0
-----------------------------------------------------------------------------
(* ResourceRepository.                                                     *)

(* _native_lease_ids: a process not known to have finished holds its lease *)
(* and the leases of the branches of its execution.                        *)
Held(l) == \E r \in root : r.lease = l \/ (lease[l].parent = r.exec /\ lease[l].state # "released")

(* Mutant: an expired lease is free although its process runs.             *)
MutActiveUnexpired == {l \in Lease : lease[l].state = "live"}

(* active_leases. *)
Active == {l \in Lease : \/ lease[l].state = "live"
                         \/ lease[l].state = "expired" /\ Held(l)}

(* active_lease_for_execution. *)
Existing(e) == {l \in Lease : lease[l].state = "live" /\ lease[l].exec = e}

(* Mutant: the recovery does not compare expires_at.                       *)
MutRecoverableUnexpired == {l \in Lease : lease[l].state # "released" /\ ~Held(l)}

(* recover_expired. *)
Recoverable == {l \in Lease : lease[l].state = "expired" /\ ~Held(l)}

Freed(gone) == [l \in Lease |-> IF l \in gone THEN Released ELSE lease[l]]

(* Mutant: a lease is released under the process that holds it.            *)
MutReleaseHeld(l) ==
    /\ lease' = Freed({l})
    /\ violated' = violated \ {l}

(* Mutant: the violations of a released lease stay open.                   *)
MutReleaseKeepsViolation(l) ==
    /\ lease' = Freed(IF Held(l) THEN {} ELSE {l})
    /\ UNCHANGED violated

(* release: nothing while a native process holds the lease; the violations *)
(* of a lease that is released are resolved.                               *)
Freeable(l) == IF Held(l) THEN {} ELSE {l}

Release(l) ==
    /\ lease' = Freed(Freeable(l))
    /\ violated' = violated \ Freeable(l)

(* A released row keeps nothing that is read again.  Rows nothing refers   *)
(* to stand for the fresh ids of create_lease.                             *)
Fresh == {l \in Lease \ owed : /\ lease[l].state = "released" \/ l \in Recoverable
                               /\ \A w \in Worker : run[w].lease # l
                               /\ \A b \in Branch : branch[b].lease # l
                               /\ \A r \in root : r.lease # l}
-----------------------------------------------------------------------------
(* HostResourceGovernor.                                                   *)

ClassesOf(ls) == {lease[l].class : l \in ls}
CpuOf(ls)     == Cardinality({u \in ls \X (1..100) : u[2] <= WORKLOAD_PROFILES[lease[u[1]].class].cpu})
HeavyIn(ls)   == Cardinality({l \in ls : WORKLOAD_PROFILES[lease[l].class].heavy})
LightIn(ls)   == Cardinality({l \in ls : WORKLOAD_PROFILES[lease[l].class].light})

(* _decide: may class c be admitted beside the active leases `held', with  *)
(* the host below (ok) or above its thresholds?                            *)
Admissible(c, held, ok) ==
    LET p == WORKLOAD_PROFILES[c]
    IN  /\ CpuOf(held) + p.cpu <= MaxCpu
        /\ \/ p.essential
           \/ /\ ok
              /\ c = "unreal_cook" => ClassesOf(held) \subseteq {"control_plane"}
              /\ "unreal_cook" \notin ClassesOf(held)
              /\ c = "browser_test" => "build_heavy" \notin ClassesOf(held)
              /\ c = "build_heavy" => "browser_test" \notin ClassesOf(held)
              /\ p.heavy => HeavyIn(held) < MaxHeavy
              /\ p.light => LightIn(held) < MaxLight

NewRow(e, c, owner, parent) ==
    [state |-> "live", exec |-> e, class |-> c, owner |-> owner, parent |-> parent]

(* admit, up to the job's status: expired leases are recovered, an active  *)
(* lease of the execution is returned, else one is created or the request  *)
(* waits (0).                                                              *)
Given(e, c, ok) ==
    IF Existing(e) # {} THEN CHOOSE l \in Existing(e) : TRUE
    ELSE IF Admissible(c, Active, ok) THEN CHOOSE l \in Fresh : TRUE
    ELSE 0

Grant(e, c, owner, parent, ok) ==
    LET given   == Given(e, c, ok)
        created == given # 0 /\ Existing(e) = {}
    IN  /\ Fresh # {}
        /\ lease' = IF created THEN [Freed(Recoverable) EXCEPT ![given] = NewRow(e, c, owner, parent)]
                    ELSE Freed(Recoverable)
        /\ violated' = violated \ Recoverable

(* Mutant: the decision's status is written to the job.                    *)
MutSettleAdmitted(j, owner, given) ==
    IF Existing(j) # {} THEN UNCHANGED <<jobs, request>>
    ELSE /\ jobs' = [jobs EXCEPT ![j] = IF given = 0 THEN "resource_wait" ELSE "admitted"]
         /\ request' = [request EXCEPT ![j] = owner]

(* Mutant: an admitted job stays in resource_wait.                         *)
MutSettleStaysWaiting(j, owner, given) ==
    IF given # 0 THEN UNCHANGED <<jobs, request>>
    ELSE /\ jobs' = [jobs EXCEPT ![j] = IF @ = "queued" THEN "resource_wait" ELSE @]
         /\ request' = [request EXCEPT ![j] = owner]

(* _set_job_status and record_admission: an unchanged reason keeps the     *)
(* request first recorded.                                                 *)
Settle(j, owner, given) ==
    IF Existing(j) # {} THEN UNCHANGED <<jobs, request>>
    ELSE IF given # 0
    THEN /\ jobs' = [jobs EXCEPT ![j] = IF @ = "resource_wait" THEN "queued" ELSE @]
         /\ UNCHANGED request
    ELSE /\ jobs' = [jobs EXCEPT ![j] = IF @ = "queued" THEN "resource_wait" ELSE @]
         /\ \/ request' = [request EXCEPT ![j] = owner]
            \/ jobs[j] = "resource_wait" /\ UNCHANGED request

Admit(j, owner, ok) ==
    /\ Grant(j, JobClass[j], owner, None, ok)
    /\ Settle(j, owner, Given(j, JobClass[j], ok))

(* reevaluate_waiting reads the waiting requests, then admits one after    *)
(* the other, each in a transaction of its own and for the owner its       *)
(* request names; by then the request may be out of date.                  *)
Waiting == {j \in Job : jobs[j] = "resource_wait"}

ReadWaiting ==
    /\ batch = {}
    /\ Waiting # {}
    /\ batch' = {<<j, request[j]>> : j \in Waiting}
    /\ UNCHANGED <<leaseVars, grace, jobs, request, root, leader, run, branch, owed, faults>>

Reevaluate(j, ok) ==
    \E owner \in Worker :
        /\ <<j, owner>> \in batch
        /\ batch' = batch \ {<<j, owner>>}
        /\ Admit(j, owner, ok)
        /\ UNCHANGED <<grace, root, leader, run, branch, owed, faults>>

(* The sampler's recover_expired. *)
RecoverExpired ==
    /\ Recoverable # {}
    /\ lease' = Freed(Recoverable)
    /\ violated' = violated \ Recoverable
    /\ UNCHANGED <<grace, jobs, request, root, leader, run, branch, batch, owed, faults>>

(* violations_for_snapshot: below the hard floor one lease is evicted, and *)
(* no other before the grace has passed.                                   *)
Evict(l) ==
    /\ ~grace
    /\ faults < MaxFaults
    /\ faults' = faults + 1
    /\ l \in Active \ violated
    /\ ~WORKLOAD_PROFILES[lease[l].class].essential
    /\ violated' = violated \cup {l}
    /\ grace' = TRUE
    /\ UNCHANGED <<lease, jobs, request, root, leader, run, branch, batch, owed>>

GraceEnds ==
    /\ grace
    /\ grace' = FALSE
    /\ UNCHANGED <<leaseVars, jobs, request, root, leader, run, branch, batch, owed, faults>>

(* cancellation_reason of an execution. *)
Cancelled(e) == \E l \in violated : lease[l].exec = e /\ lease[l].state # "released"
-----------------------------------------------------------------------------
(* ConcurrentWorker.run_once, by the process w.                            *)

(* The runs that work on one of these leases note that it may go.          *)
Losing(ls) == [w \in Worker |-> IF run[w].lease \in ls THEN [run[w] EXCEPT !.lost = TRUE]
                                ELSE run[w]]

At(w, p) == run' = [run EXCEPT ![w].pc = p]
Leads(w) == leader = w

Peek(w) ==
    /\ run[w].pc = "idle"
    /\ Leads(w)
    /\ \E j \in Job : /\ jobs[j] = "queued"
                      /\ run' = [run EXCEPT ![w].pc = "peeked", ![w].job = j]
    /\ UNCHANGED <<leaseVars, grace, jobs, request, root, leader, branch, batch, owed, faults>>

AdmitJob(w, ok) ==
    /\ run[w].pc = "peeked"
    /\ Admit(run[w].job, w, ok)
    /\ LET given == Given(run[w].job, JobClass[run[w].job], ok)
       IN  run' = IF given = 0 THEN [run EXCEPT ![w] = NoRun]
                   ELSE [Losing({given}) EXCEPT ![w].pc = "admitted", ![w].lease = given,
                             ![w].lost = \E v \in Worker : run[v].lease = given]
    /\ UNCHANGED <<grace, root, leader, branch, batch, owed, faults>>

(* claim_next_job; a lost fence or a lost claim gives the lease back.      *)
Claim(w) ==
    LET j == run[w].job
    IN  /\ run[w].pc = "admitted"
        /\ IF Leads(w) /\ jobs[j] = "queued"
           THEN /\ jobs' = [jobs EXCEPT ![j] = "running"]
                /\ At(w, "execute")
                /\ UNCHANGED leaseVars
           ELSE /\ Release(run[w].lease)
                /\ run' = [run EXCEPT ![w] = NoRun]
                /\ UNCHANGED jobs
        /\ UNCHANGED <<grace, request, root, leader, branch, batch, owed, faults>>

(* execute_job: a thread job needs its own reservation, owned by w.        *)
CheckReservation(w) ==
    LET l == run[w].lease
    IN  /\ run[w].pc = "execute"
        /\ run[w].job \in Contained
        /\ ~(l \in Existing(run[w].job) /\ lease[l].owner = w)
        /\ At(w, "close_unreserved")
        /\ UNCHANGED <<leaseVars, grace, jobs, request, root, leader, branch, batch, owed, faults>>

(* ProcessSupervisorService.start: the fence, the cancellation and the lease*)
(* are checked first; _reserve_native_root looks only at other processes.  *)
StartCheck(w) ==
    LET l == run[w].lease
    IN  /\ run[w].pc = "execute"
        /\ run[w].job \in Contained => l \in Existing(run[w].job) /\ lease[l].owner = w
        /\ At(w, IF Leads(w) /\ ~Cancelled(run[w].job) /\ lease[l].state = "live"
                 THEN "checked" ELSE "close_failed")
        /\ UNCHANGED <<leaseVars, grace, jobs, request, root, leader, branch, batch, owed, faults>>

ReserveRoot(w) ==
    LET l == run[w].lease
    IN  /\ run[w].pc = "checked"
        /\ IF \E r \in root : r.lease = l
           THEN At(w, "close_failed") /\ UNCHANGED root
           ELSE /\ root' = root \cup {[exec |-> run[w].job, lease |-> l]}
                /\ At(w, "rooted")
        /\ UNCHANGED <<leaseVars, grace, jobs, request, leader, branch, batch, owed, faults>>

(* The worker that supervises the process of r died. *)
Orphaned(r) == \A w \in Worker : run[w].pc = "rooted" => run[w].lease # r.lease

(* The process ends, or is stopped because its execution is cancelled.     *)
RootEnds(r) ==
    /\ r \in root
    /\ ~Orphaned(r)
    /\ root' = root \ {r}
    /\ run' = [w \in Worker |->
                 IF run[w].pc = "rooted" /\ run[w].lease = r.lease
                 THEN [run[w] EXCEPT !.pc = IF Cancelled(r.exec) THEN "close_failed" ELSE "close_ok"]
                 ELSE run[w]]
    /\ UNCHANGED <<leaseVars, grace, jobs, request, leader, branch, batch, owed, faults>>

(* recover_managed_processes, by a worker in its cycle or by a launcher     *)
(* that starts: it stops what is left of a dead worker's process and       *)
(* finishes its row, then releases its lease in another transaction; by    *)
(* then the lease may be somebody else's.                                  *)
RecoverRoot(r) ==
    /\ r \in root
    /\ Orphaned(r)
    /\ root' = root \ {r}
    /\ owed' = owed \cup {r.lease}
    /\ UNCHANGED <<leaseVars, grace, jobs, request, leader, run, branch, batch, faults>>

ReleaseOrphan(l) ==
    /\ l \in owed
    /\ owed' = owed \ {l}
    /\ Release(l)
    /\ run' = Losing(Freeable(l))
    /\ UNCHANGED <<grace, jobs, request, root, leader, branch, batch, faults>>

(* _close_run, fenced; the finally of run_once follows.  A job's branches  *)
(* have returned by then.                                                  *)
Close(w) ==
    LET j  == run[w].job
        to == CASE run[w].pc = "close_ok"         -> "completed"
                [] run[w].pc = "close_unreserved" -> "unreserved"
                [] OTHER                          -> "failed"
    IN  /\ run[w].pc \in {"close_ok", "close_failed", "close_unreserved"}
        /\ \A b \in Branch : ~(branch[b].worker = w /\ branch[b].pc \in {"borrowed", "owned"})
        /\ jobs' = IF Leads(w) /\ jobs[j] = "running" THEN [jobs EXCEPT ![j] = to] ELSE jobs
        /\ At(w, "release")
        /\ UNCHANGED <<leaseVars, grace, request, root, leader, branch, batch, owed, faults>>

ReleaseOwn(w) ==
    /\ run[w].pc = "release"
    /\ Release(run[w].lease)
    /\ run' = [run EXCEPT ![w] = NoRun]
    /\ UNCHANGED <<grace, jobs, request, root, leader, branch, batch, owed, faults>>
-----------------------------------------------------------------------------
(* BranchAdmission.reserve: one branch at a time borrows the reservation   *)
(* of its job, the others take their own for the same owner.               *)

(* _verified_parent_lease. *)
ParentVerified(w) ==
    LET l == run[w].lease
    IN  /\ Leads(w)
        /\ ~Cancelled(run[w].job)
        /\ lease[l].state = "live"
        /\ lease[l].exec = run[w].job
        /\ lease[l].owner = w

(* _parent_covers: every cap of the parent's reservation is at least the   *)
(* child's, its GPU is lent to a local model of the same class only, and a *)
(* capture session lends no more than its execution part.                  *)
Covers(w, c) ==
    LET parent == lease[run[w].lease].class
        p == WORKLOAD_PROFILES[parent]
        q == WORKLOAD_PROFILES[c]
    IN  /\ c \in {"unreal_editor", "local_gpu_model"} => c = "local_gpu_model" /\ parent = c
        /\ p.cpu >= q.cpu /\ p.memory >= q.memory /\ p.procs >= q.procs
        /\ parent = "capture_session" => 26 >= q.cpu /\ 8 >= q.memory

Borrowed(w) == \E b \in Branch : branch[b].pc = "borrowed" /\ branch[b].worker = w

Borrow(b, w) ==
    /\ branch[b].pc = "idle"
    /\ run[w].pc \in Executing
    /\ ParentVerified(w)
    /\ Covers(w, BranchClass[b])
    /\ ~Borrowed(w)
    /\ branch' = [branch EXCEPT ![b] = [pc |-> "borrowed", worker |-> w, lease |-> run[w].lease]]
    /\ UNCHANGED <<leaseVars, grace, jobs, request, root, leader, run, batch, owed, faults>>

ReserveBranch(b, w, ok) ==
    /\ branch[b].pc = "idle"
    /\ run[w].pc \in Executing
    /\ ParentVerified(w)
    /\ ~Covers(w, BranchClass[b]) \/ Borrowed(w)
    /\ Grant(b, BranchClass[b], w, run[w].job, ok)
    /\ LET given == Given(b, BranchClass[b], ok)
       IN  /\ given # 0
           /\ branch' = [branch EXCEPT ![b] = [pc |-> "owned", worker |-> w, lease |-> given]]
    /\ UNCHANGED <<grace, jobs, request, root, leader, run, batch, owed, faults>>

(* The lock is given back, or finish_remote_branch drops the link to the   *)
(* parent execution and releases.                                          *)
EndBranch(b) ==
    LET l    == branch[b].lease
        free == ~\E r \in root : r.lease = l
    IN  /\ branch[b].pc \in {"borrowed", "owned"}
        /\ branch' = [branch EXCEPT ![b] = [NoBranch EXCEPT !.pc = "done"]]
        /\ IF branch[b].pc = "borrowed" THEN UNCHANGED leaseVars
           ELSE /\ lease' = [lease EXCEPT ![l] = IF free THEN Released
                                                 ELSE [@ EXCEPT !.parent = None]]
                /\ violated' = IF free THEN violated \ {l} ELSE violated
        /\ UNCHANGED <<grace, jobs, request, root, leader, run, batch, owed, faults>>
-----------------------------------------------------------------------------
(* Leadership, leases of jobs and of reservations, and the operator.       *)

Alive(w) == run[w].pc # "dead"

(* Another process takes the leadership over; the old one may be stalled.  *)
TakeOver(w) ==
    /\ Alive(w)
    /\ ~Leads(w)
    /\ faults < MaxFaults
    /\ faults' = faults + 1
    /\ leader' = w
    /\ UNCHANGED <<leaseVars, grace, jobs, request, root, run, branch, batch, owed>>

(* A worker process dies, with what its recovery has still to release;     *)
(* another one is alive to take over.                                      *)
Crash(w) ==
    /\ Alive(w)
    /\ faults < MaxFaults
    /\ faults' = faults + 1
    /\ \E v \in Worker \ {w} : Alive(v) /\ leader' = IF Leads(w) THEN v ELSE leader
    /\ run' = [run EXCEPT ![w] = [NoRun EXCEPT !.pc = "dead"]]
    /\ branch' = [b \in Branch |-> IF branch[b].worker = w THEN [NoBranch EXCEPT !.pc = "done"]
                                   ELSE branch[b]]
    /\ owed' \in SUBSET owed
    /\ UNCHANGED <<leaseVars, grace, jobs, request, root, batch>>

(* requeue_expired_jobs: the run's owner stopped renewing, and no process  *)
(* of the job is left.  A thread job may have started its durable          *)
(* execution, which is not repeated (JobLifecycle has the detail).         *)
Requeue(j) ==
    /\ jobs[j] = "running"
    /\ ~(run[leader].job = j /\ run[leader].pc \notin {"peeked", "admitted"})
    /\ ~\E r \in root : r.exec = j
    /\ \/ jobs' = [jobs EXCEPT ![j] = "queued"]
       \/ j \in Contained /\ jobs' = [jobs EXCEPT ![j] = "failed"]
    /\ UNCHANGED <<leaseVars, grace, request, root, leader, run, branch, batch, owed, faults>>

(* The worker's and the branch's heartbeats renew a lease for its owner    *)
(* only, the worker's only while it leads.                                 *)
Renewed(l) ==
    \/ \E w \in Worker : /\ run[w].lease = l /\ lease[l].owner = w /\ Leads(w)
                         /\ run[w].pc \in Executing \cup {"close_ok", "close_failed", "close_unreserved"}
    \/ \E b \in Branch : branch[b].pc = "owned" /\ branch[b].lease = l

Expired(l) ==
    /\ lease[l].state = "live"
    /\ lease' = [lease EXCEPT ![l].state = "expired"]
    /\ run' = Losing({l})
    /\ UNCHANGED <<violated, grace, jobs, request, root, leader, branch, batch, owed>>

(* A lease nobody renews expires; a renewed one when the renewal is late.  *)
Lapse(l) == ~Renewed(l) /\ Expired(l) /\ UNCHANGED faults

RenewalLate(l) ==
    /\ Renewed(l)
    /\ faults < MaxFaults
    /\ faults' = faults + 1
    /\ Expired(l)

(* DELETE of a reservation through the resources API. *)
OperatorRelease(l) ==
    /\ lease[l].state \in {"live", "expired"}
    /\ faults < MaxFaults
    /\ faults' = faults + 1
    /\ Release(l)
    /\ run' = Losing(Freeable(l))
    /\ UNCHANGED <<grace, jobs, request, root, leader, branch, batch, owed>>

CancelJob(j) ==
    /\ jobs[j] \in {"queued", "resource_wait"}
    /\ faults < MaxFaults
    /\ faults' = faults + 1
    /\ jobs' = [jobs EXCEPT ![j] = "cancelled"]
    /\ UNCHANGED <<leaseVars, grace, request, root, leader, run, branch, batch, owed>>
-----------------------------------------------------------------------------
WorkerStep(w) ==
    \/ Peek(w) \/ Claim(w) \/ CheckReservation(w) \/ StartCheck(w)
    \/ ReserveRoot(w) \/ Close(w) \/ ReleaseOwn(w)

Sampler ==
    \/ RecoverExpired \/ GraceEnds
    \/ ReadWaiting
    \/ \E j \in Job, ok \in BOOLEAN : Reevaluate(j, ok)
    \/ \E l \in Lease : Evict(l)

Next ==
    \/ Sampler
    \/ \E w \in Worker, ok \in BOOLEAN : AdmitJob(w, ok)
    \/ \E w \in Worker : WorkerStep(w) \/ TakeOver(w) \/ Crash(w)
    \/ \E b \in Branch, w \in Worker : Borrow(b, w) \/ \E ok \in BOOLEAN : ReserveBranch(b, w, ok)
    \/ \E b \in Branch : EndBranch(b)
    \/ \E r \in root : RootEnds(r) \/ RecoverRoot(r)
    \/ \E j \in Job : Requeue(j) \/ CancelJob(j)
    \/ \E l \in Lease : Lapse(l) \/ RenewalLate(l) \/ OperatorRelease(l) \/ ReleaseOrphan(l)

Spec == Init /\ [][Next]_vars

(* Processes end, branches return, leases nobody renews expire, the        *)
(* sampler keeps sampling, the leader keeps polling; the host is below its *)
(* thresholds again and again.                                             *)
FairSpec ==
    /\ Spec
    /\ WF_vars(RecoverExpired)
    /\ SF_vars(ReadWaiting)
    /\ \A j \in Job : SF_vars(Reevaluate(j, TRUE)) /\ WF_vars(Requeue(j))
    /\ \A w \in Worker : WF_vars(WorkerStep(w)) /\ SF_vars(AdmitJob(w, TRUE))
    /\ \A b \in Branch : WF_vars(EndBranch(b))
    /\ \A l \in Lease : WF_vars(Lapse(l)) /\ WF_vars(ReleaseOrphan(l))
    /\ WF_vars(\E r \in root : RootEnds(r) \/ RecoverRoot(r))
-----------------------------------------------------------------------------
(* Reservations that are committed: live, or expired under a process that  *)
(* still runs.                                                             *)
Committed == {l \in Lease : \/ lease[l].state = "live"
                            \/ lease[l].state = "expired" /\ \E r \in root : r.lease = l}

(* What the host is committed to stays within the policy, whatever the     *)
(* order of admissions, expiries, crashes and late releases: the heavy and *)
(* light slots, the exclusive cook, the CPU budget.                        *)
CapacityRespected ==
    LET cs == ClassesOf(Committed)
    IN  /\ HeavyIn(Committed) <= MaxHeavy
        /\ LightIn(Committed) <= MaxLight
        /\ CpuOf(Committed) <= MaxCpu
        /\ \A l \in Committed : lease[l].class = "unreal_cook" =>
              ClassesOf(Committed \ {l}) \subseteq {"control_plane"}
        /\ ~({"browser_test", "build_heavy"} \subseteq cs)

(* A job that waits has no active lease of its own: admit would return it  *)
(* without putting the job back in the queue.                              *)
WaitingHasNoLease == \A j \in Job : jobs[j] = "resource_wait" => Existing(j) = {}

(* A lease is never released under the native process that runs on it.     *)
NoReleaseUnderTree ==
    [][\A r \in root : lease[r.lease].state # "released" => lease'[r.lease].state # "released"]_vars

(* A job that executes keeps its reservation unless, while it worked on    *)
(* it, the reservation expired, the operator released it, another worker   *)
(* was given the same one, or the recovery of a dead worker's process,     *)
(* which had the same one, released it: nothing else takes it away.        *)
ReservationKept ==
    \A w \in Worker : run[w].pc \in Executing /\ lease[run[w].lease].state = "released" =>
                         run[w].lost

(* An eviction cancels only the execution that was evicted: no violation   *)
(* outlives the release of its lease.                                      *)
EvictionEndsWithLease == \A l \in violated : lease[l].state \in {"live", "expired"}

(* Every job comes to an end: waiting for capacity is not for ever.        *)
WaitEnds ==
    \A j \in Job : (jobs[j] = "resource_wait") ~>
                   (jobs[j] \in {"completed", "failed", "unreserved", "cancelled"})

(* An evicted reservation is given back. *)
EvictionFrees == \A l \in Lease : (l \in violated) ~> (l \notin violated)

(* Waiting for capacity is recoverable: no job fails for having waited.    *)
WaitIsRecoverable == \A j \in Job : jobs[j] # "unreserved"
=============================================================================
