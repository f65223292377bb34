----------------------- MODULE ResourceAdmissionProofs -----------------------
(***************************************************************************)
(* What the resource governor promises, proved for any number of workers,  *)
(* jobs, branches and lease rows and any policy.                           *)
(***************************************************************************)
EXTENDS ResourceAdmission, FiniteSetTheorems, TLAPS

(* TypeOK and what it rests on, by table.  A run past its peek names its   *)
(* job, one past its admission its lease, a branch that holds a            *)
(* reservation too; a reservation not released keeps its class and the     *)
(* execution it is for, and a job that waits the owner of its request.     *)
Runs == [pc : {"idle", "peeked", "admitted", "close_ok", "close_failed",
               "close_unreserved", "release", "dead"} \cup Executing,
         job : Job \cup {None}, lease : Lease \cup {0}, lost : BOOLEAN]
Branches == [pc : {"idle", "borrowed", "owned", "done"},
             worker : Worker \cup {None}, lease : Lease \cup {0}]
JobStatus == {"queued", "resource_wait", "running", "completed",
              "failed", "unreserved", "cancelled"}

RunsTyped ==
    /\ run \in [Worker -> Runs]
    /\ \A w \in Worker : /\ run[w].pc \notin {"idle", "dead"} => run[w].job \in Job
                         /\ run[w].pc \notin {"idle", "dead", "peeked"} => run[w].lease \in Lease
BranchesTyped ==
    /\ branch \in [Branch -> Branches]
    /\ \A b \in Branch : branch[b].pc \in {"borrowed", "owned"} => branch[b].lease \in Lease
RowsTyped ==
    /\ lease \in [Lease -> Row]
    /\ \A l \in Lease : lease[l].state # "released" =>
                             lease[l].class \in Class /\ lease[l].exec \in Exec
JobsTyped ==
    /\ jobs \in [Job -> JobStatus]
    /\ request \in [Job -> Worker \cup {None}]
    /\ \A j \in Job : jobs[j] = "resource_wait" => request[j] \in Worker
RestTyped ==
    /\ violated \subseteq Lease
    /\ grace \in BOOLEAN
    /\ root \subseteq [exec : Job, lease : Lease]
    /\ leader \in Worker
    /\ batch \subseteq Job \X Worker
    /\ owed \subseteq Lease
    /\ faults \in 0..MaxFaults

Typed == RunsTyped /\ BranchesTyped /\ RowsTyped /\ JobsTyped /\ RestTyped

(* Typed is TypeOK and more. *)
LEMMA TypedMore == Typed => TypeOK
  BY DEF Typed, RunsTyped, BranchesTyped, RowsTyped, JobsTyped, RestTyped, TypeOK,
         Runs, Branches, JobStatus

(* Every workload class of WORKLOAD_PROFILES: its CPU is a percentage, and *)
(* control_plane is the only essential one, neither heavy nor light.       *)
LEMMA Profiles ==
    ASSUME NEW c \in Class
    PROVE  /\ WORKLOAD_PROFILES[c].cpu \in 1..100
           /\ WORKLOAD_PROFILES[c].heavy \in BOOLEAN
           /\ WORKLOAD_PROFILES[c].light \in BOOLEAN
           /\ WORKLOAD_PROFILES[c].essential => c = "control_plane"
           /\ c = "control_plane" => ~WORKLOAD_PROFILES[c].heavy /\ ~WORKLOAD_PROFILES[c].light
<1>1. c \in {"capture_session", "control_plane", "remote_llm_light", "local_model_call",
             "qa_light", "ops_light", "agent_cli", "browser_test", "local_gpu_model",
             "build_heavy", "unreal_editor", "unreal_cook"}
  BY DEF Class, WORKLOAD_PROFILES
<1> DEFINE p == WORKLOAD_PROFILES[c]
<1>2. c = "capture_session" => p.cpu = 65 /\ p.heavy = TRUE /\ p.light = FALSE /\ p.essential = FALSE
  BY DEF WORKLOAD_PROFILES, Profile
<1>3. c = "control_plane" => p.cpu = 20 /\ p.heavy = FALSE /\ p.light = FALSE /\ p.essential = TRUE
  BY DEF WORKLOAD_PROFILES, Profile
<1>4. c = "remote_llm_light" => p.cpu = 15 /\ p.heavy = FALSE /\ p.light = TRUE /\ p.essential = FALSE
  BY DEF WORKLOAD_PROFILES, Profile
<1>5. c = "local_model_call" => p.cpu = 15 /\ p.heavy = FALSE /\ p.light = TRUE /\ p.essential = FALSE
  BY DEF WORKLOAD_PROFILES, Profile
<1>6. c = "qa_light" => p.cpu = 25 /\ p.heavy = FALSE /\ p.light = TRUE /\ p.essential = FALSE
  BY DEF WORKLOAD_PROFILES, Profile
<1>7. c = "ops_light" => p.cpu = 25 /\ p.heavy = FALSE /\ p.light = TRUE /\ p.essential = FALSE
  BY DEF WORKLOAD_PROFILES, Profile
<1>8. c = "agent_cli" => p.cpu = 40 /\ p.heavy = TRUE /\ p.light = FALSE /\ p.essential = FALSE
  BY DEF WORKLOAD_PROFILES, Profile
<1>9. c = "browser_test" => p.cpu = 40 /\ p.heavy = TRUE /\ p.light = FALSE /\ p.essential = FALSE
  BY DEF WORKLOAD_PROFILES, Profile
<1>10. c = "local_gpu_model" => p.cpu = 50 /\ p.heavy = TRUE /\ p.light = FALSE /\ p.essential = FALSE
  BY DEF WORKLOAD_PROFILES, Profile
<1>11. c = "build_heavy" => p.cpu = 65 /\ p.heavy = TRUE /\ p.light = FALSE /\ p.essential = FALSE
  BY DEF WORKLOAD_PROFILES, Profile
<1>12. c = "unreal_editor" => p.cpu = 70 /\ p.heavy = TRUE /\ p.light = FALSE /\ p.essential = FALSE
  BY DEF WORKLOAD_PROFILES, Profile
<1>13. c = "unreal_cook" => p.cpu = 80 /\ p.heavy = TRUE /\ p.light = FALSE /\ p.essential = FALSE
  BY DEF WORKLOAD_PROFILES, Profile
<1> HIDE DEF p
<1>14. p.cpu \in 1..100
  BY <1>1, <1>2, <1>3, <1>4, <1>5, <1>6, <1>7, <1>8, <1>9, <1>10, <1>11, <1>12, <1>13
<1>15. p.heavy \in BOOLEAN
  BY <1>1, <1>2, <1>3, <1>4, <1>5, <1>6, <1>7, <1>8, <1>9, <1>10, <1>11, <1>12, <1>13
<1>16. p.light \in BOOLEAN
  BY <1>1, <1>2, <1>3, <1>4, <1>5, <1>6, <1>7, <1>8, <1>9, <1>10, <1>11, <1>12, <1>13
<1>17. p.essential => c = "control_plane"
  BY <1>1, <1>2, <1>3, <1>4, <1>5, <1>6, <1>7, <1>8, <1>9, <1>10, <1>11, <1>12, <1>13
<1> QED
  BY <1>3, <1>14, <1>15, <1>16, <1>17 DEF p

(* admit gives the execution's active lease back, or a fresh one after an  *)
(* admissible decision, or none.                                           *)
LEMMA GivenCases ==
    ASSUME NEW e, NEW c, NEW ok, Fresh # {}
    PROVE  \/ /\ Existing(e) # {}
              /\ Given(e, c, ok) \in Existing(e)
           \/ /\ Existing(e) = {}
              /\ Given(e, c, ok) \in Fresh
              /\ Admissible(c, Active, ok)
           \/ /\ Existing(e) = {}
              /\ Given(e, c, ok) = 0
  BY DEF Given

(* A row of resource_leases is a number from 1 on: 0 stands for no lease.  *)
LEMMA LeaseNotZero == 0 \notin Lease /\ Lease \subseteq Nat
  BY ResourceAssumption DEF Lease

(* The policy and the bounds are numbers. *)
LEMMA Bounds ==
    MaxLeases \in Nat /\ MaxHeavy \in Nat /\ MaxLight \in Nat /\ MaxCpu \in Nat /\ MaxFaults \in Nat
  BY ResourceAssumption

(* What recover_expired and release write. *)
LEMMA FreedRows ==
    ASSUME TypeOK, NEW gone
    PROVE  /\ Freed(gone) \in [Lease -> Row]
           /\ \A l \in Lease : Freed(gone)[l] = IF l \in gone THEN Released ELSE lease[l]
  BY DEF TypeOK, Freed, Row, Released

(* What the transaction of admit writes to resource_leases: it frees what  *)
(* recover_expired finds and inserts at most one row, the given one.       *)
LEMMA GrantRows ==
    ASSUME TypeOK, NEW e \in Exec, NEW c \in Class, NEW owner \in Worker,
           NEW parent \in Job \cup {None}, NEW ok, Grant(e, c, owner, parent, ok)
    PROVE  /\ lease' \in [Lease -> Row]
           /\ \A l \in Lease :
                 lease'[l] = IF Existing(e) = {} /\ l = Given(e, c, ok)
                             THEN NewRow(e, c, owner, parent)
                             ELSE IF l \in Recoverable THEN Released ELSE lease[l]
           /\ violated' = violated \ Recoverable
           /\ Given(e, c, ok) \in Lease \cup {0}
           /\ Fresh # {}
<1>1. Fresh # {}
  BY DEF Grant
<1>2. Given(e, c, ok) \in Lease \cup {0}
  BY <1>1, GivenCases DEF Existing, Fresh
<1>3. /\ Freed(Recoverable) \in [Lease -> Row]
      /\ \A l \in Lease : Freed(Recoverable)[l] = IF l \in Recoverable THEN Released ELSE lease[l]
  BY FreedRows
<1>4. NewRow(e, c, owner, parent) \in Row
  BY DEF NewRow, Row
<1>5. lease' = IF Given(e, c, ok) # 0 /\ Existing(e) = {}
               THEN [Freed(Recoverable) EXCEPT ![Given(e, c, ok)] = NewRow(e, c, owner, parent)]
               ELSE Freed(Recoverable)
  BY DEF Grant
<1>6. violated' = violated \ Recoverable
  BY DEF Grant
<1> QED
  BY <1>1, <1>2, <1>3, <1>4, <1>5, <1>6, LeaseNotZero

(* The program starts in a typed state. *)
LEMMA TypeInit == Init => Typed
<1> SUFFICES ASSUME Init PROVE Typed
  OBVIOUS
<1>1. Released \in Row /\ Released.state = "released"
  BY DEF Released, Row
<1>2. RowsTyped
  BY <1>1 DEF Init, RowsTyped
<1>3. RunsTyped
  BY DEF Init, RunsTyped, Runs, NoRun
<1>4. BranchesTyped
  BY DEF Init, BranchesTyped, Branches, NoBranch
<1>5. JobsTyped
  BY DEF Init, JobsTyped, JobStatus
<1>6. RestTyped
  <2>1. faults \in 0..MaxFaults
    BY Bounds DEF Init
  <2> QED
    BY <2>1 DEF Init, RestTyped
<1> QED
  BY <1>2, <1>3, <1>4, <1>5, <1>6 DEF Typed

(* The reservation a release writes: typed, and never a new one.           *)
LEMMA ReleaseRows ==
    ASSUME TypeOK, NEW l, Release(l)
    PROVE  /\ lease' \in [Lease -> Row]
           /\ \A k \in Lease : lease'[k] = IF k = l /\ ~Held(l) THEN Released ELSE lease[k]
           /\ violated' = violated \ (IF Held(l) THEN {} ELSE {l})
  BY FreedRows DEF Release, Freeable

(* The same for admit, called for a job. *)
LEMMA AdmitRows ==
    ASSUME TypeOK, NEW j \in Job, NEW owner \in Worker, NEW ok, Admit(j, owner, ok)
    PROVE  /\ lease' \in [Lease -> Row]
           /\ \A l \in Lease :
                 lease'[l] = IF Existing(j) = {} /\ l = Given(j, JobClass[j], ok)
                             THEN NewRow(j, JobClass[j], owner, None)
                             ELSE IF l \in Recoverable THEN Released ELSE lease[l]
           /\ violated' = violated \ Recoverable
           /\ Given(j, JobClass[j], ok) \in Lease \cup {0}
           /\ Fresh # {}
<1>1. JobClass[j] \in Class /\ j \in Exec /\ None \in Job \cup {None}
  BY ResourceAssumption DEF Exec
<1>2. PICK c \in Class : c = JobClass[j]
  BY <1>1
<1>3. Grant(j, c, owner, None, ok)
  BY <1>2 DEF Admit
<1>4. /\ lease' \in [Lease -> Row]
      /\ \A l \in Lease :
            lease'[l] = IF Existing(j) = {} /\ l = Given(j, c, ok)
                        THEN NewRow(j, c, owner, None)
                        ELSE IF l \in Recoverable THEN Released ELSE lease[l]
      /\ violated' = violated \ Recoverable
      /\ Given(j, c, ok) \in Lease \cup {0}
      /\ Fresh # {}
  BY <1>1, <1>3, GrantRows
<1> QED
  BY <1>2, <1>4

(* admit leaves the requests typed: a job that waits has an owner to wait  *)
(* for.                                                                    *)
LEMMA AdmitTypes ==
    ASSUME Typed, NEW j \in Job, NEW owner \in Worker, NEW ok, Admit(j, owner, ok)
    PROVE  /\ RowsTyped'
           /\ violated' \subseteq violated
           /\ jobs' \in [Job -> JobStatus]
           /\ request' \in [Job -> Worker \cup {None}]
           /\ \A i \in Job : jobs'[i] = "resource_wait" => request'[i] \in Worker
           /\ Given(j, JobClass[j], ok) \in Lease \cup {0}
<1>1. /\ lease' \in [Lease -> Row]
      /\ \A l \in Lease :
            lease'[l] = IF Existing(j) = {} /\ l = Given(j, JobClass[j], ok)
                        THEN NewRow(j, JobClass[j], owner, None)
                        ELSE IF l \in Recoverable THEN Released ELSE lease[l]
      /\ violated' = violated \ Recoverable
      /\ Given(j, JobClass[j], ok) \in Lease \cup {0}
  BY AdmitRows, TypedMore
<1>2. \A l \in Lease : lease'[l].state # "released" =>
         lease'[l].class \in Class /\ lease'[l].exec \in Exec
  BY <1>1, ResourceAssumption DEF Typed, RowsTyped, NewRow, Released, Exec
<1>3. Settle(j, owner, Given(j, JobClass[j], ok))
  BY DEF Admit
<1>4. /\ jobs' \in [Job -> JobStatus]
      /\ request' \in [Job -> Worker \cup {None}]
      /\ \A i \in Job : jobs'[i] = "resource_wait" => request'[i] \in Worker
  BY <1>3 DEF Settle, Typed, JobsTyped, JobStatus
<1> QED
  BY <1>1, <1>2, <1>4 DEF RowsTyped

(* The same for the reservation of a branch, which is made for the owner   *)
(* of its job's reservation.                                               *)
LEMMA BranchRows ==
    ASSUME Typed, NEW b \in Branch, NEW w \in Worker, NEW ok, ReserveBranch(b, w, ok)
    PROVE  /\ lease' \in [Lease -> Row]
           /\ \A l \in Lease :
                 lease'[l] = IF Existing(b) = {} /\ l = Given(b, BranchClass[b], ok)
                             THEN NewRow(b, BranchClass[b], w, run[w].job)
                             ELSE IF l \in Recoverable THEN Released ELSE lease[l]
           /\ violated' = violated \ Recoverable
           /\ Given(b, BranchClass[b], ok) \in Lease
           /\ branch' = [branch EXCEPT ![b] = [pc |-> "owned", worker |-> w,
                                              lease |-> Given(b, BranchClass[b], ok)]]
           /\ Fresh # {}
           /\ BranchClass[b] \in Class /\ b \in Exec
<1>1. BranchClass[b] \in Class /\ b \in Exec
  BY ResourceAssumption DEF Exec
<1>2. PICK c \in Class : c = BranchClass[b]
  BY <1>1
<1>3. PICK p \in Job \cup {None} : p = run[w].job
  BY DEF Typed, RunsTyped, Runs
<1>4. Grant(b, c, w, p, ok)
  BY <1>2, <1>3 DEF ReserveBranch
<1>5. /\ lease' \in [Lease -> Row]
      /\ \A l \in Lease :
            lease'[l] = IF Existing(b) = {} /\ l = Given(b, c, ok)
                        THEN NewRow(b, c, w, p)
                        ELSE IF l \in Recoverable THEN Released ELSE lease[l]
      /\ violated' = violated \ Recoverable
      /\ Given(b, c, ok) \in Lease \cup {0}
      /\ Fresh # {}
  BY <1>1, <1>4, GrantRows, TypedMore
<1>6. /\ Given(b, BranchClass[b], ok) # 0
      /\ branch' = [branch EXCEPT ![b] = [pc |-> "owned", worker |-> w,
                                         lease |-> Given(b, BranchClass[b], ok)]]
  BY DEF ReserveBranch
<1> QED
  BY <1>1, <1>2, <1>3, <1>5, <1>6

(* The runs that note a loss are otherwise as they were. *)
LEMMA LosingRuns ==
    ASSUME TypeOK, NEW ls
    PROVE  /\ Losing(ls) \in [Worker -> Runs]
           /\ \A w \in Worker : /\ Losing(ls)[w].pc = run[w].pc
                                /\ Losing(ls)[w].job = run[w].job
                                /\ Losing(ls)[w].lease = run[w].lease
                                /\ Losing(ls)[w].lost = (run[w].lost \/ run[w].lease \in ls)
<1>1. run \in [Worker -> Runs]
  BY DEF TypeOK, Runs
<1>2. ASSUME NEW w \in Worker
      PROVE  /\ Losing(ls)[w] \in Runs
             /\ Losing(ls)[w].pc = run[w].pc
             /\ Losing(ls)[w].job = run[w].job
             /\ Losing(ls)[w].lease = run[w].lease
             /\ Losing(ls)[w].lost = (run[w].lost \/ run[w].lease \in ls)
  <2>1. run[w] \in Runs
    BY <1>1
  <2>2. CASE run[w].lease \in ls
    <3>1. Losing(ls)[w] = [run[w] EXCEPT !.lost = TRUE]
      BY <2>2 DEF Losing
    <3> QED
      BY <2>1, <2>2, <3>1 DEF Runs
  <2>3. CASE run[w].lease \notin ls
    <3>1. Losing(ls)[w] = run[w]
      BY <2>3 DEF Losing
    <3>2. run[w].lost \in BOOLEAN
      BY <2>1 DEF Runs
    <3> QED
      BY <2>1, <2>3, <3>1, <3>2
  <2> QED
    BY <2>2, <2>3
<1>3. Losing(ls) = [w \in Worker |-> Losing(ls)[w]]
  BY DEF Losing
<1> QED
  BY <1>2, <1>3

(* An expired lease: only its state changes. *)
LEMMA ExpiredRows ==
    ASSUME TypeOK, NEW l \in Lease, Expired(l)
    PROVE  /\ lease' \in [Lease -> Row]
           /\ \A k \in Lease : /\ lease'[k].state = IF k = l THEN "expired" ELSE lease[k].state
                               /\ lease'[k].exec = lease[k].exec
                               /\ lease'[k].class = lease[k].class
                               /\ lease'[k].owner = lease[k].owner
                               /\ lease'[k].parent = lease[k].parent
           /\ lease[l].state = "live"
  BY DEF TypeOK, Expired, Row

(* The steps that write resource_leases; violations are also opened by an  *)
(* eviction.                                                               *)
LEMMA LeaseSteps ==
    [Next]_vars =>
        \/ UNCHANGED <<lease, violated>>
        \/ \E l \in Lease : Evict(l)
        \/ RecoverExpired
        \/ \E j \in Job, ok \in BOOLEAN : Reevaluate(j, ok)
        \/ \E w \in Worker, ok \in BOOLEAN : AdmitJob(w, ok)
        \/ \E w \in Worker : Claim(w) \/ ReleaseOwn(w)
        \/ \E b \in Branch, w \in Worker, ok \in BOOLEAN : ReserveBranch(b, w, ok)
        \/ \E b \in Branch : EndBranch(b)
        \/ \E l \in Lease : Lapse(l) \/ RenewalLate(l) \/ OperatorRelease(l) \/ ReleaseOrphan(l)
  BY DEF Next, Sampler, WorkerStep, vars, leaseVars, GraceEnds, ReadWaiting, Peek,
         CheckReservation, StartCheck, ReserveRoot, Close, RootEnds, RecoverRoot, Borrow, TakeOver,
         Crash, Requeue, CancelJob

(* The steps that move a worker. *)
LEMMA RunSteps ==
    [Next]_vars =>
        \/ UNCHANGED run
        \/ \E w \in Worker, ok \in BOOLEAN : AdmitJob(w, ok)
        \/ \E w \in Worker : WorkerStep(w) \/ Crash(w)
        \/ \E r \in root : RootEnds(r)
        \/ \E l \in Lease : Lapse(l) \/ RenewalLate(l) \/ OperatorRelease(l) \/ ReleaseOrphan(l)
  BY DEF Next, Sampler, vars, GraceEnds, ReadWaiting, RecoverExpired, Reevaluate, Evict,
         Borrow, ReserveBranch, EndBranch, TakeOver, RecoverRoot, Requeue, CancelJob

(* The steps that move a branch. *)
LEMMA BranchSteps ==
    [Next]_vars =>
        \/ UNCHANGED branch
        \/ \E b \in Branch, w \in Worker : Borrow(b, w) \/ \E ok \in BOOLEAN : ReserveBranch(b, w, ok)
        \/ \E b \in Branch : EndBranch(b)
        \/ \E w \in Worker : Crash(w)
  BY DEF Next, Sampler, WorkerStep, vars, GraceEnds, ReadWaiting, RecoverExpired, Reevaluate,
         Evict, Peek, AdmitJob, Claim, CheckReservation, StartCheck, ReserveRoot, Close,
         ReleaseOwn, RootEnds, RecoverRoot, TakeOver, Requeue, CancelJob, Lapse, RenewalLate,
         Expired, OperatorRelease, ReleaseOrphan

(* The steps that write the status of a job. *)
LEMMA JobSteps ==
    [Next]_vars =>
        \/ UNCHANGED <<jobs, request>>
        \/ \E j \in Job, ok \in BOOLEAN : Reevaluate(j, ok)
        \/ \E w \in Worker, ok \in BOOLEAN : AdmitJob(w, ok)
        \/ \E w \in Worker : Claim(w) \/ Close(w)
        \/ \E j \in Job : Requeue(j) \/ CancelJob(j)
  BY DEF Next, Sampler, WorkerStep, vars, GraceEnds, ReadWaiting, RecoverExpired, Evict,
         Peek, CheckReservation, StartCheck, ReserveRoot, ReleaseOwn, RootEnds, RecoverRoot,
         Borrow, ReserveBranch, EndBranch, TakeOver, Crash, Lapse, RenewalLate, Expired,
         OperatorRelease, ReleaseOrphan

(* resource_leases keeps its types. *)
LEMMA RowsStep == Typed /\ [Next]_vars => RowsTyped'
<1> SUFFICES ASSUME Typed, [Next]_vars PROVE RowsTyped'
  OBVIOUS
<1>0. TypeOK /\ RowsTyped /\ Released \in Row /\ Released.state = "released"
  BY TypedMore DEF Typed, Released, Row
<1>1. CASE UNCHANGED <<lease, violated>>
  BY <1>0, <1>1 DEF RowsTyped
<1>2. ASSUME NEW l \in Lease, Evict(l) PROVE RowsTyped'
  BY <1>0, <1>2 DEF Evict, RowsTyped
<1>3. CASE RecoverExpired
  BY <1>0, <1>3, FreedRows DEF RecoverExpired, RowsTyped
<1>4. ASSUME NEW j \in Job, NEW ok \in BOOLEAN, Reevaluate(j, ok) PROVE RowsTyped'
  BY <1>4, AdmitTypes DEF Reevaluate
<1>5. ASSUME NEW w \in Worker, NEW ok \in BOOLEAN, AdmitJob(w, ok) PROVE RowsTyped'
  <2>1. run[w].job \in Job
    BY <1>5 DEF AdmitJob, Typed, RunsTyped
  <2> QED
    BY <1>5, <2>1, AdmitTypes DEF AdmitJob
<1>6. ASSUME NEW w \in Worker, Claim(w) \/ ReleaseOwn(w) PROVE RowsTyped'
  <2>1. CASE Release(run[w].lease)
    BY <1>0, <2>1, ReleaseRows DEF RowsTyped
  <2>2. CASE UNCHANGED leaseVars
    BY <1>0, <2>2 DEF RowsTyped, leaseVars
  <2> QED
    BY <1>6, <2>1, <2>2 DEF Claim, ReleaseOwn
<1>7. ASSUME NEW b \in Branch, NEW w \in Worker, NEW ok \in BOOLEAN, ReserveBranch(b, w, ok)
      PROVE  RowsTyped'
  <2>1. PICK row : row = NewRow(b, BranchClass[b], w, run[w].job)
    OBVIOUS
  <2>2. row.class \in Class /\ row.exec \in Exec
    BY <1>7, <2>1, BranchRows DEF NewRow
  <2>3. /\ lease' \in [Lease -> Row]
        /\ \A l \in Lease : lease'[l] \in {row, Released, lease[l]}
    BY <1>7, <2>1, BranchRows
  <2> QED
    BY <1>0, <2>2, <2>3 DEF RowsTyped
<1>8. ASSUME NEW b \in Branch, EndBranch(b) PROVE RowsTyped'
  <2>1. ASSUME NEW l \in Lease PROVE [lease[l] EXCEPT !.parent = None] \in Row
    BY <1>0 DEF RowsTyped, Row
  <2>2. \A l \in Lease : lease'[l] \in {lease[l], Released, [lease[l] EXCEPT !.parent = None]}
    BY <1>0, <1>8 DEF EndBranch, RowsTyped, leaseVars
  <2>3. lease' \in [Lease -> Row]
    BY <1>0, <1>8, <2>1 DEF EndBranch, RowsTyped, leaseVars
  <2>4. ASSUME NEW l \in Lease
        PROVE  /\ [lease[l] EXCEPT !.parent = None].state = lease[l].state
               /\ [lease[l] EXCEPT !.parent = None].class = lease[l].class
               /\ [lease[l] EXCEPT !.parent = None].exec = lease[l].exec
    BY <1>0 DEF RowsTyped, Row
  <2> QED
    BY <1>0, <2>2, <2>3, <2>4 DEF RowsTyped
<1>9. ASSUME NEW l \in Lease, Lapse(l) \/ RenewalLate(l) PROVE RowsTyped'
  <2>1. Expired(l)
    BY <1>9 DEF Lapse, RenewalLate
  <2> QED
    BY <1>0, <2>1, ExpiredRows DEF RowsTyped
<1>10. ASSUME NEW l \in Lease, OperatorRelease(l) \/ ReleaseOrphan(l) PROVE RowsTyped'
  BY <1>0, <1>10, ReleaseRows DEF OperatorRelease, ReleaseOrphan, RowsTyped
<1> QED
  BY <1>1, <1>2, <1>3, <1>4, <1>5, <1>6, <1>7, <1>8, <1>9, <1>10, LeaseSteps

(* The workers' runs keep theirs. *)
LEMMA RunsStep == Typed /\ [Next]_vars => RunsTyped'
<1> SUFFICES ASSUME Typed, [Next]_vars PROVE RunsTyped'
  OBVIOUS
<1>0. TypeOK /\ RunsTyped /\ NoRun \in Runs
  BY TypedMore DEF Typed, NoRun, Runs
<1>1. CASE UNCHANGED run
  BY <1>0, <1>1 DEF RunsTyped
<1>2. ASSUME NEW w \in Worker, NEW ok \in BOOLEAN, AdmitJob(w, ok) PROVE RunsTyped'
  <2>1. PICK given \in Lease \cup {0} : given = Given(run[w].job, JobClass[run[w].job], ok)
    <3>1. run[w].job \in Job /\ Admit(run[w].job, w, ok)
      BY <1>0, <1>2 DEF AdmitJob, RunsTyped
    <3> QED
      BY <3>1, AdmitTypes
  <2>2. CASE given = 0
    BY <1>0, <1>2, <2>1, <2>2 DEF AdmitJob, RunsTyped, NoRun
  <2>3. CASE given # 0
    <3>1. PICK old \in [Worker -> Runs] :
             /\ old = Losing({given})
             /\ \A v \in Worker : old[v].pc = run[v].pc /\ old[v].job = run[v].job
                                /\ old[v].lease = run[v].lease
      BY <1>0, LosingRuns
    <3>2. PICK lost \in BOOLEAN :
             run' = [old EXCEPT ![w].pc = "admitted", ![w].lease = given, ![w].lost = lost]
      BY <1>2, <2>1, <2>3, <3>1 DEF AdmitJob
    <3>3. run[w].pc = "peeked" /\ given \in Lease
      BY <1>2, <2>3 DEF AdmitJob
    <3>4. old[w] \in Runs
      BY <3>1
    <3>5. run'[w] = [pc |-> "admitted", job |-> old[w].job, lease |-> given, lost |-> lost]
      BY <3>2, <3>4 DEF Runs
    <3>6. run'[w] \in Runs
      BY <3>3, <3>4, <3>5 DEF Runs
    <3>7. run' \in [Worker -> Runs] /\ \A v \in Worker \ {w} : run'[v] = old[v]
      BY <3>1, <3>2, <3>6
    <3>8. run[w].job \in Job
      BY <1>0, <3>3 DEF RunsTyped
    <3>9. run'[w].job \in Job /\ run'[w].lease \in Lease
      <4>1. run'[w].job = old[w].job /\ run'[w].lease = given
        BY <3>5
      <4> QED
        BY <3>1, <3>3, <3>8, <4>1
    <3> QED
      BY <1>0, <3>1, <3>7, <3>9 DEF RunsTyped
  <2> QED
    BY <2>2, <2>3
<1>3. ASSUME NEW w \in Worker, Peek(w) PROVE RunsTyped'
  <2>1. PICK j \in Job : run' = [run EXCEPT ![w].pc = "peeked", ![w].job = j]
    BY <1>3 DEF Peek
  <2> QED
    BY <1>0, <2>1 DEF RunsTyped, Runs
<1>4. ASSUME NEW w \in Worker, Claim(w) \/ ReleaseOwn(w) \/ Crash(w) PROVE RunsTyped'
  <2>1. CASE run' = [run EXCEPT ![w] = NoRun]
    BY <1>0, <2>1 DEF RunsTyped, NoRun
  <2>2. CASE run[w].pc = "admitted" /\ At(w, "execute")
    BY <1>0, <2>2 DEF RunsTyped, Runs, At, Executing
  <2>3. CASE run' = [run EXCEPT ![w] = [NoRun EXCEPT !.pc = "dead"]]
    BY <1>0, <2>3 DEF RunsTyped, NoRun, Runs
  <2> QED
    BY <1>4, <2>1, <2>2, <2>3 DEF Claim, ReleaseOwn, Crash
<1>5. ASSUME NEW w \in Worker, CheckReservation(w) \/ StartCheck(w) \/ ReserveRoot(w) \/ Close(w)
      PROVE  RunsTyped'
  <2>1. /\ run[w].pc \notin {"idle", "dead", "peeked"}
        /\ \E p \in {"checked", "rooted", "close_failed", "close_unreserved", "release"} : At(w, p)
    BY <1>5 DEF CheckReservation, StartCheck, ReserveRoot, Close
  <2> QED
    BY <1>0, <2>1 DEF RunsTyped, Runs, At, Executing
<1>6. ASSUME NEW r \in root, RootEnds(r) PROVE RunsTyped'
  BY <1>0, <1>6 DEF RootEnds, RunsTyped, Runs, Executing
<1>7. ASSUME NEW l \in Lease,
             Lapse(l) \/ RenewalLate(l) \/ OperatorRelease(l) \/ ReleaseOrphan(l)
      PROVE  RunsTyped'
  <2>1. \E ls : run' = Losing(ls)
    BY <1>7 DEF Lapse, RenewalLate, OperatorRelease, ReleaseOrphan, Expired
  <2> QED
    BY <1>0, <2>1, LosingRuns DEF RunsTyped
<1> QED
  BY <1>1, <1>2, <1>3, <1>4, <1>5, <1>6, <1>7, RunSteps DEF WorkerStep

(* The branches keep theirs. *)
LEMMA BranchesStep == Typed /\ [Next]_vars => BranchesTyped'
<1> SUFFICES ASSUME Typed, [Next]_vars PROVE BranchesTyped'
  OBVIOUS
<1>0. /\ BranchesTyped
      /\ [NoBranch EXCEPT !.pc = "done"] \in Branches /\ [NoBranch EXCEPT !.pc = "done"].pc = "done"
  BY DEF Typed, Branches, NoBranch
<1>1. CASE UNCHANGED branch
  BY <1>0, <1>1 DEF BranchesTyped
<1>2. ASSUME NEW b \in Branch, NEW w \in Worker, NEW l \in Lease,
             NEW p \in {"borrowed", "owned"},
             branch' = [branch EXCEPT ![b] = [pc |-> p, worker |-> w, lease |-> l]]
      PROVE  BranchesTyped'
  <2>1. [pc |-> p, worker |-> w, lease |-> l] \in Branches
    BY DEF Branches
  <2> QED
    BY <1>0, <1>2, <2>1 DEF BranchesTyped
<1>3. ASSUME NEW b \in Branch, NEW w \in Worker, Borrow(b, w) PROVE BranchesTyped'
  <2>1. run[w].lease \in Lease
    BY <1>3 DEF Borrow, Executing, Typed, RunsTyped
  <2> QED
    BY <1>2, <1>3, <2>1 DEF Borrow
<1>4. ASSUME NEW b \in Branch, NEW w \in Worker, NEW ok \in BOOLEAN, ReserveBranch(b, w, ok)
      PROVE  BranchesTyped'
  BY <1>2, <1>4, BranchRows
<1>5. ASSUME NEW b \in Branch, EndBranch(b) PROVE BranchesTyped'
  BY <1>0, <1>5 DEF EndBranch, BranchesTyped
<1>6. ASSUME NEW w \in Worker, Crash(w) PROVE BranchesTyped'
  BY <1>0, <1>6 DEF Crash, BranchesTyped
<1> QED
  BY <1>1, <1>3, <1>4, <1>5, <1>6, BranchSteps

(* The jobs keep theirs. *)
LEMMA JobsStep == Typed /\ [Next]_vars => JobsTyped'
<1> SUFFICES ASSUME Typed, [Next]_vars PROVE JobsTyped'
  OBVIOUS
<1>0. JobsTyped /\ RunsTyped
  BY DEF Typed
<1>1. CASE UNCHANGED <<jobs, request>>
  BY <1>0, <1>1 DEF JobsTyped
<1>2. ASSUME NEW j \in Job, NEW owner \in Worker, NEW ok \in BOOLEAN, Admit(j, owner, ok)
      PROVE  JobsTyped'
  BY <1>2, AdmitTypes DEF JobsTyped
<1>3. ASSUME NEW j \in Job, NEW ok \in BOOLEAN, Reevaluate(j, ok) PROVE JobsTyped'
  BY <1>2, <1>3 DEF Reevaluate
<1>4. ASSUME NEW w \in Worker, NEW ok \in BOOLEAN, AdmitJob(w, ok) PROVE JobsTyped'
  BY <1>0, <1>2, <1>4 DEF AdmitJob, RunsTyped
<1>5. ASSUME NEW w \in Worker, Claim(w) \/ Close(w) PROVE JobsTyped'
  BY <1>0, <1>5 DEF Claim, Close, JobsTyped, JobStatus
<1>6. ASSUME NEW j \in Job, Requeue(j) \/ CancelJob(j) PROVE JobsTyped'
  BY <1>0, <1>6 DEF Requeue, CancelJob, JobsTyped, JobStatus
<1> QED
  BY <1>1, <1>3, <1>4, <1>5, <1>6, JobSteps

(* Violations, process trees, leadership, the sampler's batch, the leases  *)
(* a recovery has to release and the count of faults keep theirs.          *)
LEMMA RestStep == Typed /\ [Next]_vars => RestTyped'
<1> SUFFICES ASSUME Typed, [Next]_vars PROVE RestTyped'
  OBVIOUS
<1> USE DEF leaseVars
<1>0. TypeOK /\ RestTyped /\ RunsTyped /\ JobsTyped
  BY TypedMore DEF Typed
<1>1. violated' \subseteq Lease
  <2>1. ASSUME NEW j \in Job, NEW owner \in Worker, NEW ok \in BOOLEAN, Admit(j, owner, ok)
        PROVE  violated' \subseteq violated
    BY <2>1, AdmitTypes
  <2>2. ASSUME NEW l, Release(l) PROVE violated' \subseteq violated
    BY <2>2 DEF Release
  <2>3. ASSUME NEW j \in Job, NEW ok \in BOOLEAN, Reevaluate(j, ok) PROVE violated' \subseteq violated
    BY <2>1, <2>3 DEF Reevaluate
  <2>4. ASSUME NEW w \in Worker, NEW ok \in BOOLEAN, AdmitJob(w, ok) PROVE violated' \subseteq violated
    BY <1>0, <2>1, <2>4 DEF AdmitJob, RunsTyped
  <2>5. ASSUME NEW b \in Branch, NEW w \in Worker, NEW ok \in BOOLEAN, ReserveBranch(b, w, ok)
        PROVE  violated' \subseteq violated
    BY <2>5, BranchRows
  <2>6. ASSUME NEW w \in Worker, Claim(w) \/ ReleaseOwn(w) PROVE violated' \subseteq violated
    BY <2>2, <2>6 DEF Claim, ReleaseOwn
  <2>7. ASSUME NEW b \in Branch, EndBranch(b) PROVE violated' \subseteq violated
    BY <2>7 DEF EndBranch
  <2>8. ASSUME NEW l \in Lease,
               Lapse(l) \/ RenewalLate(l) \/ OperatorRelease(l) \/ ReleaseOrphan(l)
        PROVE  violated' \subseteq violated
    BY <2>2, <2>8 DEF Lapse, RenewalLate, OperatorRelease, ReleaseOrphan, Expired
  <2>9. ASSUME NEW l \in Lease, Evict(l) PROVE violated' \subseteq Lease
    BY <1>0, <2>9 DEF Evict, RestTyped
  <2> QED
    BY <1>0, <2>3, <2>4, <2>5, <2>6, <2>7, <2>8, <2>9, LeaseSteps DEF RestTyped, RecoverExpired
<1>2. root' \subseteq [exec : Job, lease : Lease]
  <2>1. ASSUME NEW w \in Worker, ReserveRoot(w) PROVE root' \subseteq [exec : Job, lease : Lease]
    BY <1>0, <2>1 DEF ReserveRoot, RestTyped, RunsTyped
  <2>2. ASSUME NEW r \in root, RootEnds(r) \/ RecoverRoot(r)
        PROVE  root' \subseteq [exec : Job, lease : Lease]
    BY <1>0, <2>2 DEF RootEnds, RecoverRoot, RestTyped
  <2>3. \/ UNCHANGED root
        \/ \E w \in Worker : ReserveRoot(w)
        \/ \E r \in root : RootEnds(r) \/ RecoverRoot(r)
    BY DEF Next, Sampler, WorkerStep, vars, GraceEnds, ReadWaiting, RecoverExpired, Reevaluate,
           Evict, Peek, AdmitJob, Claim, CheckReservation, StartCheck, Close, ReleaseOwn,
           Borrow, ReserveBranch, EndBranch, TakeOver, Crash, Requeue, CancelJob, Lapse,
           RenewalLate, Expired, OperatorRelease, ReleaseOrphan
  <2> QED
    BY <1>0, <2>1, <2>2, <2>3 DEF RestTyped
<1>3. leader' \in Worker /\ grace' \in BOOLEAN
  BY <1>0 DEF Next, Sampler, WorkerStep, vars, GraceEnds, ReadWaiting, RecoverExpired, Reevaluate,
         Evict, Peek, AdmitJob, Claim, CheckReservation, StartCheck, ReserveRoot, RootEnds,
         RecoverRoot, Close, ReleaseOwn, Borrow, ReserveBranch, EndBranch, TakeOver, Crash, Requeue,
         CancelJob, Lapse, RenewalLate, Expired, OperatorRelease, ReleaseOrphan, RestTyped
<1>4. batch' \subseteq Job \X Worker
  <2>1. ASSUME ReadWaiting PROVE batch' \subseteq Job \X Worker
    BY <1>0, <2>1 DEF ReadWaiting, Waiting, JobsTyped
  <2>2. ASSUME NEW j \in Job, NEW ok \in BOOLEAN, Reevaluate(j, ok) PROVE batch' \subseteq Job \X Worker
    BY <1>0, <2>2 DEF Reevaluate, RestTyped
  <2>3. \/ UNCHANGED batch
        \/ ReadWaiting
        \/ \E j \in Job, ok \in BOOLEAN : Reevaluate(j, ok)
    BY DEF Next, Sampler, WorkerStep, vars, GraceEnds, RecoverExpired,
           Evict, Peek, AdmitJob, Claim, CheckReservation, StartCheck, ReserveRoot, RootEnds,
           RecoverRoot, Close, ReleaseOwn, Borrow, ReserveBranch, EndBranch, TakeOver, Crash,
           Requeue, CancelJob, Lapse, RenewalLate, Expired, OperatorRelease, ReleaseOrphan
  <2> QED
    BY <1>0, <2>1, <2>2, <2>3 DEF RestTyped
<1>5. faults' \in 0..MaxFaults
  <2>1. faults' = faults \/ (faults < MaxFaults /\ faults' = faults + 1)
    BY DEF Next, Sampler, WorkerStep, vars, GraceEnds, ReadWaiting, RecoverExpired, Reevaluate,
           Evict, Peek, AdmitJob, Claim, CheckReservation, StartCheck, ReserveRoot, RootEnds,
           RecoverRoot, Close, ReleaseOwn, Borrow, ReserveBranch, EndBranch, TakeOver, Crash,
           Requeue, CancelJob, Lapse, RenewalLate, Expired, OperatorRelease, ReleaseOrphan
  <2> QED
    BY <1>0, <2>1, Bounds DEF RestTyped
<1>6. owed' \subseteq Lease
  <2>1. ASSUME NEW r \in root, RecoverRoot(r) PROVE owed' \subseteq Lease
    BY <1>0, <2>1 DEF RecoverRoot, RestTyped
  <2>2. \/ owed' \subseteq owed
        \/ \E r \in root : RecoverRoot(r)
    BY DEF Next, Sampler, WorkerStep, vars, GraceEnds, ReadWaiting, RecoverExpired, Reevaluate,
           Evict, Peek, AdmitJob, Claim, CheckReservation, StartCheck, ReserveRoot, RootEnds,
           Close, ReleaseOwn, Borrow, ReserveBranch, EndBranch, TakeOver, Crash, Requeue,
           CancelJob, Lapse, RenewalLate, Expired, OperatorRelease, ReleaseOrphan
  <2> QED
    BY <1>0, <2>1, <2>2 DEF RestTyped
<1> QED
  BY <1>1, <1>2, <1>3, <1>4, <1>5, <1>6 DEF RestTyped

(* Every step keeps the types, whatever the order of admissions, expiries, *)
(* crashes, takeovers and releases.                                        *)
LEMMA TypeStep == Typed /\ [Next]_vars => Typed'
  BY RowsStep, RunsStep, BranchesStep, JobsStep, RestStep DEF Typed

(* The variables of ResourceAdmission keep their types.                    *)
THEOREM TypeCorrect == Spec => []TypeOK
<1>1. Typed => TypeOK
  BY TypedMore
<1> QED
  BY <1>1, TypeInit, TypeStep, PTL DEF Spec

-----------------------------------------------------------------------------
(* What a step may do to one reservation: keep it, perhaps letting it      *)
(* expire; free it, with its violation, once no process tree holds it; or  *)
(* make a new one of a fresh row.                                          *)
Kept(l) == /\ lease'[l].exec = lease[l].exec
           /\ lease'[l].class = lease[l].class
           /\ lease'[l].owner = lease[l].owner
           /\ \/ lease'[l].state = lease[l].state
              \/ lease[l].state = "live" /\ lease'[l].state = "expired"
Gone(l) == /\ lease'[l].state = "released"
           /\ \A r \in root : r.lease # l
           /\ l \notin violated'
Made(l, e) == /\ Existing(e) = {}
              /\ l \in Fresh
              /\ lease'[l].state = "live"
              /\ lease'[l].exec = e

(* Of the rows admit writes. *)
LEMMA GrantFate ==
    ASSUME Typed, NEW e \in Exec, NEW row, row.state = "live", row.exec = e, NEW given,
           Existing(e) = {} => given \in Fresh \cup {0},
           \A l \in Lease : lease'[l] = IF Existing(e) = {} /\ l = given THEN row
                                        ELSE IF l \in Recoverable THEN Released ELSE lease[l],
           violated' = violated \ Recoverable,
           NEW l \in Lease
    PROVE  Kept(l) \/ Gone(l) \/ Made(l, e)
<1>1. CASE Existing(e) = {} /\ l = given
  BY <1>1, LeaseNotZero DEF Made
<1>2. CASE ~(Existing(e) = {} /\ l = given) /\ l \in Recoverable
  BY <1>2 DEF Gone, Recoverable, Held, Released
<1>3. CASE ~(Existing(e) = {} /\ l = given) /\ l \notin Recoverable
  BY <1>3 DEF Kept
<1> QED
  BY <1>1, <1>2, <1>3

(* Of the rows a release writes. *)
LEMMA ReleaseFate ==
    ASSUME Typed, NEW k, Release(k), NEW l \in Lease
    PROVE  Kept(l) \/ Gone(l)
<1>1. /\ lease'[l] = IF l = k /\ ~Held(k) THEN Released ELSE lease[l]
      /\ violated' = violated \ (IF Held(k) THEN {} ELSE {k})
  BY TypedMore, ReleaseRows
<1>2. CASE l = k /\ ~Held(k)
  BY <1>1, <1>2 DEF Gone, Held, Released
<1>3. CASE ~(l = k /\ ~Held(k))
  BY <1>1, <1>3 DEF Kept
<1> QED
  BY <1>2, <1>3

(* admit makes at most one reservation, for the job it is called for. *)
LEMMA AdmitFate ==
    ASSUME Typed, NEW j \in Job, NEW owner \in Worker, NEW ok, Admit(j, owner, ok), NEW l \in Lease
    PROVE  Kept(l) \/ Gone(l) \/ (Made(l, j) /\ l = Given(j, JobClass[j], ok))
<1>1. PICK given, row : /\ given = Given(j, JobClass[j], ok)
                        /\ row = NewRow(j, JobClass[j], owner, None)
  OBVIOUS
<1>2. row.state = "live" /\ row.exec = j /\ j \in Exec
  BY <1>1 DEF NewRow, Exec
<1>3. /\ \A k \in Lease : lease'[k] = IF Existing(j) = {} /\ k = given THEN row
                                      ELSE IF k \in Recoverable THEN Released ELSE lease[k]
      /\ violated' = violated \ Recoverable
      /\ Fresh # {}
  BY <1>1, TypedMore, AdmitRows
<1>4. Existing(j) = {} => given \in Fresh \cup {0}
  BY <1>1, <1>3, GivenCases
<1>5. Kept(l) \/ Gone(l) \/ Made(l, j)
  BY <1>2, <1>3, <1>4, GrantFate
<1>6. CASE l = given
  BY <1>1, <1>5, <1>6
<1>7. CASE l # given
  BY <1>3, <1>7 DEF Kept, Gone, Recoverable, Held, Released
<1> QED
  BY <1>6, <1>7

(* The reservation of a branch is made for the branch. *)
LEMMA BranchFate ==
    ASSUME Typed, NEW b \in Branch, NEW w \in Worker, NEW ok, ReserveBranch(b, w, ok), NEW l \in Lease
    PROVE  Kept(l) \/ Gone(l) \/ (Made(l, b) /\ l = Given(b, BranchClass[b], ok))
<1>1. PICK given, row : /\ given = Given(b, BranchClass[b], ok)
                        /\ row = NewRow(b, BranchClass[b], w, run[w].job)
  OBVIOUS
<1>2. row.state = "live" /\ row.exec = b /\ b \in Exec
  BY <1>1 DEF NewRow, Exec
<1>3. /\ \A k \in Lease : lease'[k] = IF Existing(b) = {} /\ k = given THEN row
                                      ELSE IF k \in Recoverable THEN Released ELSE lease[k]
      /\ violated' = violated \ Recoverable
      /\ Fresh # {}
  BY <1>1, BranchRows
<1>4. Existing(b) = {} => given \in Fresh \cup {0}
  BY <1>1, <1>3, GivenCases
<1>5. Kept(l) \/ Gone(l) \/ Made(l, b)
  BY <1>2, <1>3, <1>4, GrantFate
<1>6. CASE l = given
  BY <1>1, <1>5, <1>6
<1>7. CASE l # given
  BY <1>3, <1>7 DEF Kept, Gone, Recoverable, Held, Released
<1> QED
  BY <1>6, <1>7

(* Of the rows the end of a branch writes. *)
LEMMA EndFate ==
    ASSUME Typed, NEW b \in Branch, EndBranch(b), NEW l \in Lease
    PROVE  Kept(l) \/ (Gone(l) /\ branch[b].pc = "owned" /\ branch[b].lease = l)
<1>1. lease \in [Lease -> Row]
  BY DEF Typed, RowsTyped
<1>2. CASE branch[b].pc = "owned" /\ branch[b].lease = l /\ ~\E r \in root : r.lease = l
  BY <1>1, <1>2 DEF EndBranch, Gone, Released
<1>3. CASE branch[b].pc = "owned" /\ branch[b].lease = l /\ \E r \in root : r.lease = l
  <2>1. lease'[l] = [lease[l] EXCEPT !.parent = None]
    BY <1>1, <1>3 DEF EndBranch
  <2> QED
    BY <1>1, <2>1 DEF Kept, Row
<1>4. CASE ~(branch[b].pc = "owned" /\ branch[b].lease = l)
  BY <1>1, <1>4 DEF EndBranch, Kept, leaseVars
<1> QED
  BY <1>2, <1>3, <1>4

(* Every step, one reservation at a time. *)
LEMMA RowFate ==
    ASSUME Typed, [Next]_vars, NEW l \in Lease
    PROVE  \/ Kept(l) \/ Gone(l)
           \/ \E j \in Job : Made(l, j) /\ \E owner \in Worker, ok \in BOOLEAN : Admit(j, owner, ok)
           \/ \E b \in Branch : Made(l, b) /\ \E w \in Worker, ok \in BOOLEAN : ReserveBranch(b, w, ok)
<1>1. CASE UNCHANGED lease
  BY <1>1 DEF Kept
<1>2. ASSUME NEW k \in Lease, Evict(k) PROVE Kept(l)
  BY <1>2 DEF Evict, Kept
<1>3. CASE RecoverExpired
  BY <1>3, TypedMore, FreedRows DEF RecoverExpired, Recoverable, Held, Kept, Gone, Released
<1>4. ASSUME NEW j \in Job, NEW ok \in BOOLEAN, Reevaluate(j, ok)
      PROVE  \/ Kept(l) \/ Gone(l)
             \/ Made(l, j) /\ \E owner \in Worker : Admit(j, owner, ok)
  BY <1>4, AdmitFate DEF Reevaluate
<1>5. ASSUME NEW w \in Worker, NEW ok \in BOOLEAN, AdmitJob(w, ok)
      PROVE  \/ Kept(l) \/ Gone(l)
             \/ \E j \in Job : Made(l, j) /\ Admit(j, w, ok)
  <2>1. run[w].job \in Job /\ Admit(run[w].job, w, ok)
    BY <1>5 DEF AdmitJob, Typed, RunsTyped
  <2> QED
    BY <2>1, AdmitFate
<1>6. ASSUME NEW w \in Worker, Claim(w) \/ ReleaseOwn(w) PROVE Kept(l) \/ Gone(l)
  <2>1. CASE Release(run[w].lease)
    BY <2>1, ReleaseFate
  <2>2. CASE UNCHANGED leaseVars
    BY <2>2 DEF Kept, leaseVars
  <2> QED
    BY <1>6, <2>1, <2>2 DEF Claim, ReleaseOwn
<1>7. ASSUME NEW b \in Branch, NEW w \in Worker, NEW ok \in BOOLEAN, ReserveBranch(b, w, ok)
      PROVE  Kept(l) \/ Gone(l) \/ Made(l, b)
  BY <1>7, BranchFate
<1>8. ASSUME NEW b \in Branch, EndBranch(b) PROVE Kept(l) \/ Gone(l)
  BY <1>8, EndFate
<1>9. ASSUME NEW k \in Lease, Lapse(k) \/ RenewalLate(k) PROVE Kept(l)
  BY <1>9, TypedMore, ExpiredRows DEF Lapse, RenewalLate, Kept
<1>10. ASSUME NEW k \in Lease, OperatorRelease(k) \/ ReleaseOrphan(k) PROVE Kept(l) \/ Gone(l)
  BY <1>10, ReleaseFate DEF OperatorRelease, ReleaseOrphan
<1> QED
  BY <1>1, <1>2, <1>3, <1>4, <1>5, <1>6, <1>7, <1>8, <1>9, <1>10, LeaseSteps

-----------------------------------------------------------------------------
(* A lease is never released under the native process that runs on it,     *)
(* whoever asks: the recovery, an admission, a worker that closes, a       *)
(* branch or the operator (release and recover_expired look at the         *)
(* unfinished managed_processes in the same transaction).                  *)
THEOREM ProcessKeepsLease == Spec => NoReleaseUnderTree
<1>1. ASSUME Typed, [Next]_vars
      PROVE  \A r \in root : lease[r.lease].state # "released" => lease'[r.lease].state # "released"
  <2> SUFFICES ASSUME NEW r \in root, lease[r.lease].state # "released"
               PROVE  lease'[r.lease].state # "released"
    OBVIOUS
  <2>1. r.lease \in Lease
    BY <1>1 DEF Typed, RestTyped
  <2> QED
    BY <1>1, <2>1, RowFate DEF Kept, Gone, Made
<1>2. Typed /\ [Next]_vars =>
        [\A r \in root : lease[r.lease].state # "released" => lease'[r.lease].state # "released"]_vars
  BY <1>1
<1> QED
  BY <1>2, TypeInit, TypeStep, PTL DEF Spec, NoReleaseUnderTree

(* A step opens a violation only of a lease in force, and then leaves the  *)
(* leases alone.                                                           *)
LEMMA ViolationSteps ==
    ASSUME Typed, [Next]_vars
    PROVE  violated' \subseteq violated \/ (UNCHANGED lease /\ violated' \subseteq violated \cup Active)
<1> USE DEF leaseVars
<1>1. ASSUME NEW j \in Job, NEW owner \in Worker, NEW ok \in BOOLEAN, Admit(j, owner, ok)
      PROVE  violated' \subseteq violated
  BY <1>1, AdmitTypes
<1>2. ASSUME NEW l, Release(l) PROVE violated' \subseteq violated
  BY <1>2 DEF Release
<1>3. ASSUME NEW j \in Job, NEW ok \in BOOLEAN, Reevaluate(j, ok) PROVE violated' \subseteq violated
  BY <1>1, <1>3 DEF Reevaluate
<1>4. ASSUME NEW w \in Worker, NEW ok \in BOOLEAN, AdmitJob(w, ok) PROVE violated' \subseteq violated
  BY <1>1, <1>4 DEF AdmitJob, Typed, RunsTyped
<1>5. ASSUME NEW b \in Branch, NEW w \in Worker, NEW ok \in BOOLEAN, ReserveBranch(b, w, ok)
      PROVE  violated' \subseteq violated
  BY <1>5, BranchRows
<1>6. ASSUME NEW w \in Worker, Claim(w) \/ ReleaseOwn(w) PROVE violated' \subseteq violated
  BY <1>2, <1>6 DEF Claim, ReleaseOwn
<1>7. ASSUME NEW b \in Branch, EndBranch(b) PROVE violated' \subseteq violated
  BY <1>7 DEF EndBranch
<1>8. ASSUME NEW l \in Lease,
             Lapse(l) \/ RenewalLate(l) \/ OperatorRelease(l) \/ ReleaseOrphan(l)
      PROVE  violated' \subseteq violated
  BY <1>2, <1>8 DEF Lapse, RenewalLate, OperatorRelease, ReleaseOrphan, Expired
<1>9. ASSUME NEW l \in Lease, Evict(l)
      PROVE  UNCHANGED lease /\ violated' \subseteq violated \cup Active
  BY <1>9 DEF Evict
<1> QED
  BY <1>3, <1>4, <1>5, <1>6, <1>7, <1>8, <1>9, LeaseSteps DEF RecoverExpired

(* An eviction cancels only the execution that was evicted: no violation   *)
(* outlives its lease, although the lease is released by one party while   *)
(* another opens the violation (resource_violations.resolved_at is set by  *)
(* every release).                                                         *)
THEOREM EvictionIsBounded == Spec => []EvictionEndsWithLease
<1>1. Init => EvictionEndsWithLease
  BY DEF Init, EvictionEndsWithLease
<1>2. Typed /\ EvictionEndsWithLease /\ [Next]_vars => EvictionEndsWithLease'
  <2> SUFFICES ASSUME Typed, EvictionEndsWithLease, [Next]_vars, NEW l \in violated'
               PROVE  lease'[l].state \in {"live", "expired"}
    BY DEF EvictionEndsWithLease
  <2>1. l \in Lease
    <3>1. violated' \subseteq Lease
      BY RestStep DEF RestTyped
    <3> QED
      BY <3>1
  <2>2. CASE l \in violated
    <3>1. lease[l].state \in {"live", "expired"}
      BY <2>2 DEF EvictionEndsWithLease
    <3> QED
      BY <2>1, <3>1, RowFate DEF Kept, Gone, Made
  <2>3. CASE l \notin violated
    BY <2>3, ViolationSteps DEF Active
  <2> QED
    BY <2>2, <2>3
<1> QED
  BY <1>1, <1>2, TypeInit, TypeStep, PTL DEF Spec

(* A job that waits for capacity has no active lease of its own, whoever   *)
(* asked for it last: its worker, another worker or the sampler with a     *)
(* request read before (admit would return that lease without putting the  *)
(* job back in the queue).                                                 *)
THEOREM WaitingIsUnreserved == Spec => []WaitingHasNoLease
<1>1. Init => WaitingHasNoLease
  BY DEF Init, WaitingHasNoLease
<1>2. ASSUME Typed, WaitingHasNoLease, NEW i \in Job, NEW j \in Job, NEW owner \in Worker,
             NEW ok \in BOOLEAN, Admit(i, owner, ok), jobs'[j] = "resource_wait",
             NEW l \in Lease, lease'[l].state = "live", lease'[l].exec = j
      PROVE  FALSE
  <2> DEFINE given == Given(i, JobClass[i], ok)
  <2>1. Kept(l) \/ Gone(l) \/ (Made(l, i) /\ l = given)
    BY <1>2, AdmitFate
  <2>2. CASE Kept(l)
    <3>1. l \in Existing(j)
      BY <1>2, <2>2 DEF Existing, Kept
    <3>2. jobs[j] # "resource_wait"
      BY <1>2, <3>1 DEF WaitingHasNoLease
    <3> QED
      BY <1>2, <3>1, <3>2 DEF Admit, Settle, Typed, JobsTyped
  <2>3. CASE Gone(l)
    BY <1>2, <2>3 DEF Gone
  <2>4. CASE Made(l, i) /\ l = given
    <3>1. i = j /\ given # 0 /\ Existing(j) = {}
      BY <1>2, <2>4, LeaseNotZero DEF Made
    <3> HIDE DEF given
    <3>2. jobs' = [jobs EXCEPT ![j] = IF @ = "resource_wait" THEN "queued" ELSE @]
      BY <1>2, <3>1 DEF Admit, Settle, given
    <3> QED
      BY <1>2, <3>2 DEF Typed, JobsTyped
  <2> QED
    BY <2>1, <2>2, <2>3, <2>4
<1>3. Typed /\ WaitingHasNoLease /\ [Next]_vars => WaitingHasNoLease'
  <2> SUFFICES ASSUME Typed, WaitingHasNoLease, [Next]_vars, NEW j \in Job,
                      jobs'[j] = "resource_wait", NEW l \in Lease,
                      lease'[l].state = "live", lease'[l].exec = j
               PROVE  FALSE
    BY DEF WaitingHasNoLease, Existing
  <2>1. ASSUME NEW i \in Job, NEW ok \in BOOLEAN, Reevaluate(i, ok) PROVE FALSE
    BY <1>2, <2>1 DEF Reevaluate
  <2>2. ASSUME NEW w \in Worker, NEW ok \in BOOLEAN, AdmitJob(w, ok) PROVE FALSE
    <3>1. run[w].job \in Job /\ Admit(run[w].job, w, ok)
      BY <2>2 DEF AdmitJob, Typed, RunsTyped
    <3> QED
      BY <1>2, <3>1
  <2>3. CASE jobs[j] # "resource_wait"
    <3>1. ASSUME NEW w \in Worker, Claim(w) \/ Close(w) PROVE FALSE
      BY <2>3, <3>1 DEF Claim, Close, Typed, JobsTyped
    <3>2. ASSUME NEW i \in Job, Requeue(i) \/ CancelJob(i) PROVE FALSE
      BY <2>3, <3>2 DEF Requeue, CancelJob, Typed, JobsTyped
    <3> QED
      BY <2>1, <2>2, <2>3, <3>1, <3>2, JobSteps
  <2>4. CASE jobs[j] = "resource_wait" /\ (Kept(l) \/ Gone(l))
    <3>1. l \in Existing(j)
      BY <2>4 DEF Kept, Gone, Existing
    <3> QED
      BY <2>4, <3>1 DEF WaitingHasNoLease
  <2>5. ASSUME NEW b \in Branch PROVE ~Made(l, b)
    BY ResourceAssumption DEF Made
  <2> QED
    BY <1>2, <2>3, <2>4, <2>5, RowFate
<1> QED
  BY <1>1, <1>3, TypeInit, TypeStep, PTL DEF Spec

-----------------------------------------------------------------------------
(* Why a worker keeps its reservation.  The lease of a run is live, or the *)
(* run has noted the loss; runs that were given the same lease have noted  *)
(* it too; a row that a run or a branch refers to is for a job or for that *)
(* branch until it is released, so that no run holds a branch's lease.     *)
LossNoted ==
    \A w \in Worker : run[w].lease \in Lease /\ lease[run[w].lease].state # "live" => run[w].lost
SharingNoted ==
    \A v, w \in Worker : v # w /\ run[v].lease = run[w].lease /\ run[w].lease \in Lease => run[w].lost
OwnRows ==
    /\ \A w \in Worker : run[w].lease \in Lease /\ lease[run[w].lease].state # "released" =>
                            lease[run[w].lease].exec \in Job
    /\ \A b \in Branch : branch[b].pc = "owned" /\ lease[branch[b].lease].state # "released" =>
                            lease[branch[b].lease].exec = b
Apart ==
    \A w \in Worker, b \in Branch : branch[b].pc = "owned" => run[w].lease # branch[b].lease

Holding == LossNoted /\ SharingNoted /\ OwnRows /\ Apart

(* The lease admit returns is live and for the execution it was asked for, *)
(* and no run or branch refers to it unless it was in force before.        *)
LEMMA AdmitGives ==
    ASSUME Typed, NEW j \in Job, NEW owner \in Worker, NEW ok, Admit(j, owner, ok),
           NEW given, given = Given(j, JobClass[j], ok), given # 0
    PROVE  /\ given \in Lease
           /\ lease'[given].state = "live" /\ lease'[given].exec = j
           /\ \/ lease[given].state = "live" /\ lease[given].exec = j
              \/ /\ \A w \in Worker : run[w].lease # given
                 /\ \A b \in Branch : branch[b].lease # given
<1>1. given \in Lease
  BY AdmitTypes
<1>2. Fresh # {}
  BY TypedMore, AdmitRows
<1>3. PICK row : row = NewRow(j, JobClass[j], owner, None)
  OBVIOUS
<1>4. row.state = "live" /\ row.exec = j
  BY <1>3 DEF NewRow
<1>5. lease'[given] = IF Existing(j) = {} /\ given = given THEN row
                      ELSE IF given \in Recoverable THEN Released ELSE lease[given]
  BY <1>1, <1>3, TypedMore, AdmitRows
<1>6. CASE Existing(j) = {}
  <2>1. given \in Fresh
    BY <1>2, <1>6, GivenCases
  <2> QED
    BY <1>1, <1>4, <1>5, <1>6, <2>1 DEF Fresh
<1>7. CASE Existing(j) # {}
  <2>1. given \in Existing(j)
    BY <1>2, <1>7, GivenCases
  <2>2. lease[given].state = "live" /\ lease[given].exec = j
    BY <2>1 DEF Existing
  <2> QED
    BY <1>1, <1>5, <1>7, <2>2 DEF Recoverable
<1> QED
  BY <1>6, <1>7

(* The same for a branch. *)
LEMMA BranchGives ==
    ASSUME Typed, NEW b \in Branch, NEW w \in Worker, NEW ok, ReserveBranch(b, w, ok),
           NEW given, given = Given(b, BranchClass[b], ok)
    PROVE  /\ given \in Lease
           /\ lease'[given].state = "live" /\ lease'[given].exec = b
           /\ \/ lease[given].state = "live" /\ lease[given].exec = b
              \/ /\ \A v \in Worker : run[v].lease # given
                 /\ \A c \in Branch : branch[c].lease # given
<1>1. given \in Lease /\ Fresh # {}
  BY BranchRows
<1>2. PICK row : row = NewRow(b, BranchClass[b], w, run[w].job)
  OBVIOUS
<1>3. row.state = "live" /\ row.exec = b
  BY <1>2 DEF NewRow
<1>4. lease'[given] = IF Existing(b) = {} /\ given = given THEN row
                      ELSE IF given \in Recoverable THEN Released ELSE lease[given]
  BY <1>1, <1>2, BranchRows
<1>5. CASE Existing(b) = {}
  <2>1. given \in Fresh
    BY <1>1, <1>5, LeaseNotZero, GivenCases
  <2> QED
    BY <1>1, <1>3, <1>4, <1>5, <2>1 DEF Fresh
<1>6. CASE Existing(b) # {}
  <2>1. given \in Existing(b)
    BY <1>1, <1>6, GivenCases
  <2>2. lease[given].state = "live" /\ lease[given].exec = b
    BY <2>1 DEF Existing
  <2> QED
    BY <1>1, <1>4, <1>6, <2>2 DEF Recoverable
<1> QED
  BY <1>5, <1>6

(* What admit answers to worker w. *)
Asked(w, ok) == Given(run[w].job, JobClass[run[w].job], ok)

(* What a step does to a run: it keeps its lease and what it noted, drops  *)
(* the lease, or is admitted; every run that refers to the given lease     *)
(* notes it.                                                               *)
LEMMA RunFate ==
    ASSUME Typed, [Next]_vars, NEW w \in Worker
    PROVE  \/ run'[w].lease = run[w].lease /\ (run[w].lost => run'[w].lost)
           \/ run'[w].lease = 0
           \/ \E ok \in BOOLEAN, given \in Lease :
                 /\ AdmitJob(w, ok)
                 /\ Admit(run[w].job, w, ok)
                 /\ run[w].job \in Job
                 /\ given = Asked(w, ok)
                 /\ run'[w].lease = given
                 /\ \A v \in Worker : run[v].lease = given => run'[v].lost /\ run'[w].lost
                 /\ \A v \in Worker \ {w} : run'[v].lease = run[v].lease
<1>0. run \in [Worker -> Runs] /\ RunsTyped /\ TypeOK
  BY TypedMore DEF Typed, RunsTyped
<1>1. CASE UNCHANGED run
  BY <1>1
<1>2. ASSUME NEW u \in Worker, NEW ok, AdmitJob(u, ok),
             Asked(u, ok) = 0
      PROVE  (run'[w] = run[w]) \/ run'[w].lease = 0
  BY <1>0, <1>2 DEF AdmitJob, NoRun, Asked
<1>3. ASSUME NEW u \in Worker, NEW ok, AdmitJob(u, ok), NEW given \in Lease,
             given = Asked(u, ok), NEW x \in Worker
      PROVE  /\ u # x => run'[x].lease = run[x].lease
             /\ run[x].lost => run'[x].lost \/ u = x
             /\ run[x].lease = given => run'[x].lost
             /\ u = x => run'[x].lease = given
             /\ u = x => \A v \in Worker : run[v].lease = given => run'[x].lost
  <2>1. PICK old \in [Worker -> Runs] :
           /\ old = Losing({given})
           /\ \A v \in Worker : /\ old[v].lease = run[v].lease
                                /\ old[v].lost = (run[v].lost \/ run[v].lease \in {given})
    BY <1>0, LosingRuns
  <2>2. PICK lost \in BOOLEAN : lost = \E v \in Worker : run[v].lease = given
    OBVIOUS
  <2>3. run' = [old EXCEPT ![u].pc = "admitted", ![u].lease = given, ![u].lost = lost]
    BY <1>3, <2>1, <2>2, LeaseNotZero DEF AdmitJob, Asked
  <2>4. CASE u # x
    <3>1. run'[x] = old[x]
      BY <2>1, <2>3, <2>4
    <3> QED
      BY <2>1, <2>4, <3>1
  <2>5. CASE u = x
    <3>1. old[x] \in Runs
      BY <2>1
    <3>2. run'[x].lease = given /\ run'[x].lost = lost
      BY <2>1, <2>3, <2>5, <3>1 DEF Runs
    <3> QED
      BY <2>2, <2>5, <3>2
  <2> QED
    BY <2>4, <2>5
<1>4. ASSUME NEW u \in Worker, Peek(u) \/ CheckReservation(u) \/ StartCheck(u) \/ ReserveRoot(u) \/ Close(u)
      PROVE  run'[w].lease = run[w].lease /\ run'[w].lost = run[w].lost
  BY <1>0, <1>4 DEF Peek, CheckReservation, StartCheck, ReserveRoot, Close, At, Runs
<1>5. ASSUME NEW u \in Worker, Claim(u) \/ ReleaseOwn(u) \/ Crash(u)
      PROVE  (run'[w].lease = run[w].lease /\ run'[w].lost = run[w].lost) \/ run'[w].lease = 0
  BY <1>0, <1>5 DEF Claim, ReleaseOwn, Crash, At, Runs, NoRun
<1>6. ASSUME NEW r \in root, RootEnds(r)
      PROVE  run'[w].lease = run[w].lease /\ run'[w].lost = run[w].lost
  BY <1>0, <1>6 DEF RootEnds, Runs
<1>7. ASSUME NEW l \in Lease,
             Lapse(l) \/ RenewalLate(l) \/ OperatorRelease(l) \/ ReleaseOrphan(l)
      PROVE  run'[w].lease = run[w].lease /\ (run[w].lost => run'[w].lost)
  <2>1. PICK ls : run' = Losing(ls)
    BY <1>7 DEF Lapse, RenewalLate, OperatorRelease, ReleaseOrphan, Expired
  <2>2. /\ Losing(ls)[w].lease = run[w].lease
        /\ Losing(ls)[w].lost = (run[w].lost \/ run[w].lease \in ls)
    BY <1>0, LosingRuns
  <2> QED
    BY <2>1, <2>2
<1>8. ASSUME NEW u \in Worker, NEW ok \in BOOLEAN, AdmitJob(u, ok), u # w
      PROVE  (run'[w].lease = run[w].lease /\ (run[w].lost => run'[w].lost)) \/ run'[w].lease = 0
  <2>1. run[u].job \in Job /\ Admit(run[u].job, u, ok)
    BY <1>0, <1>8 DEF AdmitJob, RunsTyped
  <2>2. PICK given \in Lease \cup {0} : given = Asked(u, ok)
    BY <2>1, AdmitTypes DEF Asked
  <2>3. CASE given = 0
    BY <1>2, <1>8, <2>2, <2>3
  <2>4. CASE given \in Lease
    <3>1. run'[w].lease = run[w].lease /\ (run[w].lost => run'[w].lost \/ u = w)
      BY <1>3, <1>8, <2>2, <2>4
    <3> QED
      BY <1>8, <3>1
  <2> QED
    BY <2>2, <2>3, <2>4
<1>9. ASSUME NEW ok \in BOOLEAN, AdmitJob(w, ok), run'[w].lease # 0, run'[w] # run[w]
      PROVE  \E given \in Lease :
                 /\ Admit(run[w].job, w, ok)
                 /\ run[w].job \in Job
                 /\ given = Asked(w, ok)
                 /\ run'[w].lease = given
                 /\ \A v \in Worker : run[v].lease = given => run'[v].lost /\ run'[w].lost
                 /\ \A v \in Worker \ {w} : run'[v].lease = run[v].lease
  <2>1. run[w].job \in Job /\ Admit(run[w].job, w, ok)
    BY <1>0, <1>9 DEF AdmitJob, RunsTyped
  <2>2. PICK given \in Lease \cup {0} : given = Asked(w, ok)
    BY <2>1, AdmitTypes DEF Asked
  <2>3. given \in Lease
    BY <1>2, <1>9, <2>2
  <2>4. ASSUME NEW x \in Worker, run[x].lease = given PROVE run'[x].lost
    BY <1>3, <1>9, <2>2, <2>3, <2>4
  <2>5. run'[w].lease = given /\ \A v \in Worker : run[v].lease = given => run'[w].lost
    BY <1>3, <1>9, <2>2, <2>3
  <2>6. ASSUME NEW x \in Worker \ {w} PROVE run'[x].lease = run[x].lease
    BY <1>3, <1>9, <2>2, <2>3
  <2> QED
    BY <2>1, <2>2, <2>3, <2>4, <2>5, <2>6
<1>10. CASE \E ok \in BOOLEAN : AdmitJob(w, ok)
  BY <1>9, <1>10
<1> QED
  BY <1>1, <1>4, <1>5, <1>6, <1>7, <1>8, <1>10, RunSteps DEF WorkerStep

(* A branch owns what it owned, or what it was just given. *)
LEMMA OwnedFate ==
    ASSUME Typed, [Next]_vars, NEW b \in Branch, branch'[b].pc = "owned"
    PROVE  \/ branch[b].pc = "owned" /\ branch'[b].lease = branch[b].lease
           \/ \E w \in Worker, ok \in BOOLEAN :
                 /\ ReserveBranch(b, w, ok)
                 /\ branch'[b].lease = Given(b, BranchClass[b], ok)
<1>0. branch \in [Branch -> Branches]
  BY DEF Typed, BranchesTyped
<1>1. ASSUME NEW c \in Branch, NEW w \in Worker, Borrow(c, w)
      PROVE  branch'[b] = branch[b]
  BY <1>0, <1>1 DEF Borrow
<1>2. ASSUME NEW c \in Branch, NEW w \in Worker, NEW ok \in BOOLEAN, ReserveBranch(c, w, ok)
      PROVE  \/ branch'[b] = branch[b]
             \/ c = b /\ branch'[b].lease = Given(b, BranchClass[b], ok)
  <2>1. PICK given : given = Given(c, BranchClass[c], ok)
    OBVIOUS
  <2>2. branch' = [branch EXCEPT ![c] = [pc |-> "owned", worker |-> w, lease |-> given]]
    BY <1>2, <2>1, BranchRows
  <2>3. CASE c = b
    <3>1. branch'[b].lease = given
      BY <1>0, <2>2, <2>3
    <3> QED
      BY <2>1, <2>3, <3>1
  <2>4. CASE c # b
    BY <1>0, <2>2, <2>4
  <2> QED
    BY <2>3, <2>4
<1>3. ASSUME NEW c \in Branch, EndBranch(c) PROVE branch'[b] = branch[b]
  BY <1>0, <1>3 DEF EndBranch, NoBranch
<1>4. ASSUME NEW w \in Worker, Crash(w) PROVE branch'[b] = branch[b]
  BY <1>0, <1>4 DEF Crash, NoBranch
<1> QED
  BY <1>1, <1>2, <1>3, <1>4, BranchSteps

(* What takes a live reservation away: its expiry, the operator, the       *)
(* recovery of a dead worker's process, the end of the run or of the       *)
(* branch that holds it.                                                   *)
LEMMA LiveLost ==
    ASSUME Typed, [Next]_vars, NEW l \in Lease, lease[l].state = "live", lease'[l].state # "live"
    PROVE  \/ run' = Losing({l})
           \/ \E w \in Worker : run[w].lease = l /\ run' = [run EXCEPT ![w] = NoRun]
           \/ \E b \in Branch : EndBranch(b) /\ branch[b].pc = "owned" /\ branch[b].lease = l
<1>0. TypeOK
  BY TypedMore
<1>1. ASSUME NEW k, Release(k) PROVE k = l /\ ~Held(k)
  BY <1>0, <1>1, ReleaseRows
<1>2. ASSUME NEW w \in Worker, Claim(w) \/ ReleaseOwn(w)
      PROVE  run[w].lease = l /\ run' = [run EXCEPT ![w] = NoRun]
  BY <1>1, <1>2 DEF Claim, ReleaseOwn, leaseVars
<1>3. ASSUME NEW k \in Lease, OperatorRelease(k) \/ ReleaseOrphan(k) PROVE run' = Losing({l})
  <2>1. Release(k) /\ run' = Losing(Freeable(k))
    BY <1>3 DEF OperatorRelease, ReleaseOrphan
  <2>2. k = l /\ ~Held(k)
    BY <1>1, <2>1
  <2>3. Freeable(k) = {l}
    BY <2>2 DEF Freeable
  <2> QED
    BY <2>1, <2>3
<1>4. ASSUME NEW k \in Lease, Lapse(k) \/ RenewalLate(k) PROVE run' = Losing({l})
  <2>1. Expired(k)
    BY <1>4 DEF Lapse, RenewalLate
  <2>2. k = l
    BY <1>0, <2>1, ExpiredRows
  <2> QED
    BY <2>1, <2>2 DEF Expired
<1>5. ASSUME NEW b \in Branch, EndBranch(b) PROVE branch[b].pc = "owned" /\ branch[b].lease = l
  <2>1. lease \in [Lease -> Row]
    BY DEF Typed, RowsTyped
  <2>2. \/ lease' = lease
        \/ /\ branch[b].pc = "owned"
           /\ \E row : lease' = [lease EXCEPT ![branch[b].lease] = row]
    BY <1>5 DEF EndBranch, leaseVars
  <2> QED
    BY <2>1, <2>2
<1>6. ASSUME NEW e, NEW row, row.state = "live", NEW given,
             lease'[l] = IF Existing(e) = {} /\ l = given THEN row
                         ELSE IF l \in Recoverable THEN Released ELSE lease[l]
      PROVE  FALSE
  BY <1>6 DEF Recoverable
<1>7. ASSUME NEW j \in Job, NEW owner \in Worker, NEW ok, Admit(j, owner, ok) PROVE FALSE
  <2>1. PICK given, row : /\ given = Given(j, JobClass[j], ok)
                          /\ row = NewRow(j, JobClass[j], owner, None)
    OBVIOUS
  <2>2. row.state = "live"
    BY <2>1 DEF NewRow
  <2>3. lease'[l] = IF Existing(j) = {} /\ l = given THEN row
                    ELSE IF l \in Recoverable THEN Released ELSE lease[l]
    BY <1>0, <1>7, <2>1, AdmitRows
  <2> QED
    BY <1>6, <2>2, <2>3
<1>8. ASSUME NEW b \in Branch, NEW w \in Worker, NEW ok \in BOOLEAN, ReserveBranch(b, w, ok)
      PROVE  FALSE
  <2>1. PICK given, row : /\ given = Given(b, BranchClass[b], ok)
                          /\ row = NewRow(b, BranchClass[b], w, run[w].job)
    OBVIOUS
  <2>2. row.state = "live"
    BY <2>1 DEF NewRow
  <2>3. lease'[l] = IF Existing(b) = {} /\ l = given THEN row
                    ELSE IF l \in Recoverable THEN Released ELSE lease[l]
    BY <1>8, <2>1, BranchRows
  <2> QED
    BY <1>6, <2>2, <2>3
<1>9. ASSUME NEW w \in Worker, NEW ok \in BOOLEAN, AdmitJob(w, ok) PROVE FALSE
  <2>1. run[w].job \in Job /\ Admit(run[w].job, w, ok)
    BY <1>9 DEF AdmitJob, Typed, RunsTyped
  <2> QED
    BY <1>7, <2>1
<1>10. ASSUME NEW j \in Job, NEW ok \in BOOLEAN, Reevaluate(j, ok) PROVE FALSE
  BY <1>7, <1>10 DEF Reevaluate
<1>11. ASSUME RecoverExpired PROVE FALSE
  BY <1>0, <1>11, FreedRows DEF RecoverExpired, Recoverable
<1>12. ASSUME NEW k \in Lease, Evict(k) PROVE FALSE
  BY <1>12 DEF Evict
<1>13. CASE \E j \in Job, ok \in BOOLEAN : Reevaluate(j, ok)
  BY <1>10, <1>13
<1>14. CASE \E w \in Worker, ok \in BOOLEAN : AdmitJob(w, ok)
  BY <1>9, <1>14
<1>15. CASE \E b \in Branch, w \in Worker, ok \in BOOLEAN : ReserveBranch(b, w, ok)
  BY <1>8, <1>15
<1>16. lease' # lease
  OBVIOUS
<1> QED
  BY <1>2, <1>3, <1>4, <1>5, <1>11, <1>12, <1>13, <1>14, <1>15, <1>16, LeaseSteps

(* What a run or a branch refers to is not handed out again: its row is    *)
(* kept or freed.                                                          *)
LEMMA ReferredFate ==
    ASSUME Typed, [Next]_vars, NEW l \in Lease,
           \/ \E w \in Worker : run[w].lease = l
           \/ \E b \in Branch : branch[b].lease = l
    PROVE  Kept(l) \/ Gone(l)
  BY RowFate DEF Made, Fresh

(* A referred row keeps its execution until it is freed. *)
LEMMA OwnRowsStep == Typed /\ OwnRows /\ [Next]_vars => OwnRows'
<1> SUFFICES ASSUME Typed, OwnRows, [Next]_vars PROVE OwnRows'
  OBVIOUS
<1>1. ASSUME NEW w \in Worker, NEW l \in Lease, run'[w].lease = l, lease'[l].state # "released"
      PROVE  lease'[l].exec \in Job
  <2>1. CASE run[w].lease = l
    <3>1. Kept(l)
      BY <1>1, <2>1, ReferredFate DEF Gone
    <3>2. lease[l].state # "released" /\ lease'[l].exec = lease[l].exec
      BY <1>1, <3>1 DEF Kept
    <3> QED
      BY <2>1, <3>2 DEF OwnRows
  <2>2. CASE run[w].lease # l
    <3>1. PICK ok \in BOOLEAN : /\ Admit(run[w].job, w, ok)
                                /\ run[w].job \in Job
                                /\ l = Given(run[w].job, JobClass[run[w].job], ok)
      BY <1>1, <2>2, RunFate, LeaseNotZero DEF Asked
    <3> QED
      BY <1>1, <3>1, AdmitGives, LeaseNotZero
  <2> QED
    BY <2>1, <2>2
<1>2. ASSUME NEW b \in Branch, branch'[b].pc = "owned", NEW l \in Lease, branch'[b].lease = l,
             lease'[l].state # "released"
      PROVE  lease'[l].exec = b
  <2>1. CASE branch[b].pc = "owned" /\ branch[b].lease = l
    <3>1. Kept(l)
      BY <1>2, <2>1, ReferredFate DEF Gone
    <3>2. lease[l].state # "released" /\ lease'[l].exec = lease[l].exec
      BY <1>2, <3>1 DEF Kept
    <3> QED
      BY <2>1, <3>2 DEF OwnRows
  <2>2. CASE ~(branch[b].pc = "owned" /\ branch[b].lease = l)
    <3>1. PICK w \in Worker, ok \in BOOLEAN :
             ReserveBranch(b, w, ok) /\ branch'[b].lease = Given(b, BranchClass[b], ok)
      BY <1>2, <2>2, OwnedFate
    <3> QED
      BY <1>2, <3>1, BranchGives
  <2> QED
    BY <2>1, <2>2
<1>3. BranchesTyped'
  BY BranchesStep
<1> QED
  BY <1>1, <1>2, <1>3 DEF OwnRows, BranchesTyped

(* admit returns a live row only for its own execution, so a run and a     *)
(* branch never share one.                                                 *)
LEMMA ApartStep == Typed /\ OwnRows /\ Apart /\ [Next]_vars => Apart'
<1> SUFFICES ASSUME Typed, OwnRows, Apart, [Next]_vars,
                    NEW w \in Worker, NEW b \in Branch, branch'[b].pc = "owned",
                    NEW l, l = branch'[b].lease, run'[w].lease = l
             PROVE  FALSE
  BY DEF Apart
<1>1. l \in Lease
  BY BranchesStep DEF BranchesTyped
<1>2. b \notin Job
  BY ResourceAssumption
<1>3. CASE run[w].lease = l
  <2>1. PICK v \in Worker, ok \in BOOLEAN :
           ReserveBranch(b, v, ok) /\ l = Given(b, BranchClass[b], ok)
    BY <1>3, OwnedFate DEF Apart
  <2>2. lease[l].state = "live" /\ lease[l].exec = b
    BY <1>3, <2>1, BranchGives
  <2> QED
    BY <1>1, <1>2, <1>3, <2>2 DEF OwnRows
<1>4. CASE run[w].lease # l
  <2>1. PICK ok \in BOOLEAN : /\ Admit(run[w].job, w, ok)
                              /\ run[w].job \in Job
                              /\ l = Given(run[w].job, JobClass[run[w].job], ok)
    BY <1>1, <1>4, RunFate, LeaseNotZero DEF Asked
  <2>2. PICK j \in Job : j = run[w].job
    BY <2>1
  <2>3. /\ lease'[l].exec = j
        /\ \/ lease[l].state = "live" /\ lease[l].exec = j
           \/ \A c \in Branch : branch[c].lease # l
    BY <1>1, <2>1, <2>2, AdmitGives, LeaseNotZero
  <2>4. CASE branch[b].pc = "owned" /\ branch[b].lease = l
    BY <1>2, <2>3, <2>4 DEF OwnRows
  <2>5. CASE ~(branch[b].pc = "owned" /\ branch[b].lease = l)
    <3>1. PICK v \in Worker, o \in BOOLEAN :
             ReserveBranch(b, v, o) /\ l = Given(b, BranchClass[b], o)
      BY <2>5, OwnedFate
    <3>2. lease'[l].exec = b
      BY <3>1, BranchGives
    <3> QED
      BY <1>2, <2>3, <3>2
  <2> QED
    BY <2>4, <2>5
<1> QED
  BY <1>3, <1>4

(* A worker that is given a lease another one refers to makes both note it.*)
LEMMA SharingStep == Typed /\ SharingNoted /\ [Next]_vars => SharingNoted'
<1> SUFFICES ASSUME Typed, SharingNoted, [Next]_vars, NEW v \in Worker, NEW w \in Worker, v # w,
                    NEW l \in Lease, run'[v].lease = l, run'[w].lease = l
             PROVE  run'[w].lost
  BY DEF SharingNoted
<1>1. CASE run[w].lease = l /\ run[v].lease = l
  <2>1. run[w].lost
    BY <1>1 DEF SharingNoted
  <2>2. CASE run[w].lost => run'[w].lost
    BY <2>1, <2>2
  <2>3. CASE \A u \in Worker : run[u].lease = l => run'[u].lost
    BY <1>1, <2>3
  <2> QED
    BY <1>1, <2>2, <2>3, RunFate, LeaseNotZero
<1>2. CASE run[w].lease # l
  <2>1. /\ \A u \in Worker : run[u].lease = l => run'[u].lost /\ run'[w].lost
        /\ \A u \in Worker \ {w} : run'[u].lease = run[u].lease
    BY <1>2, RunFate, LeaseNotZero
  <2> QED
    BY <2>1
<1>3. CASE run[v].lease # l
  <2>1. /\ \A u \in Worker : run[u].lease = l => run'[u].lost /\ run'[v].lost
        /\ \A u \in Worker \ {v} : run'[u].lease = run[u].lease
    BY <1>3, RunFate, LeaseNotZero
  <2> QED
    BY <2>1
<1> QED
  BY <1>1, <1>2, <1>3

(* A live lease goes only when its run is told, ends or shares it.          *)
LEMMA LossStep == Typed /\ Holding /\ [Next]_vars => LossNoted'
<1> SUFFICES ASSUME Typed, Holding, [Next]_vars, NEW w \in Worker, NEW l \in Lease,
                    run'[w].lease = l, lease'[l].state # "live"
             PROVE  run'[w].lost
  BY DEF LossNoted
<1> USE DEF Holding
<1>0. RunsTyped
  BY DEF Typed
<1>1. run[w].lease = l
  <2>1. ASSUME NEW ok \in BOOLEAN, Admit(run[w].job, w, ok), run[w].job \in Job,
               l = Given(run[w].job, JobClass[run[w].job], ok)
        PROVE  FALSE
    BY <2>1, AdmitGives, LeaseNotZero
  <2> QED
    BY <2>1, RunFate, LeaseNotZero DEF Asked
<1>2. run[w].lost => run'[w].lost
  BY <1>1, RunFate, LeaseNotZero
<1>3. CASE lease[l].state # "live"
  BY <1>1, <1>2, <1>3 DEF LossNoted
<1>4. CASE lease[l].state = "live"
  <2>1. CASE run' = Losing({l})
    <3>1. Losing({l})[w].lost = (run[w].lost \/ run[w].lease \in {l})
      BY TypedMore, LosingRuns
    <3> QED
      BY <1>1, <2>1, <3>1
  <2>2. ASSUME NEW u \in Worker, run[u].lease = l, run' = [run EXCEPT ![u] = NoRun]
        PROVE  run'[w].lost
    <3>1. u # w
      BY <1>0, <2>2, LeaseNotZero DEF RunsTyped, NoRun
    <3> QED
      BY <1>1, <1>2, <2>2, <3>1 DEF SharingNoted
  <2>3. ASSUME NEW b \in Branch, branch[b].pc = "owned", branch[b].lease = l
        PROVE  FALSE
    BY <1>1, <2>3 DEF Apart
  <2> QED
    BY <1>4, <2>1, <2>2, <2>3, LiveLost
<1> QED
  BY <1>3, <1>4

(* No run holds a lease at the start. *)
LEMMA HoldingInit == Init => Holding
  BY LeaseNotZero DEF Init, NoRun, NoBranch, Holding, LossNoted, SharingNoted, OwnRows, Apart

(* A job that executes keeps its reservation unless, while it worked on    *)
(* it, the reservation expired, the operator released it, another worker   *)
(* was given the same one, or the recovery of a dead worker's process,     *)
(* which had the same one, released it: not recover_expired, the branches  *)
(* of any job or another worker's close take it away.                      *)
THEOREM ReservationIsKept == Spec => []ReservationKept
<1>1. Typed /\ Holding => ReservationKept
  <2> SUFFICES ASSUME Typed, Holding, NEW w \in Worker, run[w].pc \in Executing,
                      lease[run[w].lease].state = "released"
               PROVE  run[w].lost
    BY DEF ReservationKept
  <2>1. run[w].lease \in Lease
    BY DEF Executing, Typed, RunsTyped
  <2> QED
    BY <2>1 DEF Holding, LossNoted
<1>2. Typed /\ Holding /\ [Next]_vars => Holding'
  BY LossStep, SharingStep, OwnRowsStep, ApartStep DEF Holding
<1> QED
  BY <1>1, <1>2, TypeInit, TypeStep, HoldingInit, PTL DEF Spec

-----------------------------------------------------------------------------
(* The policy on a set of reservations: what _decide keeps within bounds.  *)
(* The class of each reservation is given by c.                            *)
HeavyOf(c, S)   == {l \in S : WORKLOAD_PROFILES[c[l]].heavy}
LightOf(c, S)   == {l \in S : WORKLOAD_PROFILES[c[l]].light}
CpuShare(c, S)  == {u \in S \X (1..100) : u[2] <= WORKLOAD_PROFILES[c[u[1]]].cpu}
Exclusive(c, S) == /\ \A l, m \in S : l # m /\ c[l] = "unreal_cook" => c[m] = "control_plane"
                   /\ ~\E l, m \in S : c[l] = "browser_test" /\ c[m] = "build_heavy"

Fits(c, S) == /\ Cardinality(HeavyOf(c, S)) <= MaxHeavy
              /\ Cardinality(LightOf(c, S)) <= MaxLight
              /\ Cardinality(CpuShare(c, S)) <= MaxCpu
              /\ Exclusive(c, S)

(* Sets of rows are finite, and so are the shares counted over them. *)
LEMMA RowsFinite ==
    ASSUME NEW S \in SUBSET Lease, NEW c
    PROVE  /\ IsFiniteSet(S)
           /\ IsFiniteSet(HeavyOf(c, S)) /\ Cardinality(HeavyOf(c, S)) \in Nat
           /\ IsFiniteSet(LightOf(c, S)) /\ Cardinality(LightOf(c, S)) \in Nat
           /\ IsFiniteSet(CpuShare(c, S)) /\ Cardinality(CpuShare(c, S)) \in Nat
<1>1. IsFiniteSet(S)
  <2>1. IsFiniteSet(Lease)
    BY Bounds, FS_Interval DEF Lease
  <2> QED
    BY <2>1, FS_Subset
<1>2. HeavyOf(c, S) \in SUBSET S /\ LightOf(c, S) \in SUBSET S
  BY DEF HeavyOf, LightOf
<1>3. IsFiniteSet(S \X (1..100))
  <2>1. IsFiniteSet(1..100)
    <3>1. PICK n \in Int : n = 100
      OBVIOUS
    <3>2. IsFiniteSet(1..n)
      BY FS_Interval
    <3> QED
      BY <3>1, <3>2
  <2> QED
    BY <1>1, <2>1, FS_Product
<1>4. CpuShare(c, S) \in SUBSET (S \X (1..100))
  BY DEF CpuShare
<1>5. IsFiniteSet(HeavyOf(c, S)) /\ IsFiniteSet(LightOf(c, S)) /\ IsFiniteSet(CpuShare(c, S))
  BY <1>1, <1>2, <1>3, <1>4, FS_Subset
<1> QED
  BY <1>1, <1>5, FS_CardinalityType

(* Fewer reservations of the same classes fit too: freeing and expiring    *)
(* never break the policy.                                                 *)
LEMMA FitsSubset ==
    ASSUME NEW S \in SUBSET Lease, NEW T \in SUBSET S, NEW c, NEW d,
           \A l \in T : d[l] = c[l], Fits(c, S)
    PROVE  Fits(d, T)
<1>1. T \in SUBSET Lease
  OBVIOUS
<1>2. /\ IsFiniteSet(HeavyOf(c, S)) /\ Cardinality(HeavyOf(c, S)) \in Nat
      /\ IsFiniteSet(LightOf(c, S)) /\ Cardinality(LightOf(c, S)) \in Nat
      /\ IsFiniteSet(CpuShare(c, S)) /\ Cardinality(CpuShare(c, S)) \in Nat
  BY RowsFinite
<1>3. /\ Cardinality(HeavyOf(d, T)) \in Nat
      /\ Cardinality(LightOf(d, T)) \in Nat
      /\ Cardinality(CpuShare(d, T)) \in Nat
  BY <1>1, RowsFinite
<1>4. HeavyOf(d, T) \in SUBSET HeavyOf(c, S)
  BY DEF HeavyOf
<1>5. LightOf(d, T) \in SUBSET LightOf(c, S)
  BY DEF LightOf
<1>6. CpuShare(d, T) \in SUBSET CpuShare(c, S)
  BY DEF CpuShare
<1>7. /\ Cardinality(HeavyOf(d, T)) <= Cardinality(HeavyOf(c, S))
      /\ Cardinality(LightOf(d, T)) <= Cardinality(LightOf(c, S))
      /\ Cardinality(CpuShare(d, T)) <= Cardinality(CpuShare(c, S))
  BY <1>2, <1>4, <1>5, <1>6, FS_Subset
<1>8. Exclusive(d, T)
  BY DEF Fits, Exclusive
<1> QED
  BY <1>2, <1>3, <1>7, <1>8, Bounds DEF Fits

(* What _decide admits beside reservations that fit, fits.                 *)
LEMMA FitsAdd ==
    ASSUME NEW S \in SUBSET Lease, NEW x \in Lease \ S, NEW c, NEW d, NEW k \in Class,
           \A l \in S : d[l] = c[l], d[x] = k, Fits(c, S),
           Cardinality(CpuShare(c, S)) + WORKLOAD_PROFILES[k].cpu <= MaxCpu,
           \/ WORKLOAD_PROFILES[k].essential
           \/ /\ k = "unreal_cook" => \A l \in S : c[l] = "control_plane"
              /\ \A l \in S : c[l] # "unreal_cook"
              /\ k = "browser_test" => \A l \in S : c[l] # "build_heavy"
              /\ k = "build_heavy" => \A l \in S : c[l] # "browser_test"
              /\ WORKLOAD_PROFILES[k].heavy => Cardinality(HeavyOf(c, S)) < MaxHeavy
              /\ WORKLOAD_PROFILES[k].light => Cardinality(LightOf(c, S)) < MaxLight
    PROVE  Fits(d, S \cup {x})
<1> DEFINE T == S \cup {x}
<1>1. /\ WORKLOAD_PROFILES[k].cpu \in 1..100
      /\ WORKLOAD_PROFILES[k].essential => k = "control_plane"
      /\ k = "control_plane" => ~WORKLOAD_PROFILES[k].heavy /\ ~WORKLOAD_PROFILES[k].light
  BY Profiles
<1>2. /\ IsFiniteSet(HeavyOf(c, S)) /\ Cardinality(HeavyOf(c, S)) \in Nat
      /\ IsFiniteSet(LightOf(c, S)) /\ Cardinality(LightOf(c, S)) \in Nat
      /\ IsFiniteSet(CpuShare(c, S)) /\ Cardinality(CpuShare(c, S)) \in Nat
  BY RowsFinite
<1>3. Cardinality(HeavyOf(d, T)) <= MaxHeavy
  <2>1. CASE WORKLOAD_PROFILES[k].heavy
    <3>0. \A l \in T : WORKLOAD_PROFILES[d[l]].heavy <=>
                        l = x \/ (l \in S /\ WORKLOAD_PROFILES[c[l]].heavy)
      BY <2>1
    <3>1. HeavyOf(d, T) = HeavyOf(c, S) \cup {x} /\ x \notin HeavyOf(c, S)
      BY <3>0 DEF HeavyOf
    <3>2. Cardinality(HeavyOf(d, T)) = Cardinality(HeavyOf(c, S)) + 1
      <4>1. PICK H : H = HeavyOf(c, S)
        OBVIOUS
      <4>2. IsFiniteSet(H) /\ x \notin H
        BY <1>2, <3>1, <4>1
      <4>3. Cardinality(H \cup {x}) = Cardinality(H) + 1
        BY <4>2, FS_AddElement
      <4> QED
        BY <3>1, <4>1, <4>3
    <3>3. Cardinality(HeavyOf(c, S)) < MaxHeavy
      BY <1>1, <2>1
    <3> QED
      BY <1>2, <3>2, <3>3, Bounds
  <2>2. CASE ~WORKLOAD_PROFILES[k].heavy
    <3>1. HeavyOf(d, T) = HeavyOf(c, S)
      BY <2>2 DEF HeavyOf
    <3> QED
      BY <3>1 DEF Fits
  <2> QED
    BY <2>1, <2>2
<1>4. Cardinality(LightOf(d, T)) <= MaxLight
  <2>1. CASE WORKLOAD_PROFILES[k].light
    <3>0. \A l \in T : WORKLOAD_PROFILES[d[l]].light <=>
                        l = x \/ (l \in S /\ WORKLOAD_PROFILES[c[l]].light)
      BY <2>1
    <3>1. LightOf(d, T) = LightOf(c, S) \cup {x} /\ x \notin LightOf(c, S)
      BY <3>0 DEF LightOf
    <3>2. Cardinality(LightOf(d, T)) = Cardinality(LightOf(c, S)) + 1
      <4>1. PICK H : H = LightOf(c, S)
        OBVIOUS
      <4>2. IsFiniteSet(H) /\ x \notin H
        BY <1>2, <3>1, <4>1
      <4>3. Cardinality(H \cup {x}) = Cardinality(H) + 1
        BY <4>2, FS_AddElement
      <4> QED
        BY <3>1, <4>1, <4>3
    <3>3. Cardinality(LightOf(c, S)) < MaxLight
      BY <1>1, <2>1
    <3> QED
      BY <1>2, <3>2, <3>3, Bounds
  <2>2. CASE ~WORKLOAD_PROFILES[k].light
    <3>1. LightOf(d, T) = LightOf(c, S)
      BY <2>2 DEF LightOf
    <3> QED
      BY <3>1 DEF Fits
  <2> QED
    BY <2>1, <2>2
<1>5. Cardinality(CpuShare(d, T)) <= MaxCpu
  <2> DEFINE n == WORKLOAD_PROFILES[k].cpu
             new == {x} \X (1..n)
  <2>1. n \in 1..100
    BY <1>1
  <2>2. CpuShare(d, T) = CpuShare(c, S) \cup new
    <3> HIDE DEF n
    <3>1. ASSUME NEW u \in T \X (1..100) PROVE u \in CpuShare(d, T) <=> u \in CpuShare(c, S) \cup new
      <4>1. CASE u[1] \in S
        BY <4>1 DEF CpuShare
      <4>2. CASE u[1] = x
        <5>1. u \in CpuShare(d, T) <=> u[2] <= n
          BY <4>2 DEF CpuShare, n
        <5>2. u \notin CpuShare(c, S)
          BY <4>2 DEF CpuShare
        <5>3. u \in new <=> u[2] <= n
          BY <2>1, <4>2
        <5> QED
          BY <5>1, <5>2, <5>3
      <4> QED
        BY <4>1, <4>2
    <3>2. CpuShare(d, T) \subseteq T \X (1..100)
      BY DEF CpuShare
    <3>3. CpuShare(c, S) \cup new \subseteq T \X (1..100)
      BY <2>1 DEF CpuShare
    <3> QED
      BY <3>1, <3>2, <3>3
  <2>3. IsFiniteSet(new) /\ Cardinality(new) = n
    <3>1. IsFiniteSet({x}) /\ Cardinality({x}) = 1
      BY FS_Singleton
    <3>2. PICK m \in Int : m = n /\ 1 <= m
      BY <2>1
    <3>3. IsFiniteSet(1..m) /\ Cardinality(1..m) = m
      <4>1. IsFiniteSet(1..m) /\ Cardinality(1..m) = IF 1 > m THEN 0 ELSE m - 1 + 1
        BY FS_Interval
      <4> QED
        BY <3>2, <4>1
    <3>4. IsFiniteSet({x} \X (1..m)) /\ Cardinality({x} \X (1..m)) = Cardinality({x}) * Cardinality(1..m)
      BY <3>1, <3>3, FS_Product
    <3>5. Cardinality({x} \X (1..m)) = m
      BY <3>1, <3>2, <3>3, <3>4
    <3> QED
      BY <3>2, <3>4, <3>5
  <2>4. CpuShare(c, S) \cap new = {}
    BY DEF CpuShare
  <2>5. Cardinality(CpuShare(d, T)) = Cardinality(CpuShare(c, S)) + n
    <3>1. Cardinality(CpuShare(c, S) \cup new) =
             Cardinality(CpuShare(c, S)) + Cardinality(new) - Cardinality(CpuShare(c, S) \cap new)
      BY <1>2, <2>3, FS_Union
    <3>2. Cardinality(CpuShare(c, S) \cap new) = 0
      BY <2>4, FS_EmptySet
    <3> HIDE DEF n, new, T
    <3> QED
      BY <1>2, <2>1, <2>2, <2>3, <3>1, <3>2
  <2> QED
    BY <2>5
<1>6. Exclusive(d, T)
  BY <1>1 DEF Fits, Exclusive
<1> QED
  BY <1>3, <1>4, <1>5, <1>6 DEF Fits

(* The strengthening of CapacityRespected: it is about every reservation   *)
(* not released.  An expired one without a process tree counts no more for *)
(* _decide, but admit releases it in the transaction that decides; a tree  *)
(* that starts late finds it gone.                                         *)
Reserved == {l \in Lease : lease[l].state # "released"}
ClassMap == [l \in Lease |-> lease[l].class]
ReservedFits == Fits(ClassMap, Reserved)

(* The decision of _decide in terms of Fits. *)
LEMMA AdmissibleFits ==
    ASSUME NEW S \in SUBSET Lease, NEW k \in Class, NEW ok, Admissible(k, S, ok)
    PROVE  /\ Cardinality(CpuShare(ClassMap, S)) + WORKLOAD_PROFILES[k].cpu <= MaxCpu
           /\ \/ WORKLOAD_PROFILES[k].essential
              \/ /\ k = "unreal_cook" => \A l \in S : ClassMap[l] = "control_plane"
                 /\ \A l \in S : ClassMap[l] # "unreal_cook"
                 /\ k = "browser_test" => \A l \in S : ClassMap[l] # "build_heavy"
                 /\ k = "build_heavy" => \A l \in S : ClassMap[l] # "browser_test"
                 /\ WORKLOAD_PROFILES[k].heavy => Cardinality(HeavyOf(ClassMap, S)) < MaxHeavy
                 /\ WORKLOAD_PROFILES[k].light => Cardinality(LightOf(ClassMap, S)) < MaxLight
<1>1. \A l \in S : ClassMap[l] = lease[l].class
  BY DEF ClassMap
<1>2. CpuShare(ClassMap, S) = {u \in S \X (1..100) : u[2] <= WORKLOAD_PROFILES[lease[u[1]].class].cpu}
  BY <1>1 DEF CpuShare
<1>3. /\ HeavyOf(ClassMap, S) = {l \in S : WORKLOAD_PROFILES[lease[l].class].heavy}
      /\ LightOf(ClassMap, S) = {l \in S : WORKLOAD_PROFILES[lease[l].class].light}
  BY <1>1 DEF HeavyOf, LightOf
<1>4. CpuOf(S) + WORKLOAD_PROFILES[k].cpu <= MaxCpu
  BY DEF Admissible
<1>5. \/ WORKLOAD_PROFILES[k].essential
      \/ /\ k = "unreal_cook" => ClassesOf(S) \subseteq {"control_plane"}
         /\ "unreal_cook" \notin ClassesOf(S)
         /\ k = "browser_test" => "build_heavy" \notin ClassesOf(S)
         /\ k = "build_heavy" => "browser_test" \notin ClassesOf(S)
         /\ WORKLOAD_PROFILES[k].heavy => HeavyIn(S) < MaxHeavy
         /\ WORKLOAD_PROFILES[k].light => LightIn(S) < MaxLight
  BY DEF Admissible
<1>6. \A l \in S : ClassMap[l] \in ClassesOf(S)
  BY <1>1 DEF ClassesOf
<1> QED
  BY <1>2, <1>3, <1>4, <1>5, <1>6 DEF CpuOf, HeavyIn, LightIn

(* An admission keeps the policy. *)
LEMMA GrantFits ==
    ASSUME Typed, ReservedFits, NEW e, NEW k \in Class, NEW ok, NEW row, row.class = k,
           NEW given,
           Existing(e) = {} => (given = 0 \/ (given \in Fresh /\ Admissible(k, Active, ok))),
           \A l \in Lease : lease'[l] = IF Existing(e) = {} /\ l = given THEN row
                                        ELSE IF l \in Recoverable THEN Released ELSE lease[l]
    PROVE  ReservedFits'
<1>1. /\ Active \in SUBSET Lease
      /\ Reserved \in SUBSET Lease
      /\ Active \subseteq Reserved
  BY DEF Active, Reserved
<1>2. Fits(ClassMap, Active)
  BY <1>1, FitsSubset DEF ReservedFits
<1>3. ASSUME NEW l \in Lease, l \notin Active, ~(Existing(e) = {} /\ l = given)
      PROVE  lease'[l].state = "released"
  <2>1. lease[l].state \in {"live", "expired", "released"}
    BY DEF Typed, RowsTyped, Row
  <2> QED
    BY <1>3, <2>1 DEF Active, Recoverable, Released
<1>4. \A l \in Active : ~(Existing(e) = {} /\ l = given) => lease'[l] = lease[l]
  BY DEF Active, Recoverable
<1>5. CASE Existing(e) # {} \/ given = 0
  <2>1. Reserved' \in SUBSET Active
    BY <1>3, <1>5, LeaseNotZero DEF Reserved
  <2>2. \A l \in Reserved' : ClassMap'[l] = ClassMap[l]
    BY <1>1, <1>4, <1>5, <2>1, LeaseNotZero DEF ClassMap
  <2> QED
    BY <1>1, <1>2, <2>1, <2>2, FitsSubset DEF ReservedFits
<1>6. CASE Existing(e) = {} /\ given # 0
  <2>1. given \in Fresh /\ Admissible(k, Active, ok)
    BY <1>6
  <2>2. given \in Lease \ Active
    BY <2>1 DEF Fresh, Active, Recoverable
  <2>3. ClassMap'[given] = k /\ \A l \in Active : ClassMap'[l] = ClassMap[l]
    BY <1>1, <1>4, <1>6, <2>2 DEF ClassMap
  <2>4. Fits(ClassMap', Active \cup {given})
    <3>1. PICK d : d = ClassMap'
      OBVIOUS
    <3> QED
      BY <1>1, <1>2, <2>1, <2>2, <2>3, <3>1, AdmissibleFits, FitsAdd
  <2>5. Reserved' \in SUBSET (Active \cup {given})
    BY <1>3 DEF Reserved
  <2>6. Active \cup {given} \in SUBSET Lease
    BY <1>1, <2>2
  <2> QED
    BY <2>4, <2>5, <2>6, FitsSubset DEF ReservedFits
<1> QED
  BY <1>5, <1>6

(* Every step keeps the policy for every reservation not released.         *)
LEMMA FitsStep == Typed /\ ReservedFits /\ [Next]_vars => ReservedFits'
<1> SUFFICES ASSUME Typed, ReservedFits, [Next]_vars PROVE ReservedFits'
  OBVIOUS
<1>1. ASSUME NEW j \in Job, NEW owner \in Worker, NEW ok, Admit(j, owner, ok) PROVE ReservedFits'
  <2>0. PICK k \in Class : k = JobClass[j]
    BY ResourceAssumption
  <2>1. PICK given, row : /\ k = JobClass[j]
                          /\ given = Given(j, JobClass[j], ok)
                          /\ row = NewRow(j, JobClass[j], owner, None)
    BY <2>0
  <2>2. row.class = k
    BY <2>1 DEF NewRow
  <2>3. /\ \A l \in Lease : lease'[l] = IF Existing(j) = {} /\ l = given THEN row
                                        ELSE IF l \in Recoverable THEN Released ELSE lease[l]
        /\ Fresh # {}
    BY <1>1, <2>1, TypedMore, AdmitRows
  <2>4. Existing(j) = {} => (given = 0 \/ (given \in Fresh /\ Admissible(k, Active, ok)))
    BY <2>1, <2>3, GivenCases
  <2> QED
    BY <2>2, <2>3, <2>4, GrantFits
<1>2. ASSUME NEW b \in Branch, NEW w \in Worker, NEW ok, ReserveBranch(b, w, ok) PROVE ReservedFits'
  <2>0. PICK k \in Class : k = BranchClass[b]
    BY ResourceAssumption
  <2>1. PICK given, row : /\ k = BranchClass[b]
                          /\ given = Given(b, BranchClass[b], ok)
                          /\ row = NewRow(b, BranchClass[b], w, run[w].job)
    BY <2>0
  <2>2. row.class = k
    BY <2>1 DEF NewRow
  <2>3. /\ \A l \in Lease : lease'[l] = IF Existing(b) = {} /\ l = given THEN row
                                        ELSE IF l \in Recoverable THEN Released ELSE lease[l]
        /\ Fresh # {}
    BY <1>2, <2>1, BranchRows
  <2>4. Existing(b) = {} => (given = 0 \/ (given \in Fresh /\ Admissible(k, Active, ok)))
    BY <2>1, <2>3, GivenCases
  <2> QED
    BY <2>2, <2>3, <2>4, GrantFits
<1>3. CASE \A l \in Lease : Kept(l) \/ Gone(l)
  <2>1. Reserved \in SUBSET Lease /\ Reserved' \in SUBSET Reserved
    BY <1>3 DEF Reserved, Kept, Gone
  <2>2. \A l \in Reserved' : ClassMap'[l] = ClassMap[l]
    BY <1>3 DEF Reserved, ClassMap, Kept, Gone
  <2> QED
    BY <2>1, <2>2, FitsSubset DEF ReservedFits
<1>4. CASE \E j \in Job, owner \in Worker, ok \in BOOLEAN : Admit(j, owner, ok)
  BY <1>1, <1>4
<1>5. CASE \E b \in Branch, w \in Worker, ok \in BOOLEAN : ReserveBranch(b, w, ok)
  BY <1>2, <1>5
<1> QED
  BY <1>3, <1>4, <1>5, RowFate

(* No reservation, no load. *)
LEMMA FitsInit == Init => ReservedFits
<1> SUFFICES ASSUME Init PROVE ReservedFits
  OBVIOUS
<1>1. Reserved = {}
  BY DEF Init, Reserved, Released
<1>2. HeavyOf(ClassMap, {}) = {} /\ LightOf(ClassMap, {}) = {} /\ CpuShare(ClassMap, {}) = {}
  BY DEF HeavyOf, LightOf, CpuShare
<1> QED
  BY <1>1, <1>2, FS_EmptySet, Bounds DEF ReservedFits, Fits, Exclusive

(* What the host is committed to stays within the policy, whatever the     *)
(* order of admissions, expiries, crashes and late releases: heavy and     *)
(* light slots, the exclusive cook, browser tests beside builds and the    *)
(* CPU budget (_decide, in the transaction that recovers and inserts).     *)
THEOREM CapacityIsRespected == Spec => []CapacityRespected
<1>1. ReservedFits => CapacityRespected
  <2> SUFFICES ASSUME ReservedFits PROVE CapacityRespected
    OBVIOUS
  <2>1. Reserved \in SUBSET Lease /\ Committed \in SUBSET Reserved
    BY DEF Reserved, Committed
  <2>2. Fits(ClassMap, Committed)
    BY <2>1, FitsSubset DEF ReservedFits
  <2>3. \A l \in Committed : ClassMap[l] = lease[l].class
    BY DEF ClassMap, Committed
  <2>4. /\ HeavyOf(ClassMap, Committed) = {l \in Committed : WORKLOAD_PROFILES[lease[l].class].heavy}
        /\ LightOf(ClassMap, Committed) = {l \in Committed : WORKLOAD_PROFILES[lease[l].class].light}
        /\ CpuShare(ClassMap, Committed) =
              {u \in Committed \X (1..100) : u[2] <= WORKLOAD_PROFILES[lease[u[1]].class].cpu}
    BY <2>3 DEF HeavyOf, LightOf, CpuShare
  <2>5. /\ HeavyIn(Committed) <= MaxHeavy
        /\ LightIn(Committed) <= MaxLight
        /\ CpuOf(Committed) <= MaxCpu
    BY <2>2, <2>4 DEF Fits, HeavyIn, LightIn, CpuOf
  <2>6. \A l \in Committed : lease[l].class = "unreal_cook" =>
           ClassesOf(Committed \ {l}) \subseteq {"control_plane"}
    BY <2>2, <2>3 DEF Fits, Exclusive, ClassesOf
  <2>7. ~({"browser_test", "build_heavy"} \subseteq ClassesOf(Committed))
    BY <2>2, <2>3 DEF Fits, Exclusive, ClassesOf
  <2> QED
    BY <2>5, <2>6, <2>7 DEF CapacityRespected
<1> QED
  BY <1>1, FitsInit, FitsStep, TypeInit, TypeStep, PTL DEF Spec
=============================================================================
