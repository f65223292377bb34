-------------------------- MODULE WorkerLeadership --------------------------
(***************************************************************************)
(* Leadership of the local worker: the lease row, the heartbeats and the   *)
(* operator's control row of workers/leadership.py, and the two threads of *)
(* a worker process of workers/runtime.py (the scheduler loop and the      *)
(* leadership watcher) that share the mutable _fencing_token.              *)
(*                                                                         *)
(* Time is relative.  lease.ttl stands for expires_at - now, so that       *)
(* "expires_at > now" is ttl > 0.  Every operation reads the clock BEFORE  *)
(* it waits for the write lock (BEGIN IMMEDIATE, busy_timeout 30 s): a     *)
(* waiting thread carries the age of its reading (lag), compares with      *)
(* ttl > -lag and writes LeaseLen - lag.  Ages are cut off at MaxLag,      *)
(* where SQLite gives up with SQLITE_BUSY.                                 *)
(*                                                                         *)
(* Worker identifiers are uuids made at process start: a restarted worker  *)
(* is another element of Worker, and a process that is down stays down.    *)
(***************************************************************************)
EXTENDS Integers, FiniteSets

CONSTANTS Worker, NoWorker,
          LeaseLen,     \* DEFAULT_LEADER_LEASE_SECONDS, in ticks
          MaxLag,       \* busy_timeout, in ticks
          Commands,     \* the desired states the operator asks for
          MaxToken,     \* bound: takeovers explored
          MaxRequests   \* bound: run-once requests explored

None == 0       \* NULL in a token or run-once column, None in _fencing_token
DesiredState == {"paused", "running", "draining", "stopped", "emergency_stopped"}
ExitState    == {"draining", "stopped", "emergency_stopped"}

ASSUME ConstantsAssumption ==
    /\ NoWorker \notin Worker
    /\ LeaseLen \in Nat \ {0}
    /\ MaxLag \in Nat
    /\ Commands \subseteq DesiredState
    /\ MaxToken \in Nat
    /\ MaxRequests \in Nat

VARIABLES lease,     \* the singleton row of worker_leader_leases
          beat,      \* worker_heartbeats.fencing_token; role is leader iff not None
          control,   \* the row of worker_control_state
          requests,  \* run-once requests made so far (each its own timestamp)
          pc,        \* scheduler loop of each process
          mem,       \* self._fencing_token, shared by both threads
          dec,       \* the loop's local decision.fencing_token, None if standby
          ctl,       \* the loop's local copy of the control row
          arg,       \* token passed to the loop's pending renew, release or batch
          lag,       \* age of the clock reading the loop carries while it waits
          watch,     \* token the watcher passed to renew, None between renewals
          watchLost, \* the watcher's renew came back False, token not cleared yet
          watchLag,  \* age of the watcher's clock reading
          applied    \* history: the last fenced write the database accepted

dbVars    == <<lease, beat, control, requests>>
loopVars  == <<pc, mem, dec, ctl, arg, lag>>
watchVars == <<watch, watchLost, watchLag>>
vars      == <<dbVars, loopVars, watchVars, applied>>

Token   == 0..MaxToken
Request == 0..MaxRequests
Lag     == 0..MaxLag
Control == [desired : DesiredState, runOnce : Request]
Lease   == [owner : Worker \cup {NoWorker}, token : Token, ttl : Int]

(* Points of run_forever where another thread or process can interleave.   *)
WaitingPc == {"acquiring", "renewing", "writing", "releasing"}
Pc == WaitingPc \cup {"new", "idle", "decided", "leading", "consuming",
                      "preflight", "batch", "exiting", "down"}

TypeOK ==
    /\ lease \in Lease
    /\ beat \in [Worker -> Token]
    /\ control \in Control
    /\ requests \in Request
    /\ pc \in [Worker -> Pc]
    /\ mem \in [Worker -> Token]
    /\ dec \in [Worker -> Token]
    /\ ctl \in [Worker -> Control]
    /\ arg \in [Worker -> Token]
    /\ lag \in [Worker -> Lag]
    /\ watch \in [Worker -> Token]
    /\ watchLost \in [Worker -> BOOLEAN]
    /\ watchLag \in [Worker -> Lag]
    /\ applied \in [owner : Worker \cup {NoWorker}, token : Token]

DefaultControl == [desired |-> "paused", runOnce |-> None]

Init ==
    /\ lease = [owner |-> NoWorker, token |-> 0, ttl |-> 0]
    /\ beat = [w \in Worker |-> None]
    /\ control = DefaultControl
    /\ requests = 0
    /\ pc = [w \in Worker |-> "new"]
    /\ mem = [w \in Worker |-> None]
    /\ dec = [w \in Worker |-> None]
    /\ ctl = [w \in Worker |-> DefaultControl]
    /\ arg = [w \in Worker |-> None]
    /\ lag = [w \in Worker |-> 0]
    /\ watch = [w \in Worker |-> None]
    /\ watchLost = [w \in Worker |-> FALSE]
    /\ watchLag = [w \in Worker |-> 0]
    /\ applied = [owner |-> NoWorker, token |-> 0]
-----------------------------------------------------------------------------
(* Helpers.                                                                *)

Live == lease.ttl > 0

(* Move the loop of w to p with these locals: the token passed to what it  *)
(* calls there, the decision and the control row.  A thread that starts to *)
(* wait reads the clock.                                                   *)
Move(w, p, a, d, c) ==
    /\ pc' = [pc EXCEPT ![w] = p]
    /\ arg' = [arg EXCEPT ![w] = a]
    /\ dec' = [dec EXCEPT ![w] = d]
    /\ ctl' = [ctl EXCEPT ![w] = c]
    /\ lag' = [lag EXCEPT ![w] = 0]

Goto(w, p)    == Move(w, p, arg[w], dec[w], ctl[w])
Call(w, p, t) == Move(w, p, t, dec[w], ctl[w])
Leave(w, p)   == Move(w, p, None, None, DefaultControl)  \* locals are gone

(* expires_at > now, for a thread whose clock reading is age ticks old.    *)
StillValid(age) == lease.ttl > -age

(* UPDATE ... WHERE owner_id = ? AND fencing_token = ? AND expires_at > ?  *)
RenewMatches(w, t, age) ==
    /\ t # None
    /\ lease.owner = w
    /\ lease.token = t
    /\ StillValid(age)
-----------------------------------------------------------------------------
(* The process and its scheduler loop.                                     *)

Start(w) ==
    /\ pc[w] = "new"
    /\ Leave(w, "idle")
    /\ UNCHANGED <<dbVars, mem, watchVars, applied>>

BeginAcquire(w) ==
    /\ pc[w] = "idle"
    /\ Goto(w, "acquiring")
    /\ UNCHANGED <<dbVars, mem, watchVars, applied>>

(* acquire: a missing or expired row is taken with the next token, one's   *)
(* own live row is renewed, another's is left alone.                       *)
(* Mutant: takes the row over one tick before it expires.                  *)
MutExpiredEarly(age) == lease.token = 0 \/ lease.ttl <= 1 - age

Expired(age) == lease.token = 0 \/ ~StillValid(age)

(* Mutants: a standby answers -1 instead of no token; a takeover keeps the *)
(* old token; nobody takes over.                                           *)
MutGrantedSentinel(w) ==
    IF Expired(lag[w]) THEN lease.token + 1
    ELSE IF lease.owner = w THEN lease.token ELSE -1

MutGrantedReusesToken(w) ==
    IF lease.token = 0 THEN 1
    ELSE IF Expired(lag[w]) \/ lease.owner = w THEN lease.token ELSE None

MutGrantedOwnerOnly(w) ==
    IF lease.token = 0 THEN 1
    ELSE IF lease.owner = w THEN lease.token + 1 ELSE None

Granted(w) ==
    IF Expired(lag[w]) THEN lease.token + 1
    ELSE IF lease.owner = w THEN lease.token ELSE None

Acquire(w) ==
    /\ pc[w] = "acquiring"
    /\ Granted(w) <= MaxToken
    /\ lease' = IF Granted(w) = None THEN lease
                ELSE [owner |-> w, token |-> Granted(w), ttl |-> LeaseLen - lag[w]]
    /\ beat' = [beat EXCEPT ![w] = Granted(w)]
    /\ Move(w, "decided", None, Granted(w), ctl[w])
    /\ UNCHANGED <<control, requests, mem, watchVars, applied>>

(* self._fencing_token = ...; control = get(); standby waits and retries.  *)
StoreDecision(w) ==
    /\ pc[w] = "decided"
    /\ mem' = [mem EXCEPT ![w] = dec[w]]
    /\ IF dec[w] = None THEN Leave(w, "idle")
       ELSE Move(w, "leading", None, dec[w], control)
    /\ UNCHANGED <<dbVars, watchVars, applied>>

ShouldRun(w) == ctl[w].desired = "running" \/ ctl[w].runOnce # None

(* Process recovery failed, resources could not be sampled, or there is    *)
(* nothing to run: renew (a no-op when the token was cleared).             *)
BeginRenew(w) ==
    /\ pc[w] = "leading"
    /\ IF mem[w] = None THEN Leave(w, "idle") ELSE Call(w, "renewing", mem[w])
    /\ UNCHANGED <<dbVars, mem, watchVars, applied>>

(* _renew_leadership: a lost fence clears _fencing_token.                  *)
Renew(w) ==
    LET ok == RenewMatches(w, arg[w], lag[w])
    IN  /\ pc[w] = "renewing"
        /\ lease' = IF ok THEN [lease EXCEPT !.ttl = LeaseLen - lag[w]] ELSE lease
        /\ beat' = [beat EXCEPT ![w] = IF ok THEN arg[w] ELSE None]
        /\ mem' = IF ok THEN mem ELSE [mem EXCEPT ![w] = None]
        /\ Leave(w, "idle")
        /\ UNCHANGED <<control, requests, watchVars, applied>>

(* Mutant: draining is not an exit state.                                  *)
MutObeyExitNotDraining(w) ==
    /\ pc[w] = "leading"
    /\ ctl[w].desired \in {"stopped", "emergency_stopped"}
    /\ IF mem[w] = None THEN Leave(w, "exiting") ELSE Call(w, "releasing", mem[w])
    /\ UNCHANGED <<dbVars, mem, watchVars, applied>>

(* stopped, emergency_stopped, draining: release, then leave the loop.     *)
ObeyExit(w) ==
    /\ pc[w] = "leading"
    /\ ctl[w].desired \in ExitState
    /\ IF mem[w] = None THEN Leave(w, "exiting") ELSE Call(w, "releasing", mem[w])
    /\ UNCHANGED <<dbVars, mem, watchVars, applied>>

(* Work to do and the mutable token still there: go on to consume and run. *)
DecideRun(w) ==
    /\ pc[w] = "leading"
    /\ ctl[w].desired \notin ExitState
    /\ ShouldRun(w)
    /\ mem[w] # None
    /\ Goto(w, IF ctl[w].runOnce = None THEN "preflight" ELSE "consuming")
    /\ UNCHANGED <<dbVars, mem, watchVars, applied>>

(* Mutant: consumes whatever request is there, not the one it read.        *)
MutConsumeAnyRequest(w) ==
    /\ pc[w] = "consuming"
    /\ control' = [control EXCEPT !.runOnce = None]
    /\ Goto(w, "preflight")
    /\ UNCHANGED <<lease, beat, requests, mem, watchVars, applied>>

(* consume_run_once: compare-and-clear on the request that was read.       *)
ConsumeRunOnce(w) ==
    LET mine == control.runOnce = ctl[w].runOnce
    IN  /\ pc[w] = "consuming"
        /\ control' = IF mine THEN [control EXCEPT !.runOnce = None] ELSE control
        /\ IF mine THEN Goto(w, "preflight") ELSE Leave(w, "idle")
        /\ UNCHANGED <<lease, beat, requests, mem, watchVars, applied>>

(* _queued_job_preflight, then _run_batch_once with the explicit token.    *)
PreflightRefuses(w) ==
    /\ pc[w] = "preflight"
    /\ Leave(w, "idle")
    /\ UNCHANGED <<dbVars, mem, watchVars, applied>>

(* Mutant: the batch reads the mutable _fencing_token.                     *)
MutStartBatchMutable(w) ==
    /\ pc[w] = "preflight"
    /\ Call(w, "batch", mem[w])
    /\ UNCHANGED <<dbVars, mem, watchVars, applied>>

StartBatch(w) ==
    /\ pc[w] = "preflight"
    /\ Call(w, "batch", dec[w])
    /\ UNCHANGED <<dbVars, mem, watchVars, applied>>

BeginFencedWrite(w) ==
    /\ pc[w] = "batch"
    /\ Goto(w, "writing")
    /\ UNCHANGED <<dbVars, mem, watchVars, applied>>

(* Mutant: the write does not check the fence.                             *)
MutWriteUnchecked(w) ==
    /\ pc[w] = "writing"
    /\ applied' = [owner |-> w, token |-> arg[w]]
    /\ Goto(w, "batch")
    /\ UNCHANGED <<dbVars, mem, watchVars>>

(* A claim, heartbeat or completion: _worker_fence_is_active in the same   *)
(* transaction as the write, with the token the batch was given.  A batch  *)
(* without a token makes the unfenced compatibility calls, never refused.  *)
FencedWrite(w) ==
    /\ pc[w] = "writing"
    /\ applied' = IF arg[w] = None \/ RenewMatches(w, arg[w], lag[w])
                  THEN [owner |-> w, token |-> arg[w]] ELSE applied
    /\ Goto(w, "batch")
    /\ UNCHANGED <<dbVars, mem, watchVars>>

FinishBatch(w) ==
    /\ pc[w] = "batch"
    /\ Leave(w, "idle")
    /\ UNCHANGED <<dbVars, mem, watchVars, applied>>

(* Any exception in a cycle: standby, back off, try again.                 *)
CycleFails(w) ==
    /\ pc[w] \in {"acquiring", "leading", "renewing", "consuming",
                  "preflight", "batch", "writing"}
    /\ Leave(w, "idle")
    /\ UNCHANGED <<dbVars, mem, watchVars, applied>>

(* KeyboardInterrupt or _stop_event: the finally clause releases.          *)
Interrupt(w) ==
    /\ pc[w] \notin {"new", "releasing", "exiting", "down"}
    /\ IF mem[w] = None THEN Leave(w, "exiting") ELSE Call(w, "releasing", mem[w])
    /\ UNCHANGED <<dbVars, mem, watchVars, applied>>

(* release: expires_at = now on one's own row, whatever its expiry was.    *)
Release(w) ==
    LET own == lease.owner = w /\ lease.token = arg[w]
    IN  /\ pc[w] = "releasing"
        /\ lease' = IF own THEN [lease EXCEPT !.ttl = -lag[w]] ELSE lease
        /\ beat' = [beat EXCEPT ![w] = None]
        /\ mem' = [mem EXCEPT ![w] = None]
        /\ Leave(w, "exiting")
        /\ UNCHANGED <<control, requests, watchVars, applied>>

(* The process ends: after its release, or by a crash at any point.        *)
Exit(w) ==
    /\ pc[w] \notin {"new", "down"}
    /\ Leave(w, "down")
    /\ mem' = [mem EXCEPT ![w] = None]
    /\ watch' = [watch EXCEPT ![w] = None]
    /\ watchLost' = [watchLost EXCEPT ![w] = FALSE]
    /\ watchLag' = [watchLag EXCEPT ![w] = 0]
    /\ UNCHANGED <<dbVars, applied>>
-----------------------------------------------------------------------------
(* The watcher thread: about once a second, whatever the loop is doing.    *)

WatchBegin(w) ==
    /\ pc[w] # "down"
    /\ watch[w] = None
    /\ mem[w] # None
    /\ watch' = [watch EXCEPT ![w] = mem[w]]
    /\ watchLag' = [watchLag EXCEPT ![w] = 0]
    /\ UNCHANGED <<dbVars, loopVars, watchLost, applied>>

WatchRenew(w) ==
    LET ok == RenewMatches(w, watch[w], watchLag[w])
    IN  /\ watch[w] # None
        /\ ~watchLost[w]
        /\ lease' = IF ok THEN [lease EXCEPT !.ttl = LeaseLen - watchLag[w]] ELSE lease
        /\ beat' = [beat EXCEPT ![w] = IF ok THEN watch[w] ELSE None]
        /\ watch' = IF ok THEN [watch EXCEPT ![w] = None] ELSE watch
        /\ watchLost' = [watchLost EXCEPT ![w] = ~ok]
        /\ watchLag' = [watchLag EXCEPT ![w] = 0]
        /\ UNCHANGED <<control, requests, loopVars, applied>>

(* self._fencing_token = None, even if the loop has stored a newer token.  *)
WatchClear(w) ==
    /\ watchLost[w]
    /\ mem' = [mem EXCEPT ![w] = None]
    /\ watch' = [watch EXCEPT ![w] = None]
    /\ watchLost' = [watchLost EXCEPT ![w] = FALSE]
    /\ UNCHANGED <<dbVars, pc, dec, ctl, arg, lag, watchLag, applied>>

(* disk I/O error, SQLITE_BUSY: logged, retried at the next interval.      *)
WatchFails(w) ==
    /\ watch[w] # None
    /\ ~watchLost[w]
    /\ watch' = [watch EXCEPT ![w] = None]
    /\ watchLag' = [watchLag EXCEPT ![w] = 0]
    /\ UNCHANGED <<dbVars, loopVars, watchLost, applied>>
-----------------------------------------------------------------------------
(* The operator, in the API process, and the clock.                        *)

RequestState(s) ==
    /\ control' = [control EXCEPT !.desired = s]
    /\ UNCHANGED <<lease, beat, requests, loopVars, watchVars, applied>>

RequestRunOnce ==
    /\ requests < MaxRequests
    /\ requests' = requests + 1
    /\ control' = [control EXCEPT !.runOnce = requests + 1]
    /\ UNCHANGED <<lease, beat, loopVars, watchVars, applied>>

Waiting(w)      == pc[w] \in WaitingPc
WatchWaiting(w) == watch[w] # None /\ ~watchLost[w]

Tick ==
    /\ \A w \in Worker : /\ Waiting(w) => lag[w] < MaxLag
                         /\ WatchWaiting(w) => watchLag[w] < MaxLag
    /\ lease' = IF lease.ttl > -MaxLag THEN [lease EXCEPT !.ttl = @ - 1] ELSE lease
    /\ lag' = [w \in Worker |-> IF Waiting(w) THEN lag[w] + 1 ELSE lag[w]]
    /\ watchLag' = [w \in Worker |->
                        IF WatchWaiting(w) THEN watchLag[w] + 1 ELSE watchLag[w]]
    /\ UNCHANGED <<beat, control, requests, pc, mem, dec, ctl, arg,
                   watch, watchLost, applied>>
-----------------------------------------------------------------------------
LoopStep(w) ==
    \/ Start(w) \/ BeginAcquire(w) \/ Acquire(w) \/ StoreDecision(w)
    \/ BeginRenew(w) \/ Renew(w) \/ ObeyExit(w) \/ DecideRun(w)
    \/ ConsumeRunOnce(w) \/ PreflightRefuses(w) \/ StartBatch(w)
    \/ BeginFencedWrite(w) \/ FencedWrite(w) \/ FinishBatch(w)
    \/ CycleFails(w) \/ Interrupt(w) \/ Release(w) \/ Exit(w)

WatchStep(w) == WatchBegin(w) \/ WatchRenew(w) \/ WatchClear(w) \/ WatchFails(w)

Next ==
    \/ \E w \in Worker : LoopStep(w) \/ WatchStep(w)
    \/ \E s \in Commands : RequestState(s)
    \/ RequestRunOnce
    \/ Tick

Spec == Init /\ [][Next]_vars

(* Threads keep being scheduled and the clock advances.  Database errors   *)
(* are transient (the loop and the watcher retry for that reason): a step  *)
(* that keeps being attempted eventually gets through.  Nothing is assumed *)
(* about crashes, interrupts or the operator, nor that the watcher ever    *)
(* starts or wins a renewal: only that its database call returns.          *)
LoopProgress(w) ==
    \/ BeginAcquire(w) \/ Acquire(w) \/ StoreDecision(w) \/ BeginRenew(w)
    \/ Renew(w) \/ DecideRun(w) \/ ConsumeRunOnce(w) \/ StartBatch(w)
    \/ FencedWrite(w) \/ Release(w) \/ (pc[w] = "exiting" /\ Exit(w))

Fairness ==
    /\ SF_vars(Tick)
    /\ \A w \in Worker :
        /\ WF_vars(LoopProgress(w))
        /\ WF_vars(WatchRenew(w) \/ WatchClear(w) \/ WatchFails(w))
        /\ SF_vars(Acquire(w))
        /\ SF_vars(FinishBatch(w))
        /\ SF_vars(ObeyExit(w))

FairSpec == Spec /\ Fairness
-----------------------------------------------------------------------------
(* Properties.                                                             *)

(* Every token a worker still holds in memory, in a pending call or in its *)
(* heartbeat was granted to it and to nobody else: it is no newer than the *)
(* row's, and equal to it only if the row names that worker.               *)
Held(w) == {mem[w], dec[w], arg[w], watch[w], beat[w]} \ {None}

HeldTokenIsOwn ==
    \A w \in Worker : \A t \in Held(w) :
        t <= lease.token /\ (t = lease.token => lease.owner = w)

(* The fencing token is never reused: two workers never hold the same one, *)
(* however their loops, watchers and crashes interleave.                   *)
TokensDisjoint ==
    \A w, v \in Worker : w # v => Held(w) \cap Held(v) = {}

(* A batch always carries the token of the acquire that allowed it: the    *)
(* watcher clearing _fencing_token between the check and the batch cannot  *)
(* turn it into an unfenced compatibility call.                            *)
BatchKeepsFence ==
    \A w \in Worker : pc[w] \in {"batch", "writing"} => arg[w] # None

(* An expired leader cannot change anything after a standby took control:  *)
(* the writes the database accepts come in token order, and the writes of  *)
(* one token come from one worker.                                         *)
FencedWritesOrdered ==
    [][ /\ applied'.token >= applied.token
        /\ applied'.token = applied.token => applied'.owner = applied.owner ]_applied

(* A run-once request makes at most one leader run a batch: once consumed  *)
(* it is gone from the control row, and no two workers consumed the same.  *)
Serving(w) ==
    pc[w] \in {"preflight", "batch", "writing"} /\ ctl[w].runOnce # None

RunOnceServedOnce ==
    \A w \in Worker : Serving(w) =>
        /\ control.runOnce # ctl[w].runOnce
        /\ \A v \in Worker \ {w} : Serving(v) => ctl[v].runOnce # ctl[w].runOnce

(* "Renueva solo si owner, token y lease vigente todavia coinciden": once  *)
(* a tenure has expired or was released, it never becomes live again.      *)
ExpiredStaysExpired ==
    [][ lease.token # 0 /\ lease'.token = lease.token /\ ~Live => ~Live' ]_lease

(* While some worker keeps running its loop, leadership does not stay      *)
(* vacant: whatever crashed, a live tenure appears again and again (until  *)
(* the last token of the bound has expired).                               *)
Running(w)  == pc[w] \notin {"new", "releasing", "exiting", "down"}
OutOfTokens == lease.token = MaxToken /\ ~Live

StandbyTakesOver ==
    \A w \in Worker :
        <>[]Running(w) => []<>(Live \/ OutOfTokens)

(* A drain or stop that stays requested empties the fleet: every worker    *)
(* becomes leader in its turn, sees the request, releases and exits.       *)
StopEmptiesFleet ==
    <>[](control.desired \in ExitState)
        => \A w \in Worker : []<>(~Running(w) \/ OutOfTokens)

(* The lease row, its expiry and its clock implement the abstract lease.   *)
Abstract == INSTANCE FencedLease
                WITH holder <- lease.owner, token <- lease.token, live <- Live

ImplementsFencedLease == Abstract!LeaseSpec
=============================================================================
