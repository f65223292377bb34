------------------------------- MODULE Quota -------------------------------
(***************************************************************************)
(* Quota admission for calls to one model provider: provider_limits, their *)
(* windows and the leases taken from them (QuotaManager), and the callers: *)
(* AIExecutionService.execute, which admits the branches of a plan, sends  *)
(* them from a thread pool and settles each answer, and the runtime        *)
(* preflight, which makes one call the same way.  Every caller is a        *)
(* process of its own and may die anywhere; every QuotaManager method is   *)
(* one BEGIN IMMEDIATE transaction, so a step is a transaction or one      *)
(* event at the provider.  A refused acquire rolls its expiries back.      *)
(* Cost moves between the columns of a window in the same statements as    *)
(* tokens do and is left out; its guards can only refuse more, and are     *)
(* part of the choice `ok'.                                                *)
(***************************************************************************)
EXTENDS Integers, FiniteSets, Sequences, FiniteSetsExt

CONSTANTS Exec,           \* callers: AI executions and preflights
          Preflight,      \* the callers that are runtime preflights
          Call,           \* branches; a branch acquires at most one lease
          Plan,           \* the branches of each caller, in order
          Model,          \* models of the provider
          ModelOf,        \* model each branch calls
          Tokens,         \* tokens each branch reserves
          AnyModel,       \* the model "*" of a policy
          Configured,     \* models the operator has configured limits for
          Kind,           \* window kinds
          Length,         \* length of a window of each kind
          MaxRequests,    \* configured requests per window of each kind
          MaxTokens,      \* configured tokens per window of each kind
          MaxConcurrency, \* configured max_concurrency
          TTL,            \* ticks a branch's lease lasts (lease_ttl_seconds)
          MaxTime,        \* bound: ticks of the clock
          MaxFaults,      \* bound: crashes, operator changes, limits met elsewhere
          None

Key    == Model \cup {AnyModel}
Time   == 0..MaxTime
Start(d, t) == (t \div Length[d]) * Length[d]
Window == UNION {[limit : Key, kind : {d}, start : {Start(d, t) : t \in Time}] : d \in Kind}

InPlan(e) == {Plan[e][i] : i \in DOMAIN Plan[e]}

ASSUME QuotaAssumption ==
    /\ Preflight \subseteq Exec
    /\ IsFiniteSet(Call)
    /\ Plan \in [Exec -> Seq(Call)]
    /\ \A e \in Preflight : Len(Plan[e]) = 1
    /\ \A c \in Call : \E e \in Exec : c \in InPlan(e)
    /\ \A e, f \in Exec : e # f => InPlan(e) \cap InPlan(f) = {}
    /\ \A e \in Exec : Plan[e] # <<>>
    /\ ModelOf \in [Call -> Model]
    /\ Tokens \in [Call -> Nat]
    /\ AnyModel \notin Model /\ None \notin Key
    /\ Configured \subseteq Key
    /\ Length \in [Kind -> Nat \ {0}]
    /\ MaxRequests \in [Kind -> Nat]
    /\ MaxTokens \in [Kind -> Nat]
    /\ MaxConcurrency \in Nat
    /\ TTL \in [Call -> Nat \ {0}] /\ MaxTime \in Nat /\ MaxFaults \in Nat

VARIABLES policy,   \* provider_limits
          window,   \* provider_limit_windows
          lease,    \* provider_execution_leases
          branch,   \* ai_execution_branches.status
          required, \* min_successful of each caller's plan, 0 before it is read
          status,   \* ai_executions.status
          stage,    \* where each caller is
          call,     \* each branch's request: in the pool, at the provider, answered
          now,      \* the clock
          faults    \* history: faults so far

db   == <<policy, window, lease>>
vars == <<db, branch, required, status, stage, call, now, faults>>

Live == {"active", "dispatched"}

NoLease == [state |-> "none", limit |-> None, at |-> 0, windows |-> {}, sent |-> FALSE]
NoCall  == [st |-> "idle", used |-> 0, known |-> FALSE]
Empty   == [creq |-> 0, rreq |-> 0, ctok |-> 0, utok |-> 0, rtok |-> 0]

TypeOK ==
    /\ policy \in [Key -> [present : BOOLEAN, enabled : BOOLEAN, limited : BOOLEAN, cooldown : Nat]]
    /\ window \in [Window -> [creq : Nat, rreq : Nat, ctok : Nat, utok : Nat, rtok : Nat]]
    /\ lease \in [Call -> [state : {"none", "committed", "released", "expired"} \cup Live,
                           limit : Key \cup {None}, at : Time,
                           windows : SUBSET Window,  \* provider_execution_lease_windows
                           sent : BOOLEAN]]          \* dispatched_at is set
    /\ branch \in [Call -> {"planned", "admitted", "blocked", "running", "completed", "failed"}]
    /\ required \in [Exec -> Nat]
    /\ status \in [Exec -> {"planned", "running", "blocked", "completed", "partial", "failed"}]
    /\ stage \in [Exec -> {"admit", "undo", "dispatch", "done", "raised", "dead"}]
    /\ call \in [Call -> [st : {"idle", "queued", "ok", "limited", "error", "handled"},
                          used : Nat, known : BOOLEAN]]
    /\ now \in Time
    /\ faults \in 0..MaxFaults

Init ==
    /\ policy = [k \in Key |-> [present |-> k \in Configured, enabled |-> k \in Configured,
                                limited |-> k \in Configured, cooldown |-> 0]]
    /\ window = [w \in Window |-> Empty]
    /\ lease = [c \in Call |-> NoLease]
    /\ branch = [c \in Call |-> "planned"]
    /\ required = [e \in Exec |-> 0]
    /\ status = [e \in Exec |-> "planned"]
    /\ stage = [e \in Exec |-> "admit"]
    /\ call = [c \in Call |-> NoCall]
    /\ now = 0
    /\ faults = 0
-----------------------------------------------------------------------------
(* QuotaManager.                                                           *)

(* _resolve_policy: the model's own policy, else the provider's. *)
Effective(c) == CASE policy[ModelOf[c]].present -> ModelOf[c]
                  [] ~policy[ModelOf[c]].present /\ policy[AnyModel].present -> AnyModel
                  [] OTHER -> None

(* _window_bounds: the windows of policy k at time t. *)
Bounds(k, t) == {[limit |-> k, kind |-> d, start |-> Start(d, t)] : d \in Kind}

(* The tokens the calls in S reserve together. *)
TokensOf(S) == Cardinality(UNION {{c} \X (1..Tokens[c]) : c \in S})
Minus(a, b) == IF a > b THEN a - b ELSE 0

(* Mutant: what a dispatched call may have used is given back.             *)
MutUnmappedForgets(S) ==
    [w \in Window |->
        LET mine == {c \in S : w \in lease[c].windows}
            sent == {c \in mine : lease[c].state = "dispatched"}
        IN  [window[w] EXCEPT !.rreq = Minus(@, Cardinality(mine \ sent)),
                              !.rtok = Minus(@, TokensOf(mine))]]

(* _release_reservations, of all the leases in S: what was dispatched      *)
(* stays counted, as unverified use.                                       *)
Unmapped(S) ==
    [w \in Window |->
        LET mine == {c \in S : w \in lease[c].windows}
            sent == {c \in mine : lease[c].state = "dispatched"}
        IN  [window[w] EXCEPT !.rreq = Minus(@, Cardinality(mine \ sent)),
                              !.rtok = Minus(@, TokensOf(mine)),
                              !.utok = @ + TokensOf(sent)]]

(* _expire_stale. *)
Stale == {c \in Call : lease[c].state \in Live /\ lease[c].at + TTL[c] <= now}

(* _active_count. *)
ActiveCount(k) == Cardinality({c \in Call : /\ lease[c].limit = k
                                            /\ lease[c].state \in Live
                                            /\ lease[c].at + TTL[c] > now})

(* Mutant: the limit is compared with what has been used so far.           *)
MutWithinSoFar(w, win, tokens) ==
    /\ win[w].creq + win[w].rreq <= MaxRequests[w.kind]
    /\ win[w].ctok + win[w].utok + win[w].rtok <= MaxTokens[w.kind]

Within(w, win, tokens) ==
    /\ win[w].creq + win[w].rreq + 1 <= MaxRequests[w.kind]
    /\ win[w].ctok + win[w].utok + win[w].rtok + tokens <= MaxTokens[w.kind]

(* _evaluate: unlimited without an enabled policy; otherwise no cooldown,  *)
(* a free slot, an acceptable cost (ok) and room in every window.          *)
Allowed(c, win, ok) ==
    LET k == Effective(c)
    IN  k # None /\ policy[k].enabled =>
            /\ policy[k].cooldown <= now
            /\ ok
            /\ policy[k].limited => /\ ActiveCount(k) < MaxConcurrency
                                    /\ \A w \in Bounds(k, now) : Within(w, win, Tokens[c])

(* _insert_lease, after the stale leases have expired. *)
Acquired(c) ==
    LET k == Effective(c)
        new == IF k # None /\ policy[k].enabled THEN Bounds(k, now) ELSE {}
        left == Unmapped(Stale)
    IN  /\ lease' = [d \in Call |->
                        IF d = c THEN [state |-> "active", limit |-> k, at |-> now,
                                       windows |-> new, sent |-> FALSE]
                        ELSE IF d \in Stale THEN [lease[d] EXCEPT !.state = "expired"]
                        ELSE lease[d]]
        /\ window' = [w \in Window |->
                        IF w \in new
                        THEN [left[w] EXCEPT !.rreq = @ + 1, !.rtok = @ + Tokens[c]]
                        ELSE left[w]]

(* Mutant: the request stays reserved when it is counted as sent.          *)
MutDispatchedTwice(c) ==
    /\ window' = [w \in Window |-> IF w \in lease[c].windows THEN [window[w] EXCEPT !.creq = @ + 1]
                                   ELSE window[w]]
    /\ lease' = [lease EXCEPT ![c].state = "dispatched", ![c].sent = TRUE]

(* mark_dispatched: the request is counted before it is sent. *)
Dispatched(c) ==
    /\ window' = [w \in Window |->
                    IF w \in lease[c].windows THEN [window[w] EXCEPT !.creq = @ + 1, !.rreq = Minus(@, 1)]
                    ELSE window[w]]
    /\ lease' = [lease EXCEPT ![c].state = "dispatched", ![c].sent = TRUE]

(* commit: the reservation becomes the use reported, or unverified use; a  *)
(* request not counted yet is counted.                                     *)
Committed(c) ==
    /\ window' = [w \in Window |->
                    IF w \in lease[c].windows
                    THEN [window[w] EXCEPT !.creq = @ + IF lease[c].state = "active" THEN 1 ELSE 0,
                                           !.rreq = IF lease[c].state = "active" THEN Minus(@, 1) ELSE @,
                                           !.rtok = Minus(@, Tokens[c]),
                                           !.ctok = @ + IF call[c].known THEN call[c].used ELSE 0,
                                           !.utok = @ + IF call[c].known THEN 0 ELSE Tokens[c]]
                    ELSE window[w]]
    /\ lease' = [lease EXCEPT ![c].state = "committed"]

(* Mutant: the state of the lease is not looked at.                        *)
MutReleasedAnyState(c) ==
    /\ window' = Unmapped({c})
    /\ lease' = [lease EXCEPT ![c].state = "released"]

(* release: an expired lease has been given back already. *)
Released(c) ==
    IF lease[c].state = "expired" THEN UNCHANGED <<window, lease>>
    ELSE /\ window' = Unmapped({c})
         /\ lease' = [lease EXCEPT ![c].state = "released"]

(* record_rate_limit for policy k: an existing one gets a new cooldown; a  *)
(* missing one is created with what the effective policy allows.           *)
RateLimited(k, r) ==
    policy' = IF policy[k].present THEN [policy EXCEPT ![k].cooldown = now + r]
              ELSE LET parent == policy[AnyModel]
                   IN  [policy EXCEPT ![k] = [present  |-> TRUE,
                                              enabled  |-> parent.present => parent.enabled,
                                              limited  |-> parent.present /\ parent.limited,
                                              cooldown |-> now + r]]

(* Mutant: an HTTP date in the past is not clamped.                        *)
MutRetryAfter == {-1, 0}

(* _bounded_retry_after, of the answers told apart: over at once, or after *)
(* a tick.                                                                 *)
RetryAfter == {0, 1}
-----------------------------------------------------------------------------
(* AIExecutionService.execute and the runtime preflight.                   *)

With(e, s) == {c \in InPlan(e) : branch[c] = s}

(* The first branch of e's plan with status s. *)
First(e, s) == Plan[e][Min({i \in DOMAIN Plan[e] : branch[Plan[e][i]] = s})]

To(e, s)     == stage' = [stage EXCEPT ![e] = s]
Mark(c, s)   == branch' = [branch EXCEPT ![c] = s]
Answered(c, s) == call' = [call EXCEPT ![c].st = s]

(* A branch is admitted, or blocked: by its preparation, or by the quota.  *)
AdmitBranch(e, ok) ==
    /\ stage[e] = "admit"
    /\ With(e, "planned") # {}
    /\ LET c == First(e, "planned")
       IN  \/ /\ Allowed(c, Unmapped(Stale), ok)
              /\ Acquired(c)
              /\ Mark(c, "admitted")
           \/ /\ ~ok \/ ~Allowed(c, Unmapped(Stale), ok)
              /\ Mark(c, "blocked")
              /\ UNCHANGED <<window, lease>>
    /\ UNCHANGED <<policy, required, status, stage, call, now, faults>>

(* All branches have been asked for: fewer than min_successful, which is   *)
(* looked at here for the first time, and the admitted ones are given      *)
(* back; otherwise the execution runs.                                     *)
Begin(e) ==
    /\ stage[e] = "admit"
    /\ With(e, "planned") = {}
    /\ \E n \in 1..Len(Plan[e]) :
          /\ required' = [required EXCEPT ![e] = n]
          /\ IF Cardinality(With(e, "admitted")) < n
             THEN To(e, "undo") /\ UNCHANGED status
             ELSE To(e, "dispatch") /\ status' = [status EXCEPT ![e] = "running"]
    /\ UNCHANGED <<db, branch, call, now, faults>>

Undo(e) ==
    /\ stage[e] = "undo"
    /\ IF With(e, "admitted") # {}
       THEN LET c == First(e, "admitted")
            IN  Released(c) /\ Mark(c, "blocked") /\ UNCHANGED <<status, stage>>
       ELSE /\ status' = [status EXCEPT ![e] = "blocked"]
            /\ To(e, "done")
            /\ UNCHANGED <<window, lease, branch>>
    /\ UNCHANGED <<policy, required, call, now, faults>>

(* mark_dispatched and submit, branch after branch.  A lease that expired  *)
(* meanwhile is refused: the preflight gives up and releases, the service  *)
(* raises and settles nothing.                                             *)
DispatchBranch(e) ==
    /\ stage[e] = "dispatch"
    /\ With(e, "admitted") # {}
    /\ LET c == First(e, "admitted")
       IN  IF lease[c].state = "active"
           THEN /\ Dispatched(c)
                /\ Mark(c, "running")
                /\ Answered(c, "queued")
                /\ UNCHANGED stage
           ELSE /\ IF e \in Preflight
                   THEN Mark(c, "running") /\ Answered(c, "error") /\ UNCHANGED stage
                   ELSE To(e, "raised") /\ UNCHANGED <<branch, call>>
                /\ UNCHANGED <<window, lease>>
    /\ UNCHANGED <<policy, required, status, now, faults>>

(* The preflight's plan_model_call raises after the lease was taken. *)
PlanFails(e) ==
    /\ e \in Preflight
    /\ stage[e] = "dispatch"
    /\ With(e, "admitted") # {}
    /\ Mark(First(e, "admitted"), "running")
    /\ Answered(First(e, "admitted"), "error")
    /\ UNCHANGED <<db, required, status, stage, now, faults>>

(* All have been submitted: as_completed.                                  *)
Collecting(e) == stage[e] = "dispatch" /\ With(e, "admitted") = {}

(* A pool thread reserves host resources (BranchAdmission), or fails to,   *)
(* and calls the provider, which answers with a response, with or without  *)
(* its usage, with a 429, or with an error or an unusable response.  The   *)
(* thread outlives a service that raised, the request a process that died. *)
(* A call uses what it reserved at most (_input_reservation is an upper    *)
(* bound of the input, max_tokens of the output), and may have used it all *)
(* where its use is not reported.                                          *)
Invoke(c) ==
    /\ call[c].st = "queued"
    /\ \/ \E n \in 0..Tokens[c] : call' = [call EXCEPT ![c] = [st |-> "ok", used |-> n, known |-> TRUE]]
       \/ \E s \in {"ok", "limited", "error"} :
             call' = [call EXCEPT ![c] = [st |-> s, used |-> Tokens[c], known |-> FALSE]]
    /\ UNCHANGED <<db, branch, required, status, stage, now, faults>>

(* The NVIDIA transport meets a 429: the pool thread records it itself and  *)
(* raises an error of its own class, so that the caller does not record it *)
(* again.                                                                  *)
NimRateLimited(c) ==
    /\ call[c].st = "queued"
    /\ \E e \in Exec : c \in InPlan(e) /\ stage[e] # "dead"
    /\ \E r \in RetryAfter : RateLimited(ModelOf[c], r)
    /\ call' = [call EXCEPT ![c] = [st |-> "error", used |-> Tokens[c], known |-> FALSE]]
    /\ UNCHANGED <<window, lease, branch, required, status, stage, now, faults>>

(* _complete_branch: one transaction settles the lease and the branch; a   *)
(* lease that expired is refused and the branch goes on as failed.         *)
Complete(e, c) ==
    /\ Collecting(e)
    /\ c \in InPlan(e)
    /\ call[c].st = "ok"
    /\ IF lease[c].state \in Live
       THEN Committed(c) /\ Mark(c, "completed") /\ Answered(c, "handled")
       ELSE Answered(c, "error") /\ UNCHANGED <<window, lease, branch>>
    /\ UNCHANGED <<policy, required, status, stage, now, faults>>

RecordRateLimit(e, c) ==
    /\ Collecting(e)
    /\ c \in InPlan(e)
    /\ call[c].st = "limited"
    /\ \E r \in RetryAfter : RateLimited(ModelOf[c], r)
    /\ Answered(c, "error")
    /\ UNCHANGED <<window, lease, branch, required, status, stage, now, faults>>

(* Mutant: a branch that failed keeps its lease.                           *)
MutFail(e, c) ==
    /\ Collecting(e)
    /\ c \in InPlan(e)
    /\ call[c].st = "error"
    /\ Mark(c, "failed")
    /\ Answered(c, "handled")
    /\ UNCHANGED <<db, required, status, stage, now, faults>>

Fail(e, c) ==
    /\ Collecting(e)
    /\ c \in InPlan(e)
    /\ call[c].st = "error"
    /\ Released(c)
    /\ Mark(c, "failed")
    /\ Answered(c, "handled")
    /\ UNCHANGED <<policy, required, status, stage, now, faults>>

(* _finish. *)
Finish(e) ==
    LET done == Cardinality(With(e, "completed"))
    IN  /\ Collecting(e)
        /\ With(e, "running") = {}
        /\ status' = [status EXCEPT ![e] =
                        CASE done < required[e] -> "failed"
                          [] done >= required[e] /\ done = Len(Plan[e]) -> "completed"
                          [] OTHER -> "partial"]
        /\ To(e, "done")
        /\ UNCHANGED <<db, branch, required, call, now, faults>>
-----------------------------------------------------------------------------
(* The clock, the operator, and what happens to the callers.               *)

Tick == now < MaxTime /\ now' = now + 1 /\ UNCHANGED <<db, branch, required, status, stage, call, faults>>

Fault == faults < MaxFaults /\ faults' = faults + 1

(* The process of a caller ends; what the provider has been sent goes on.  *)
Crash(e) ==
    /\ Fault
    /\ stage[e] \notin {"done", "dead"}
    /\ To(e, "dead")
    /\ UNCHANGED <<db, branch, required, status, call, now>>

(* create_provider_limit, patch_provider_limit (enabled). *)
CreateLimit(k) ==
    /\ Fault
    /\ ~policy[k].present
    /\ policy' = [policy EXCEPT ![k] = [present |-> TRUE, enabled |-> TRUE,
                                        limited |-> TRUE, cooldown |-> 0]]
    /\ UNCHANGED <<window, lease, branch, required, status, stage, call, now>>

PatchLimit(k) ==
    /\ Fault
    /\ policy[k].present
    /\ policy' = [policy EXCEPT ![k].enabled = ~@]
    /\ UNCHANGED <<window, lease, branch, required, status, stage, call, now>>

(* A CLI run meets its usage limit: recorded for the whole provider, with  *)
(* the configured fallback (a tick).                                       *)
CliRateLimit ==
    /\ Fault
    /\ RateLimited(AnyModel, 1)
    /\ UNCHANGED <<window, lease, branch, required, status, stage, call, now>>
-----------------------------------------------------------------------------
Caller(e) ==
    \/ \E ok \in BOOLEAN : AdmitBranch(e, ok)
    \/ Begin(e) \/ Undo(e) \/ DispatchBranch(e) \/ PlanFails(e) \/ Finish(e)
    \/ \E c \in Call : Complete(e, c) \/ RecordRateLimit(e, c) \/ Fail(e, c)

Next ==
    \/ \E e \in Exec : Caller(e) \/ Crash(e)
    \/ \E c \in Call : Invoke(c) \/ NimRateLimited(c)
    \/ \E k \in Key : CreateLimit(k) \/ PatchLimit(k)
    \/ CliRateLimit \/ Tick

Spec == Init /\ [][Next]_vars
-----------------------------------------------------------------------------
(* Every window is the sum of its leases: a request is reserved or counted  *)
(* once, tokens are reserved while the lease lives.  Settling, expiring    *)
(* and releasing in any order never loses or repeats one.                  *)
LedgerMatchesLeases ==
    \A w \in Window :
        LET mine == {c \in Call : w \in lease[c].windows}
            in(S) == {c \in mine : lease[c].state \in S}
        IN  /\ window[w].rreq = Cardinality(in({"active"}))
            /\ window[w].creq = Cardinality({c \in mine : lease[c].sent})
            /\ window[w].rtok = TokensOf(in(Live))

(* What the operator configured for a policy holds all the time, however   *)
(* calls are settled: for the requests and tokens of each of its windows,  *)
(* and for the number of leases in force (max_concurrency).                *)
UsageWithinLimits ==
    /\ \A w \in Window : policy[w.limit].limited =>
        /\ window[w].creq + window[w].rreq <= MaxRequests[w.kind]
        /\ window[w].ctok + window[w].utok + window[w].rtok <= MaxTokens[w.kind]
    /\ \A k \in Key : policy[k].limited =>
        Cardinality({c \in Call : /\ lease[c].limit = k /\ lease[c].windows # {}
                                  /\ lease[c].state \in Live
                                  /\ lease[c].at + TTL[c] > now}) <= MaxConcurrency

(* What the provider was made to spend is never missing from the window it *)
(* was admitted in, although the caller died, answered late or does not    *)
(* know.                                                                   *)
SpendNeverLost ==
    \A w \in Window :
        Cardinality(UNION {{c} \X (1..call[c].used) : c \in {d \in Call : w \in lease[d].windows}})
            <= window[w].ctok + window[w].utok + window[w].rtok

(* A branch and its lease agree: completed exactly when committed, failed  *)
(* or blocked only once the lease is given back.  An execution that ends   *)
(* leaves no lease behind, and one that reports success has min_successful *)
(* branches committed.                                                     *)
OutcomeMatchesLease ==
    /\ \A c \in Call :
          /\ branch[c] = "completed" <=> lease[c].state = "committed"
          /\ branch[c] \in {"failed", "blocked"} => lease[c].state \in {"none", "released", "expired"}
    /\ \A e \in Exec :
          stage[e] = "done" => \A c \in InPlan(e) : lease[c].state \notin Live
    /\ \A e \in Exec : status[e] \in {"completed", "partial"} =>
          Cardinality({c \in InPlan(e) : lease[c].state = "committed"}) >= required[e]

(* Counted use only grows, and a settled lease stays as it was settled.    *)
UsageNeverForgotten ==
    [][/\ \A w \in Window : /\ window'[w].creq >= window[w].creq
                            /\ window'[w].ctok + window'[w].utok >= window[w].ctok + window[w].utok
       /\ \A c \in Call : lease[c].state \in {"committed", "released", "expired"} =>
                             lease'[c] = lease[c]]_vars

(* "without replacing configured operator limits" (record_rate_limit): the *)
(* provider's own limit bounds what its models use together, unless the    *)
(* operator gives a model limits of its own.  Does not hold: the policy a  *)
(* 429 creates starts with empty windows.                                  *)
ConfiguredLimitHolds ==
    Configured = {AnyModel} /\ faults = 0 =>
        \A w \in Window : w.limit = AnyModel =>
            MapThenSumSet(LAMBDA k : LET v == [w EXCEPT !.limit = k] IN window[v].creq + window[v].rreq, Key)
                <= MaxRequests[w.kind]
=============================================================================
