------------------------- MODULE ProductLoopProofs -------------------------
(***************************************************************************)
(* Proofs about ProductLoop, for any number of runs, stories, rework       *)
(* rounds, operator decisions and crashes.                                 *)
(*                                                                         *)
(* The argument: a job starts its loop once (Fresh), so what a terminal    *)
(* loop has been through never changes again; while the pipeline is at     *)
(* work nobody but the transition endpoint brings its loop to a decision   *)
(* (Gates), so each gate the run has passed is still passed when the loop  *)
(* gets there (Earned); and the worker lands deliveries only between runs  *)
(* (Placed), so no pipeline writes over the durableRun of a landing.       *)
(***************************************************************************)
EXTENDS ProductLoop, NaturalLemmas

(* The worker runs one job at a time, and no landing meanwhile; a landing  *)
(* in progress belongs to a delivered loop.                                *)
Placed ==
    /\ run.pc = "idle" => run = NoRun
    /\ run.pc # "idle" => /\ run.id \in Id
                          /\ job[run.id].status \in {"running", "cancelled"}
                          /\ \A l \in Id : land[l] \notin Landing
    /\ \A l \in Id : land[l] \in Landing => loop[l] = "delivered"

(* A job that waits, or whose run has not begun, has no loop yet.          *)
NotBegun == {"start", "mark", "supersede", "begin"}

Fresh ==
    /\ \A j \in Id : job[j].status \in {"none", "queued", "resource_wait"} => loop[j] = "none"
    /\ run.pc \in NotBegun => loop[run.id] = "none"

(* Jobs are created in order, and retry only older ones.                   *)
Chained ==
    /\ \A j \in Id : job[j].retry < j
    /\ \A i, j \in Id : i < j /\ job[j].status # "none" => job[i].status # "none"

(* A run that entered a state after its cancellation polls next.           *)
Tardy == run.late # 0 => run.late = 1 /\ ~run.go /\ WasCancelled

(* Stages that work on a story; that follow the last one; that follow the  *)
(* security scan.                                                          *)
StoryPc    == {"develop", "qa_running", "noop_qa", "verdict", "mark_done",
               "reworking", "auto_rework", "exhausted"}
SecuredPc  == {"quality_review", "approval", "review_ready", "awaiting_approval"}
VerifiedPc == {"security_running", "skip_qa", "scan"} \cup SecuredPc

(* The run has a story to work on.                                         *)
OnStory ==
    /\ run.pc \in StoryPc => run.story \in Story
    /\ run.pc = "next_story" => Pending(run.snap.done) # {}

(* The run that ends has a result to route the thread by.                  *)
Concluded == run.pc \in {"remediate", "close", "finish", "settle"} => run.result # "none"

(* What durableRun calls done has passed QA, and the run is only past the  *)
(* gates it has passed.                                                    *)
Earned ==
    /\ \A l \in Id : dur[l].done \subseteq passed[l]
    /\ run.pc # "idle" => run.snap.done \subseteq passed[run.id]
    /\ run.pc = "mark_done" => run.story \in passed[run.id]
    /\ run.pc \in VerifiedPc => passed[run.id] = Story
    /\ run.pc \in SecuredPc => run.id \in secure

(* A loop that is up for a decision, or delivered, has passed all gates;   *)
(* no run is still at work on it.                                          *)
Gated(l) == passed[l] = Story /\ l \in secure

Gates ==
    /\ \A l \in Id \ manual : loop[l] \in {"awaiting_approval", "delivered"} => Gated(l)
    /\ run.pc \in Work /\ run.id \notin manual =>
           loop[run.id] \notin {"awaiting_approval", "delivered"}

(* The operator has not blocked the loop the pipeline works on; once the   *)
(* approval is requested it stays pending as long as the loop can still    *)
(* get to awaiting_approval; and the closing write keeps the reference.    *)
Asked ==
    run.id \notin manual \cup paused =>
        /\ run.pc \in Work => loop[run.id] \notin {"blocked", "awaiting_feedback"}
        /\ (/\ run.pc \in {"review_ready", "awaiting_approval"}
            /\ loop[run.id] \in {"security_running", "quality_review", "review_ready"})
                => action[run.id] = "pending"
        /\ (run.pc \in {"remediate", "close"} /\ loop[run.id] = "awaiting_approval")
                => run.snap.approval = "available"

Approved ==
    \A l \in Id \ (manual \cup paused) : loop[l] = "delivered" => action[l] = "approved"

(* A landing that git finished is over, and no run writes its durableRun.  *)
Final == {"landed", "pending_manual_pr"}

Landed ==
    /\ \A l \in Id : dur[l].landing \in Final =>
           loop[l] = "delivered" /\ land[l] \notin Landing /\ run.id # l
    /\ run.snap.landing \notin Final

(* NoZombieLoop, from the step that supersedes on.                         *)
Superseded ==
    run.pc \in Work \cup {"begin"} =>
        \A l \in Id \ ({run.id} \cup manual) : Interrupted(l) => loop[l] = "reworking"

-----------------------------------------------------------------------------
(* Helpers.                                                                *)

(* What the retry chain carries to loop l, if f is right about older ones. *)
SourceOf(f, l) ==
    IF l = 0 THEN {} ELSE IF dur[l].done # {} THEN dur[l].done ELSE f[job[l].retry]

UpTo(n, f) == f = [l \in 0..n |-> SourceOf(f, l)]

(* Every loop retries an older one, so the recursion of                    *)
(* _retry_source_progress ends: a function that solves it exists.          *)
LEMMA SourceExists ==
    ASSUME Chained, job \in [Id -> JobRow]
    PROVE  \E f : UpTo(MaxRuns, f)
<1> DEFINE S == {n \in Nat : n <= MaxRuns => \E f : UpTo(n, f)}
<1>1. ASSUME NEW n \in Nat, \A m \in Nat : m < n => m \in S, n <= MaxRuns
      PROVE  \E f : UpTo(n, f)
  <2>1. CASE n = 0
    <3>1. UpTo(0, [l \in 0..0 |-> {}])
      BY DEF UpTo, SourceOf
    <3> QED
      BY <2>1, <3>1
  <2>2. CASE n # 0
    <3>1. n - 1 \in Nat /\ n - 1 < n /\ n - 1 <= MaxRuns /\ n \in Id
      BY <1>1, <2>2, ProductLoopAssumption DEF Id
    <3>2. PICK g : UpTo(n - 1, g)
      BY <1>1, <3>1
    <3> DEFINE f == [l \in 0..n |-> IF l = n THEN SourceOf(g, n) ELSE g[l]]
    <3>3. ASSUME NEW l \in 1..n PROVE job[l].retry \in 0..(n - 1) /\ job[l].retry < l /\ l \in Id
      BY <1>1, <3>1, <3>3, ProductLoopAssumption DEF Chained, Id, JobRow
    <3>4. ASSUME NEW l \in 0..n PROVE f[l] = SourceOf(f, l)
      <4>1. SourceOf(f, l) = SourceOf(g, l)
        BY <3>1, <3>3 DEF SourceOf
      <4>2. l # n => l \in 0..(n - 1)
        BY <3>1
      <4>3. l # n => g[l] = SourceOf(g, l)
        BY <3>2, <4>2 DEF UpTo
      <4> QED
        BY <4>1, <4>3
    <3>5. UpTo(n, f)
      <4>1. f = [l \in 0..n |-> f[l]]
        OBVIOUS
      <4> QED
        BY <3>4, <4>1 DEF UpTo
    <3> QED
      BY <3>5
  <2> QED
    BY <2>1, <2>2
<1>2. Nat \subseteq S
  <2>1. \A n \in Nat : (\A m \in Nat : m < n => m \in S) => n \in S
    BY <1>1
  <2> HIDE DEF S
  <2> QED
    BY <2>1, SmallerOnesSuffice
<1> QED
  BY <1>2, ProductLoopAssumption

(* What a retry carries over was done in the loop of an earlier job.       *)
LEMMA CarriedWasDone ==
    ASSUME Chained, job \in [Id -> JobRow], run.id \in Id
    PROVE  RetrySource \subseteq UNION {dur[l].done : l \in Id}
<1> DEFINE U == UNION {dur[l].done : l \in Id}
<1>1. PICK f : UpTo(MaxRuns, f) /\ RetrySource = f[job[run.id].retry]
  BY SourceExists DEF RetrySource, UpTo, SourceOf
<1> DEFINE S == {n \in Nat : n <= MaxRuns => f[n] \subseteq U}
<1>2. ASSUME NEW n \in Nat, \A m \in Nat : m < n => m \in S, n <= MaxRuns
      PROVE  f[n] \subseteq U
  <2>1. f[n] = SourceOf(f, n)
    BY <1>1, <1>2, ProductLoopAssumption DEF UpTo
  <2>2. CASE n = 0
    BY <2>1, <2>2 DEF SourceOf
  <2>3. CASE n # 0
    <3>1. n \in Id /\ job[n].retry \in Nat /\ job[n].retry < n /\ job[n].retry <= MaxRuns
      BY <1>2, <2>3, ProductLoopAssumption DEF Id, Chained, JobRow
    <3>2. f[job[n].retry] \subseteq U
      BY <1>2, <3>1
    <3> QED
      BY <2>1, <2>3, <3>1, <3>2 DEF SourceOf
  <2> QED
    BY <2>2, <2>3
<1>3. Nat \subseteq S
  <2>1. \A n \in Nat : (\A m \in Nat : m < n => m \in S) => n \in S
    BY <1>2
  <2> HIDE DEF S
  <2> QED
    BY <2>1, SmallerOnesSuffice
<1>4. job[run.id].retry \in Nat /\ job[run.id].retry <= MaxRuns
  BY ProductLoopAssumption DEF JobRow
<1> QED
  BY <1>1, <1>3, <1>4

(* The next story is one that is not done yet.                             *)
LEMMA NextIsPending ==
    ASSUME NEW done, Pending(done) # {}
    PROVE  NextStory(done) \in Pending(done) /\ NextStory(done) \in Story
<1>1. Pending(done) \subseteq Nat
  BY ProductLoopAssumption DEF Pending, Story
<1>2. \E s \in Pending(done) : \A t \in Pending(done) : s <= t
  BY <1>1, LeastNatural
<1> QED
  BY <1>2 DEF NextStory, Pending

(* The pipeline's copy of its own state.                                   *)
RunRow == [id : 0..MaxRuns, pc : Pc, go : BOOLEAN, snap : DurableRun,
           story : Story \cup {0}, round : 0..AutoRework,
           fast : BOOLEAN, result : Result, late : Nat]

(* The stages of the pipeline, and the loop states they enter.             *)
LEMMA StageIs ==
    /\ Stage = {"workspace_check", "git_check", "runtime_check", "discovery",
                "awaiting_user", "brief_ready", "planning", "architecture_review",
                "backlog_ready", "branch_ready", "executing", "qa_running",
                "noop_qa", "skip_qa", "reworking", "auto_rework", "next_story",
                "security_running", "quality_review", "review_ready",
                "awaiting_approval"}
    /\ \A p \in Stage :
         /\ Enters[p] \in PRODUCT_LOOP_STATES \ {"goal_received", "discovering",
                  "iteration_planning", "awaiting_feedback", "delivered", "blocked", "cancelled"}
         /\ Enters[p] = "awaiting_approval" => p = "awaiting_approval"
         /\ Enters[p] = "review_ready" => p = "review_ready"
         /\ p \in {"review_ready", "awaiting_approval"} => Enters[p] = p
BY DEF Stage, Enters, PRODUCT_LOOP_STATES

(* The points of the pipeline at which its loop is being executed.         *)
LEMMA WorkIs ==
    Work = Stage \cup {"functionality", "route", "stories", "develop", "verdict",
                       "exhausted", "scan", "approval", "plan", "mark_done"}
BY StageIs DEF Work, Blockable, IntakeChecks, EnvironmentChecks, ResourceChecks,
   DiscoveryChecks, TeamChecks, ExecutionChecks, CoverageChecks, DeveloperChecks, QaChecks,
   ReviewChecks, SecurityChecks, ApprovalChecks

(* Where the pipeline goes on once it has entered a state.                 *)
LEMMA AfterIs ==
    ASSUME run \in RunRow, OnStory, run.pc \in Stage, NEW d \in DurableRun,
           d.done = run.snap.done
    PROVE  LET r == After(run.pc, d)
           IN  /\ r \in RunRow /\ r.id = run.id /\ ~r.go /\ r.snap = d /\ r.late = run.late
               /\ r.pc \in Work \cup {"close"}
               /\ r.pc \in StoryPc => r.story \in Story
               /\ r.pc # "next_story"
               /\ r.pc = "mark_done" => run.pc = "noop_qa" /\ r.story = run.story
               /\ r.pc \in VerifiedPc => run.pc \in VerifiedPc
               /\ r.pc \in SecuredPc => run.pc \in SecuredPc
               /\ r.pc # "review_ready"
               /\ r.pc = "awaiting_approval" => run.pc = "review_ready"
               /\ run.pc = "awaiting_approval" => r.pc = "close"
               /\ r.pc = "close" => r.result # "none"
<1> DEFINE at(q) == [run EXCEPT !.pc = q, !.go = FALSE, !.snap = d]
           r == After(run.pc, d)
<1>1. ASSUME NEW q \in Pc
      PROVE  /\ at(q) \in RunRow /\ at(q).id = run.id /\ ~at(q).go /\ at(q).snap = d
             /\ at(q).late = run.late /\ at(q).pc = q /\ at(q).story = run.story
             /\ at(q).round = run.round
  BY DEF RunRow
<1>2. Work \cup {"close"} \subseteq Pc
  BY DEF Pc, Ending
<1> HIDE DEF at
<1>3. CASE run.pc \in {"workspace_check", "git_check", "runtime_check", "discovery", "planning",
                     "architecture_review", "backlog_ready", "branch_ready", "executing"}
  <2>1. \E q \in {"git_check", "runtime_check", "discovery", "route", "plan", "backlog_ready",
                "branch_ready", "executing", "stories"} : r = at(q)
    BY <1>3, Zenon DEF After, at
  <2>2. PICK q : /\ r = at(q)
                /\ q \in {"git_check", "runtime_check", "discovery", "route", "plan",
                          "backlog_ready", "branch_ready", "executing", "stories"}
    BY <2>1
  <2>3. q \in Work /\ q \in Pc
    BY <1>2, <2>2, StageIs, WorkIs
  <2> QED
    BY <1>1, <1>3, <2>2, <2>3 DEF StoryPc, VerifiedPc, SecuredPc
<1>4. CASE run.pc \in {"auto_rework", "qa_running", "noop_qa", "skip_qa", "security_running",
                     "quality_review", "review_ready"}
  <2>1. /\ run.pc = "auto_rework" => r = at("develop")
        /\ run.pc = "qa_running" => r = at("verdict")
        /\ run.pc = "noop_qa" => r = at("mark_done")
        /\ run.pc = "skip_qa" => r = at("security_running")
        /\ run.pc = "security_running" => r = at("scan")
        /\ run.pc = "quality_review" => r = at("approval")
        /\ run.pc = "review_ready" => r = at("awaiting_approval")
    BY DEF After, at
  <2> QED
    BY <1>1, <1>2, <1>4, <2>1, StageIs, WorkIs DEF OnStory, StoryPc, VerifiedPc, SecuredPc
<1>5. CASE run.pc = "reworking"
  <2>1. r = Reworked(at("reworking"))
    BY <1>5 DEF After, at
  <2>2. /\ at("reworking") \in RunRow /\ at("reworking").id = run.id /\ ~at("reworking").go
        /\ at("reworking").snap = d /\ at("reworking").late = run.late
        /\ at("reworking").story = run.story
    BY <1>1 DEF Pc, Work, Stage, Enters
  <2>3. ASSUME NEW x \in RunRow
        PROVE  /\ Reworked(x) \in RunRow /\ Reworked(x).pc \in {"exhausted", "auto_rework"}
               /\ Reworked(x).id = x.id /\ Reworked(x).go = x.go /\ Reworked(x).snap = x.snap
               /\ Reworked(x).late = x.late /\ Reworked(x).story = x.story
    <3>1. {"exhausted", "auto_rework"} \subseteq Pc
      BY <1>2, WorkIs, StageIs
    <3>2. CASE x.round >= AutoRework
      BY <3>1, <3>2 DEF Reworked, RunRow
    <3>3. CASE ~(x.round >= AutoRework)
      <4>1. x.round + 1 \in 0..AutoRework
        BY <3>3, ProductLoopAssumption DEF RunRow
      <4> QED
        BY <3>1, <3>3, <4>1 DEF Reworked, RunRow
    <3> QED
      BY <3>2, <3>3
  <2> QED
    BY <1>5, <2>1, <2>2, <2>3, StageIs, WorkIs DEF OnStory, StoryPc, VerifiedPc, SecuredPc
<1>6. CASE run.pc = "next_story"
  <2>1. NextStory(d.done) \in Story
    BY <1>6, NextIsPending DEF OnStory
  <2>2. r = [at("develop") EXCEPT !.story = NextStory(d.done), !.round = 0]
    BY <1>6 DEF After, at
  <2>3. "develop" \in Work /\ "develop" \in Pc /\ 0 \in 0..AutoRework
    BY <1>2, WorkIs, ProductLoopAssumption
  <2>4. at("develop") \in RunRow /\ at("develop").pc = "develop"
    BY <1>1, <2>3
  <2>5. r \in RunRow /\ r.pc = "develop" /\ r.story \in Story
    BY <2>1, <2>2, <2>3, <2>4 DEF RunRow
  <2>6. r.id = run.id /\ ~r.go /\ r.snap = d /\ r.late = run.late
    BY <1>1, <2>2, <2>3, <2>4 DEF RunRow
  <2> QED
    BY <1>6, <2>3, <2>5, <2>6 DEF VerifiedPc, SecuredPc
<1>7. CASE run.pc \in {"awaiting_user", "brief_ready", "awaiting_approval"}
  <2>1. Enters[run.pc] \in Result \ {"none"}
    BY <1>7, StageIs DEF Enters, Result
  <2>2. r = [at("close") EXCEPT !.result = Enters[run.pc]]
    BY <1>7 DEF After, at
  <2> QED
    BY <1>1, <1>2, <1>7, <2>1, <2>2 DEF RunRow, StoryPc, VerifiedPc, SecuredPc
<1> QED
  BY <1>3, <1>4, <1>5, <1>6, <1>7, StageIs

-----------------------------------------------------------------------------
(* Which steps write which variable.                                       *)

(* A decision about the delivery of l. *)
Decides(l) == Accept(l) \/ RequestChanges(l) \/ RequestTaskChanges(l)

(* Jobs are written by queueing, cancelling, admission and the end of a    *)
(* run.                                                                    *)
LEMMA JobFrame ==
    ASSUME [Next]_vars
    PROVE  \/ UNCHANGED job
           \/ PostQueues \/ CancelExecution \/ CloseRun \/ Crash
           \/ \E l \in Id : Continue(l) \/ RetryLoop(l) \/ WaitForCapacity(l) \/ Claim(l)
BY DEF Next, vars, rowVars, OperatorStep, Pipeline, Lander, PostChecks, ListRemediations, Accept,
   RequestChanges, RequestTaskChanges, PauseLoop, CancelLoop, TransitionApi, RetryLanding,
   CheckBeforeStart, MarkRunning, Supersede, Begin, Poll, Commit, Block, Remediate,
   ClearRunActive, MatchExisting, Route, Plan, CompletePlanOnly, StartStories, Develop,
   QaPasses, QaFails, MarkStoryDone, ScanPasses, RequestApproval, CheckBeforeFinish,
   SettleThread, StartLanding, RunGit, RecordLanding, CrashLanding

(* Loop states are written by superseding, the pipeline's transitions and  *)
(* the operator's actions.                                                 *)
LEMMA LoopFrame ==
    ASSUME [Next]_vars
    PROVE  \/ UNCHANGED loop
           \/ Supersede \/ Begin \/ Poll \/ Commit \/ Block
           \/ \E l \in Id : \/ Decides(l) \/ Continue(l) \/ PauseLoop(l) \/ CancelLoop(l)
                            \/ TransitionApi(l) \/ RetryLoop(l)
BY DEF Next, vars, Decides, OperatorStep, Pipeline, Lander, PostChecks, PostQueues,
   CancelExecution, ListRemediations, RetryLanding, WaitForCapacity, Claim, Crash, CloseRun,
   CheckBeforeStart, MarkRunning, Remediate, ClearRunActive, MatchExisting, Route, Plan,
   CompletePlanOnly, StartStories, Develop, QaPasses, QaFails, MarkStoryDone, ScanPasses,
   RequestApproval, CheckBeforeFinish, SettleThread, StartLanding, RunGit, RecordLanding,
   CrashLanding

(* durableRun is written by the pipeline, a decision and a landing.        *)
LEMMA DurFrame ==
    ASSUME [Next]_vars
    PROVE  UNCHANGED dur \/ Pipeline \/ \E l \in Id : Decides(l) \/ RecordLanding(l)
BY DEF Next, vars, Decides, OperatorStep, Lander, PostChecks, PostQueues,
   CancelExecution, ListRemediations, RetryLanding, WaitForCapacity, Claim, Crash,
   PauseLoop, CancelLoop, TransitionApi, RetryLoop, Continue, StartLanding, RunGit, CrashLanding

(* The run is written by the pipeline, a crash and a claim.                *)
LEMMA RunFrame ==
    ASSUME [Next]_vars
    PROVE  UNCHANGED run \/ Pipeline \/ Crash \/ \E l \in Id : Claim(l)
BY DEF Next, vars, OperatorStep, Lander, PostChecks, PostQueues, Accept, RequestChanges,
   RequestTaskChanges, CancelExecution, ListRemediations, RetryLanding, WaitForCapacity,
   PauseLoop, CancelLoop, TransitionApi, RetryLoop, Continue, StartLanding, RunGit,
   RecordLanding, CrashLanding

(* Landing jobs are written by acceptance, the lander, its crash and its   *)
(* retry; only the lander merges.                                          *)
LEMMA LandFrame ==
    ASSUME [Next]_vars
    PROVE  \/ UNCHANGED <<land, merged>>
           \/ \E l \in Id : Accept(l) \/ Lander(l) \/ CrashLanding(l) \/ RetryLanding(l)
BY DEF Next, vars, rowVars, OperatorStep, Pipeline, PostChecks, PostQueues, RequestChanges,
   RequestTaskChanges, CancelExecution, ListRemediations, WaitForCapacity, Claim, Crash,
   PauseLoop, CancelLoop, TransitionApi, RetryLoop, Continue, CloseRun,
   CheckBeforeStart, MarkRunning, Supersede, Begin, Poll, Commit, Block, Remediate,
   ClearRunActive, MatchExisting, Route, Plan, CompletePlanOnly, StartStories, Develop,
   QaPasses, QaFails, MarkStoryDone, ScanPasses, RequestApproval, CheckBeforeFinish,
   SettleThread

(* Action requests are written by the pipeline's request and by decisions. *)
LEMMA ActionFrame ==
    ASSUME [Next]_vars
    PROVE  UNCHANGED action \/ RequestApproval \/ \E l \in Id : Decides(l)
BY DEF Next, vars, rowVars, Decides, OperatorStep, Pipeline, Lander, PostChecks, PostQueues,
   CancelExecution, ListRemediations, RetryLanding, WaitForCapacity, Claim, Crash, CloseRun,
   PauseLoop, CancelLoop, TransitionApi, RetryLoop, Continue,
   CheckBeforeStart, MarkRunning, Supersede, Begin, Poll, Commit, Block, Remediate,
   ClearRunActive, MatchExisting, Route, Plan, CompletePlanOnly, StartStories, Develop,
   QaPasses, QaFails, MarkStoryDone, ScanPasses, CheckBeforeFinish, SettleThread,
   StartLanding, RunGit, RecordLanding, CrashLanding

(* The histories only ever grow, but for the stories of a run that starts  *)
(* its first one.                                                          *)
LEMMA HistoryFrame ==
    ASSUME [Next]_vars
    PROVE  /\ UNCHANGED passed \/ Commit \/ StartStories \/ QaPasses
           /\ UNCHANGED secure \/ ScanPasses
           /\ UNCHANGED manual \/ \E l \in Id : TransitionApi(l)
           /\ UNCHANGED paused \/ \E l \in Id : PauseLoop(l)
BY DEF Next, vars, histVars, OperatorStep, Pipeline, Lander, PostChecks, PostQueues, Accept,
   RequestChanges, RequestTaskChanges, CancelExecution, ListRemediations, RetryLanding,
   WaitForCapacity, Claim, Crash, CloseRun, PauseLoop, CancelLoop, TransitionApi, RetryLoop,
   Continue, CheckBeforeStart, MarkRunning, Supersede, Begin, Poll, Commit, Block, Remediate,
   ClearRunActive, MatchExisting, Route, Plan, CompletePlanOnly, StartStories, Develop,
   QaPasses, QaFails, MarkStoryDone, ScanPasses, RequestApproval, CheckBeforeFinish,
   SettleThread, StartLanding, RunGit, RecordLanding, CrashLanding

(* The thread is closed by the end of a run, and otherwise opened, queued, *)
(* run, put on hold or resolved.                                           *)
LEMMA ThreadFrame ==
    ASSUME [Next]_vars
    PROVE  \/ UNCHANGED thread \/ thread' \in {"open", "queued", "running", "waiting_decision", "resolved"}
           \/ SettleThread
BY DEF Next, vars, rowVars, Queue, OperatorStep, Pipeline, Lander, PostChecks, PostQueues, Accept,
   RequestChanges, RequestTaskChanges, CancelExecution, ListRemediations, RetryLanding,
   WaitForCapacity, Claim, Crash, CloseRun, PauseLoop, CancelLoop, TransitionApi, RetryLoop,
   Continue, CheckBeforeStart, MarkRunning, Supersede, Begin, Poll, Commit, Block, Remediate,
   ClearRunActive, MatchExisting, Route, Plan, CompletePlanOnly, StartStories, Develop,
   QaPasses, QaFails, MarkStoryDone, ScanPasses, RequestApproval, CheckBeforeFinish,
   StartLanding, RunGit, RecordLanding, CrashLanding

(* Posts and operator decisions are counted one at a time.                 *)
LEMMA CounterFrame ==
    ASSUME [Next]_vars
    PROVE  /\ UNCHANGED posts \/ PostChecks \/ PostQueues
           /\ UNCHANGED ops \/ (ops < MaxOps /\ ops' = ops + 1)
BY DEF Next, vars, rowVars, histVars, Disrupt, OperatorStep, Pipeline, Lander, Accept,
   RequestChanges, RequestTaskChanges, CancelExecution, ListRemediations, RetryLanding,
   WaitForCapacity, Claim, Crash, CloseRun, PauseLoop, CancelLoop, TransitionApi, RetryLoop,
   Continue, CheckBeforeStart, MarkRunning, Supersede, Begin, Poll, Commit, Block, Remediate,
   ClearRunActive, MatchExisting, Route, Plan, CompletePlanOnly, StartStories, Develop,
   QaPasses, QaFails, MarkStoryDone, ScanPasses, RequestApproval, CheckBeforeFinish,
   SettleThread, StartLanding, RunGit, RecordLanding, CrashLanding, PostChecks, PostQueues

(* Remediations are written by the pipeline, by the cleanup of terminal    *)
(* loops and by listing them.                                              *)
LEMMA RemediationFrame ==
    ASSUME [Next]_vars
    PROVE  \/ UNCHANGED rem \/ Poll \/ Supersede \/ Remediate \/ ListRemediations
           \/ \E l \in Id : TransitionApi(l) \/ RetryLoop(l)
BY DEF Next, vars, rowVars, OperatorStep, Pipeline, Lander, PostChecks, PostQueues, Accept,
   RequestChanges, RequestTaskChanges, CancelExecution, RetryLanding,
   WaitForCapacity, Claim, Crash, CloseRun, PauseLoop, CancelLoop,
   Continue, CheckBeforeStart, MarkRunning, Begin, Commit, Block,
   ClearRunActive, MatchExisting, Route, Plan, CompletePlanOnly, StartStories, Develop,
   QaPasses, QaFails, MarkStoryDone, ScanPasses, RequestApproval, CheckBeforeFinish,
   SettleThread, StartLanding, RunGit, RecordLanding, CrashLanding

-----------------------------------------------------------------------------
(* Types.                                                                  *)

Types == TypeOK /\ Placed /\ Chained /\ OnStory /\ Concluded

(* The rows, the pipeline and the histories start with their types.        *)
LEMMA TypeInit == Init => TypeOK
BY ProductLoopAssumption
DEF Init, TypeOK, ThreadStatus, NoJob, JobRow, JobStatus, NoDurable, DurableRun, NoRun, Pc,
    Result

(* What create_job, cancellation, claiming and closing write into a job.   *)
LEMMA JobTyped == Types /\ [Next]_vars => job' \in [Id -> JobRow]
<1> SUFFICES ASSUME Types, [Next]_vars PROVE job' \in [Id -> JobRow]
  OBVIOUS
<1>0. job \in [Id -> JobRow]
  BY DEF Types, TypeOK
<1>1. ASSUME NEW k \in {"message", "retry", "continue"}, NEW r \in 0..MaxRuns,
             NEW c \in 0..MaxRuns, Queue(k, r, c)
      PROVE  job' \in [Id -> JobRow]
  BY <1>0, <1>1 DEF Queue, JobRow, JobStatus
<1>2. ASSUME NEW j \in Id, NEW s \in JobStatus, job' = [job EXCEPT ![j].status = s]
      PROVE  job' \in [Id -> JobRow]
  BY <1>0, <1>2 DEF JobRow
<1>3. CASE PostQueues
  BY <1>0, <1>1, <1>3, ProductLoopAssumption DEF PostQueues
<1>4. ASSUME NEW l \in Id, Continue(l) \/ RetryLoop(l) PROVE job' \in [Id -> JobRow]
  BY <1>0, <1>1, <1>4, ProductLoopAssumption DEF Continue, RetryLoop, JobRow, Id
<1>5. ASSUME NEW l \in Id, WaitForCapacity(l) \/ Claim(l) PROVE job' \in [Id -> JobRow]
  BY <1>2, <1>5 DEF WaitForCapacity, Claim, JobStatus
<1>6. CASE CloseRun \/ Crash
  <2>1. run.id \in Id
    BY <1>6 DEF Types, Placed, CloseRun, Crash
  <2> QED
    BY <1>0, <1>6, <2>1 DEF CloseRun, Crash, JobRow, JobStatus
<1>7. CASE CancelExecution
  BY <1>0, <1>7 DEF CancelExecution, JobRow, JobStatus
<1>8. CASE UNCHANGED job
  BY <1>0, <1>8
<1> QED
  BY <1>3, <1>4, <1>5, <1>6, <1>7, <1>8, JobFrame

(* What the state table allows.                                            *)
LEMMA TableIs ==
    ASSUME NEW s \in PRODUCT_LOOP_STATES, NEW t \in ALLOWED_TRANSITIONS[s]
    PROVE  /\ t \in PRODUCT_LOOP_STATES
           /\ s \notin TERMINAL_STATES
           /\ t = "delivered" => s = "awaiting_approval"
           /\ t = "awaiting_feedback" => s \in {"awaiting_approval", "blocked"}
           /\ t = "awaiting_approval" => s \in {"review_ready", "quality_review", "blocked"}
           /\ t = "review_ready" => s \in {"security_running", "quality_review", "blocked"}
<1>1. CASE s \in TERMINAL_STATES
  BY <1>1 DEF ALLOWED_TRANSITIONS, TERMINAL_STATES
<1>2. CASE s = "blocked"
  BY <1>2 DEF ALLOWED_TRANSITIONS, RESUMABLE_STATES, TERMINAL_STATES, PRODUCT_LOOP_STATES
<1>3. CASE s \notin TERMINAL_STATES \cup {"blocked"}
  <2>1. t \in Forward(s) \cup {"blocked", "cancelled"}
    BY <1>3 DEF ALLOWED_TRANSITIONS
  <2>2. t \in PRODUCT_LOOP_STATES
    BY <1>3, <2>1 DEF Forward, PRODUCT_LOOP_STATES, TERMINAL_STATES
  <2> QED
    BY <1>3, <2>1, <2>2 DEF Forward, PRODUCT_LOOP_STATES, TERMINAL_STATES
<1> QED
  BY <1>1, <1>2, <1>3

(* Every way a step can move a loop.                                       *)
Moved(l) ==
    \/ loop'[l] = loop[l]
    \/ Begin /\ l = run.id /\ loop'[l] = "goal_received"
    \/ /\ loop[l] \in PRODUCT_LOOP_STATES \ TERMINAL_STATES
       /\ \/ loop'[l] = "cancelled"
          \/ Accept(l) /\ loop[l] = "awaiting_approval" /\ loop'[l] = "delivered"
          \/ /\ RequestChanges(l)
             /\ loop[l] \in {"awaiting_approval", "blocked"}
             /\ loop'[l] = "awaiting_feedback"
          \/ (RequestTaskChanges(l) \/ Continue(l)) /\ loop'[l] = "reworking"
          \/ (l \in paused' \/ (Block /\ l = run.id)) /\ loop'[l] = "blocked"
          \/ l \in manual' /\ loop'[l] \in PRODUCT_LOOP_STATES
          \/ /\ Commit /\ l = run.id
             /\ loop'[l] = Enters[run.pc]
             /\ Enters[run.pc] \in ALLOWED_TRANSITIONS[loop[l]]

(* Every step moves every loop in one of these ways.                       *)
LEMMA LoopMoves == Types /\ [Next]_vars => \A l \in Id : Moved(l)
<1> SUFFICES ASSUME Types, [Next]_vars, NEW l \in Id PROVE Moved(l)
  OBVIOUS
<1> DEFINE Open(k) == loop[k] \in PRODUCT_LOOP_STATES \ TERMINAL_STATES
<1>0. loop \in [Id -> PRODUCT_LOOP_STATES \cup {"none"}] /\ manual \subseteq Id /\ paused \subseteq Id
  BY DEF Types, TypeOK
<1>1. ASSUME NEW k \in Id, NEW s, Allowed(k, s)
      PROVE  /\ Open(k) /\ s \in ALLOWED_TRANSITIONS[loop[k]] /\ s \in PRODUCT_LOOP_STATES
             /\ s = "delivered" => loop[k] = "awaiting_approval"
             /\ s = "awaiting_feedback" => loop[k] \in {"awaiting_approval", "blocked"}
  BY <1>0, <1>1, TableIs DEF Allowed
<1>2. ASSUME NEW k \in Id, Accept(k) \/ RequestChanges(k) \/ RequestTaskChanges(k)
      PROVE  Moved(l)
  <2>1. PICK s \in {"delivered", "awaiting_feedback", "reworking"} :
           /\ Allowed(k, s) /\ loop' = [loop EXCEPT ![k] = s]
           /\ s = "delivered" => Accept(k)
           /\ s = "awaiting_feedback" => RequestChanges(k)
           /\ s = "reworking" => RequestTaskChanges(k)
    BY <1>2 DEF Accept, RequestChanges, RequestTaskChanges
  <2> QED
    BY <1>0, <1>1, <2>1 DEF Moved
<1>3. ASSUME NEW k \in Id, Continue(k) PROVE Moved(l)
  BY <1>0, <1>3 DEF Moved, Continue, PRODUCT_LOOP_STATES, TERMINAL_STATES
<1>4. ASSUME NEW k \in Id, PauseLoop(k) \/ CancelLoop(k) PROVE Moved(l)
  BY <1>0, <1>1, <1>4 DEF Moved, PauseLoop, CancelLoop
<1>5. ASSUME NEW k \in Id, TransitionApi(k) PROVE Moved(l)
  BY <1>0, <1>1, <1>5 DEF Moved, TransitionApi
<1>6. ASSUME NEW k \in Id, RetryLoop(k) PROVE Moved(l)
  BY <1>0, <1>6 DEF Moved, RetryLoop, PRODUCT_LOOP_STATES, TERMINAL_STATES
<1>7. CASE Supersede
  <2>1. Interrupted(l) \/ Continued(l) => Open(l)
    BY <1>0 DEF Interrupted, Continued, PRODUCT_LOOP_STATES, TERMINAL_STATES
  <2> QED
    BY <1>7, <2>1 DEF Moved, Supersede
<1>8. run.pc # "idle" => run.id \in Id
  BY DEF Types, Placed
<1>9. CASE Begin
  BY <1>0, <1>8, <1>9 DEF Moved, Begin
<1>10. CASE Poll \/ Block
  <2>1. run.id \in Id
    BY <1>8, <1>10, StageIs, WorkIs DEF Poll, Block, Work
  <2> QED
    BY <1>0, <1>1, <1>10, <2>1 DEF Moved, Poll, CancelRun, Block
<1>11. CASE Commit
  <2>1. run.id \in Id
    BY <1>8, <1>11, StageIs DEF Commit
  <2> QED
    BY <1>0, <1>1, <1>11, <2>1 DEF Moved, Commit
<1>12. CASE UNCHANGED loop
  BY <1>12 DEF Moved
<1> QED
  BY <1>2, <1>3, <1>4, <1>5, <1>6, <1>7, <1>9, <1>10, <1>11, <1>12, LoopFrame DEF Decides

(* The pipeline between runs, and a durableRun as start_loop writes it.    *)
LEMMA NoRunTyped == NoRun \in RunRow /\ NoDurable \in DurableRun /\ Started \in DurableRun
<1>1. NoDurable \in DurableRun
  BY DEF NoDurable, DurableRun
<1>2. Started \in DurableRun
  BY <1>1 DEF Started, DurableRun
<1>3. "idle" \in Pc /\ "none" \in Result /\ 0 \in 0..MaxRuns /\ 0 \in 0..AutoRework
  BY ProductLoopAssumption DEF Result, Pc
<1> QED
  BY <1>1, <1>2, <1>3 DEF NoRun, RunRow

(* A decision or a landing changes these two fields of durableRun.         *)
LEMMA DurableTyped ==
    ASSUME NEW d \in DurableRun, NEW a \in {"none", "available", "approved", "denied"},
           NEW g \in {"none", "queued", "landing_failed", "landed", "pending_manual_pr"}
    PROVE  /\ [d EXCEPT !.approval = a] \in DurableRun
           /\ [d EXCEPT !.landing = g] \in DurableRun
           /\ [d EXCEPT !.approval = a, !.landing = g] \in DurableRun
           /\ d.landing \in {"none", "queued", "landing_failed", "landed", "pending_manual_pr"}
BY DEF DurableRun

(* What the pipeline, a decision and a landing write into durableRun, and  *)
(* what the pipeline makes of its own state.                               *)
LEMMA PipelineTyped ==
    ASSUME Types, Pipeline
    PROVE  run' \in RunRow /\ dur' \in [Id -> DurableRun]
<1> DEFINE Typed == run' \in RunRow /\ dur' \in [Id -> DurableRun]
<1>0. /\ run \in RunRow /\ dur \in [Id -> DurableRun] /\ run.id \in 0..MaxRuns
      /\ run.snap \in DurableRun /\ run.pc \in Pc
      /\ run.pc # "idle" => run.id \in Id
  BY DEF Types, TypeOK, RunRow, Placed
<1>1. /\ Work \cup Ending \cup NotBegun \cup {"idle"} = Pc
      /\ Stage \subseteq Work
  BY DEF Pc, NotBegun, Work
<1>2. NoRun \in RunRow /\ Started \in DurableRun
  BY NoRunTyped
<1>3. ASSUME NEW p \in Pc, Goto(p), UNCHANGED dur PROVE Typed
  BY <1>0, <1>3 DEF Goto, RunRow
<1>4. ASSUME NEW p \in Pc, NEW r \in Result, Finish(r, p), dur' \in [Id -> DurableRun] PROVE Typed
  BY <1>0, <1>4 DEF Finish, RunRow
<1>5. CASE CheckBeforeStart \/ MarkRunning \/ Supersede \/ CheckBeforeFinish \/ SettleThread
           \/ MatchExisting \/ Route \/ Develop \/ QaPasses \/ QaFails \/ ScanPasses
           \/ RequestApproval \/ Remediate
  <2>1. {"closing", "mark", "supersede", "begin", "settle", "functionality", "awaiting_user",
         "brief_ready", "planning", "qa_running", "noop_qa", "mark_done", "reworking", "approval",
         "quality_review", "review_ready", "close"} \subseteq Pc
    BY <1>1, StageIs, WorkIs DEF Ending, NotBegun
  <2>2. \E p \in Pc : Goto(p)
    BY <1>5, <2>1 DEF CheckBeforeStart, MarkRunning, Supersede, CheckBeforeFinish, SettleThread,
       MatchExisting, Route, Develop, QaPasses, QaFails, ScanPasses, RequestApproval, Remediate
  <2>3. UNCHANGED dur
    BY <1>5 DEF CheckBeforeStart, MarkRunning, Supersede, CheckBeforeFinish, SettleThread,
       MatchExisting, Route, Develop, QaPasses, QaFails, ScanPasses, RequestApproval, Remediate
  <2> QED
    BY <1>3, <2>2, <2>3
<1>6. CASE Begin
  BY <1>0, <1>1, <1>2, <1>6, StageIs DEF Begin, RunRow
<1>7. CASE Poll
  <2>1. {"close", "finish"} \subseteq Pc /\ {"cancelled", "failed"} \subseteq Result
    BY <1>1 DEF Ending, Result
  <2>2. dur[run.id] \in DurableRun
    BY <1>0, <1>1, <1>7, StageIs DEF Poll
  <2> QED
    BY <1>0, <1>4, <1>7, <2>1, <2>2 DEF Poll, CancelRun, RunRow
<1>8. CASE Commit
  <2>1. run.id \in Id /\ run.pc \in Stage
    BY <1>0, <1>8, StageIs DEF Commit
  <2>2. Patched(run.pc) \in DurableRun /\ Patched(run.pc).done = run.snap.done
    BY <1>0 DEF Patched, DurableRun
  <2>3. After(run.pc, Patched(run.pc)) \in RunRow /\ After(run.pc, run.snap) \in RunRow
    BY <1>0, <2>1, <2>2, AfterIs DEF Types
  <2>4. "finish" \in Pc /\ "failed" \in Result
    BY <1>1 DEF Ending, Result
  <2>5. CASE Allowed(run.id, Enters[run.pc])
    <3>1. /\ dur' = [dur EXCEPT ![run.id] = Patched(run.pc)]
          /\ run' = [After(run.pc, Patched(run.pc)) EXCEPT !.late = IF WasCancelled THEN @ + 1 ELSE @]
      BY <1>8, <2>5 DEF Commit
    <3> QED
      BY <1>0, <2>1, <2>2, <2>3, <3>1 DEF RunRow
  <2>6. CASE ~Allowed(run.id, Enters[run.pc])
    <3>1. run' = After(run.pc, run.snap) \/ Finish("failed", "finish")
      BY <1>8, <2>6 DEF Commit
    <3>2. UNCHANGED dur
      BY <1>8, <2>6 DEF Commit
    <3> QED
      BY <1>0, <1>4, <2>3, <2>4, <3>1, <3>2
  <2> QED
    BY <2>5, <2>6
<1>9. CASE Block
  <2>1. {"remediate", "finish"} \subseteq Pc /\ {"blocked", "failed"} \subseteq Result
    BY <1>1 DEF Ending, Result
  <2> QED
    BY <1>0, <1>4, <1>9, <2>1 DEF Block
<1>10. CASE ClearRunActive
  <2>1. "finish" \in Pc
    BY <1>1 DEF Ending
  <2>2. [run.snap EXCEPT !.active = FALSE] \in DurableRun
    BY <1>0 DEF DurableRun
  <2>3. dur' \in [Id -> DurableRun]
    BY <1>0, <1>10, <2>2 DEF ClearRunActive
  <2> QED
    BY <1>0, <1>10, <2>1, <2>3 DEF ClearRunActive, Goto, RunRow
<1>11. CASE Plan
  <2>1. "backlog_ready" \in Pc /\ "architecture_review" \in Pc
    BY <1>1, StageIs
  <2> QED
    BY <1>0, <1>11, <2>1 DEF Plan, Goto, RunRow
<1>12. CASE CompletePlanOnly
  <2>1. "close" \in Pc /\ "plan_ready" \in Result
    BY <1>1 DEF Ending, Result
  <2> QED
    BY <1>0, <1>4, <1>12, <2>1 DEF CompletePlanOnly
<1>13. CASE StartStories
  <2>1. run.id \in Id
    BY <1>0, <1>13 DEF StartStories
  <2>2. PICK carried \in SUBSET RetrySource :
          /\ dur' = [dur EXCEPT ![run.id] = [dur[run.id] EXCEPT !.done = carried]]
          /\ run' = [run EXCEPT !.snap = [dur[run.id] EXCEPT !.done = carried],
                       !.story = NextStory(carried),
                       !.pc = IF Pending(carried) = {} THEN "skip_qa" ELSE "develop"]
    BY <1>13 DEF StartStories
  <2>3. carried \subseteq Story
    BY <1>0, <2>1, CarriedWasDone DEF Types, TypeOK, DurableRun
  <2>4. NextStory(carried) \in Story \cup {0}
    BY NextIsPending DEF NextStory
  <2>5. "skip_qa" \in Pc /\ "develop" \in Pc
    BY <1>1, StageIs, WorkIs
  <2>6. [dur[run.id] EXCEPT !.done = carried] \in DurableRun
    BY <1>0, <2>1, <2>3 DEF DurableRun
  <2> QED
    BY <1>0, <2>2, <2>4, <2>5, <2>6 DEF RunRow
<1>14. CASE MarkStoryDone
  <2>1. run.id \in Id /\ run.story \in Story
    BY <1>0, <1>14 DEF MarkStoryDone, Types, OnStory, StoryPc
  <2> DEFINE d == [dur[run.id] EXCEPT !.done = @ \cup {run.story}]
  <2>2. d \in DurableRun
    BY <1>0, <2>1 DEF DurableRun
  <2>3. NextStage(d.done) \in Pc
    BY <1>1, StageIs DEF NextStage
  <2>4. dur' = [dur EXCEPT ![run.id] = d] /\ run' = [run EXCEPT !.pc = NextStage(d.done), !.snap = d]
    BY <1>14 DEF MarkStoryDone
  <2> HIDE DEF d
  <2> QED
    BY <1>0, <2>1, <2>2, <2>3, <2>4 DEF RunRow
<1>15. CASE CloseRun
  BY <1>0, <1>2, <1>15 DEF CloseRun
<1> QED
  BY <1>5, <1>6, <1>7, <1>8, <1>9, <1>10, <1>11, <1>12, <1>13, <1>14, <1>15 DEF Pipeline

(* Every step keeps the types of the rows, of the pipeline and of the      *)
(* histories.                                                              *)
LEMMA TypeNext == Types /\ [Next]_vars => TypeOK'
<1> SUFFICES ASSUME Types, [Next]_vars PROVE TypeOK'
  OBVIOUS
<1>0. TypeOK /\ (run.pc # "idle" => run.id \in Id)
  BY DEF Types, Placed
<1> USE DEF TypeOK
<1>1. thread' \in ThreadStatus
  <2>1. CASE SettleThread
    <3>1. run.result \in Result \ {"none"}
      BY <1>0, <2>1 DEF SettleThread, Types, Concluded
    <3> QED
      BY <2>1, <3>1 DEF SettleThread, RoutedTo, Result, ThreadStatus
  <2> QED
    BY <1>0, <2>1, ThreadFrame DEF ThreadStatus
<1>2. posts' \in 0..MaxRuns
  BY <1>0, CounterFrame, ProductLoopAssumption DEF PostChecks, PostQueues, Id
<1>3. job' \in [Id -> JobRow]
  BY JobTyped
<1>4. loop' \in [Id -> PRODUCT_LOOP_STATES \cup {"none"}]
  <2>1. \A l \in Id : loop'[l] \in PRODUCT_LOOP_STATES \cup {"none"}
    <3> SUFFICES ASSUME NEW l \in Id PROVE loop'[l] \in PRODUCT_LOOP_STATES \cup {"none"}
      OBVIOUS
    <3>1. Moved(l)
      BY LoopMoves
    <3>2. CASE Commit
      <4>1. Enters[run.pc] \in PRODUCT_LOOP_STATES
        BY <3>2, StageIs DEF Commit
      <4> QED
        BY <1>0, <3>1, <4>1 DEF Moved, PRODUCT_LOOP_STATES
    <3> QED
      BY <1>0, <3>1, <3>2 DEF Moved, PRODUCT_LOOP_STATES
  <2>2. loop' = [l \in Id |-> loop'[l]]
    BY <1>0, LoopFrame
    DEF Supersede, Begin, Poll, CancelRun, Commit, Block, Decides, Accept, RequestChanges,
        RequestTaskChanges, Continue, PauseLoop, CancelLoop, TransitionApi, RetryLoop
  <2> QED
    BY <2>1, <2>2
<1>5. dur' \in [Id -> DurableRun]
  <2>1. ASSUME NEW l \in Id, NEW v \in {"approved", "denied"}
        PROVE  /\ Decision(l, v) \in {"none", "available", "approved", "denied"}
               /\ [dur EXCEPT ![l].approval = Decision(l, v)] \in [Id -> DurableRun]
    <3>1. Decision(l, v) \in {"none", "available", "approved", "denied"}
      BY <1>0 DEF Decision
    <3>2. dur[l] \in DurableRun
      BY <1>0
    <3>3. [dur[l] EXCEPT !.approval = Decision(l, v)] \in DurableRun
      BY <3>1, <3>2, DurableTyped
    <3> QED
      BY <1>0, <3>1, <3>3
  <2>2. ASSUME NEW l \in Id, Decides(l) PROVE dur' \in [Id -> DurableRun]
    <3>1. CASE Accept(l)
      <4>1. [dur[l] EXCEPT !.approval = Decision(l, "approved"),
                           !.landing = IF dur[l].ws THEN "queued" ELSE @] \in DurableRun
        <5>1. dur[l] \in DurableRun
          BY <1>0
        <5> QED
          BY <2>1, <5>1, DurableTyped
      <4> QED
        BY <1>0, <3>1, <4>1 DEF Accept
    <3> QED
      BY <2>1, <2>2, <3>1 DEF Decides, RequestChanges, RequestTaskChanges
  <2>3. ASSUME NEW l \in Id, RecordLanding(l) PROVE dur' \in [Id -> DurableRun]
    <3>1. land[l] \in {"landed", "pending_manual_pr", "landing_failed"}
      BY <2>3 DEF RecordLanding, Landing
    <3>2. [dur[l] EXCEPT !.landing = land[l]] \in DurableRun
      <4>1. dur[l] \in DurableRun
        BY <1>0
      <4> QED
        BY <3>1, <4>1, DurableTyped
    <3> QED
      BY <1>0, <2>3, <3>2 DEF RecordLanding
  <2> QED
    BY <1>0, <2>2, <2>3, PipelineTyped, DurFrame
<1>6. run' \in RunRow
  <2>1. run \in RunRow /\ NoRun \in RunRow
    BY <1>0, NoRunTyped DEF RunRow
  <2>2. ASSUME NEW l \in Id, Claim(l) PROVE run' \in RunRow
    <3>1. "start" \in Pc /\ l \in 0..MaxRuns
      BY ProductLoopAssumption DEF Pc, Id
    <3> QED
      BY <2>1, <2>2, <3>1 DEF Claim, RunRow
  <2>3. CASE Crash
    BY <2>1, <2>3 DEF Crash
  <2> QED
    BY <2>1, <2>2, <2>3, PipelineTyped, RunFrame
<1>7. action' \in [Id -> {"none", "pending", "approved", "denied"}]
  <2>1. ASSUME NEW l \in Id, NEW v \in {"approved", "denied"}, Decide(l, v)
        PROVE  action' \in [Id -> {"none", "pending", "approved", "denied"}]
    <3>1. Decision(l, v) \in {"none", "pending", "approved", "denied"}
      BY <1>0 DEF Decision
    <3> QED
      BY <1>0, <2>1, <3>1 DEF Decide
  <2>2. ASSUME NEW l \in Id, Decides(l) PROVE \E v \in {"approved", "denied"} : Decide(l, v)
    BY <2>2 DEF Decides, Accept, RequestChanges, RequestTaskChanges
  <2> QED
    BY <1>0, <2>1, <2>2, ActionFrame DEF RequestApproval
<1>8. land' \in [Id -> {"none", "queued", "completed", "failed"} \cup Landing] /\ merged' \subseteq Id
  <2>1. ASSUME NEW l \in Id, Accept(l) \/ RecordLanding(l) \/ CrashLanding(l) \/ RetryLanding(l)
        PROVE  /\ land' \in [Id -> {"none", "queued", "completed", "failed"} \cup Landing]
               /\ merged' \subseteq Id
    BY <1>0, <2>1 DEF Accept, RecordLanding, CrashLanding, RetryLanding
  <2>2. ASSUME NEW l \in Id, StartLanding(l) \/ RunGit(l)
        PROVE  /\ land' \in [Id -> {"none", "queued", "completed", "failed"} \cup Landing]
               /\ merged' \subseteq Id
    BY <1>0, <2>2 DEF StartLanding, RunGit, Landing
  <2> QED
    BY <1>0, <2>1, <2>2, LandFrame DEF Lander
<1>9. rem' \in [Id -> {"none", "pending", "resolved", "dismissed"}]
  <2>1. ASSUME NEW l, NEW s PROVE RemAfter(l, s) \in [Id -> {"none", "pending", "resolved", "dismissed"}]
    BY <1>0 DEF RemAfter
  <2>2. CASE Supersede \/ Remediate \/ ListRemediations
    BY <1>0, <2>2 DEF Supersede, Remediate, ListRemediations
  <2>3. CASE Poll
    BY <1>0, <2>1, <2>3 DEF Poll, CancelRun
  <2>4. ASSUME NEW l \in Id, TransitionApi(l) \/ RetryLoop(l)
        PROVE  rem' \in [Id -> {"none", "pending", "resolved", "dismissed"}]
    BY <2>1, <2>4 DEF TransitionApi, RetryLoop
  <2> QED
    BY <1>0, <2>2, <2>3, <2>4, RemediationFrame
<1>10. ops' \in 0..MaxOps
  BY <1>0, CounterFrame, ProductLoopAssumption
<1>11. passed' \in [Id -> SUBSET Story]
  <2>1. CASE Commit \/ QaPasses
    <3>1. run.id \in Id /\ run.pc \in StoryPc => run.story \in Story
      BY <1>0 DEF Types, OnStory
    <3> QED
      BY <1>0, <2>1, <3>1 DEF Commit, QaPasses, StoryPc
  <2>2. CASE StartStories
    BY <1>0, <2>2 DEF StartStories
  <2> QED
    BY <1>0, <2>1, <2>2, HistoryFrame
<1>12. secure' \subseteq Id /\ manual' \subseteq Id /\ paused' \subseteq Id
  BY <1>0, HistoryFrame DEF ScanPasses, TransitionApi, PauseLoop
<1> QED
  BY <1>1, <1>2, <1>3, <1>4, <1>5, <1>6, <1>7, <1>8, <1>9, <1>10, <1>11, <1>12 DEF RunRow

-----------------------------------------------------------------------------
(* Where the pipeline goes.                                                *)

(* The steps that only move it on. *)
Edges ==
    UNION {{"start"} \X {"closing", "mark"}, {"mark"} \X {"supersede"},
           {"supersede"} \X {"begin"}, {"finish"} \X {"closing", "settle"},
           {"settle"} \X {"closing"}, {"workspace_check"} \X {"functionality"},
           {"route"} \X {"awaiting_user", "brief_ready", "planning"},
           {"develop"} \X {"qa_running", "noop_qa"}, {"verdict"} \X {"mark_done", "reworking"},
           {"scan"} \X {"approval", "quality_review"}, {"approval"} \X {"review_ready"},
           {"remediate"} \X {"close"}, {"close"} \X {"finish"}}

MovesOn == \E q : Goto(q) /\ <<run.pc, q>> \in Edges

(* What the simple moves of the pipeline lead to, and from where.          *)
LEMMA EdgesAre ==
    ASSUME NEW p, NEW q, <<p, q>> \in Edges
    PROVE  /\ p \notin {"idle", "begin"} /\ q \notin {"idle", "start", "next_story"}
           /\ q \in NotBegun => p \in NotBegun
           /\ q = "begin" => p = "supersede"
           /\ q \in Work => p \in Work
           /\ q \in StoryPc => p \in StoryPc
           /\ q = "mark_done" => p = "verdict"
           /\ q \in VerifiedPc => p \in VerifiedPc
           /\ q \in SecuredPc => p \in SecuredPc \cup {"scan"}
           /\ q = "review_ready" => p = "approval"
           /\ q # "awaiting_approval"
           /\ q \in {"remediate", "close"} => p = "remediate"
           /\ q \in {"finish", "settle"} => p \in {"close", "finish"}
BY StageIs, WorkIs DEF Edges, NotBegun, StoryPc, VerifiedPc, SecuredPc

(* These steps only move the pipeline on.                                  *)
LEMMA SimpleMoves ==
    ASSUME CheckBeforeStart \/ MarkRunning \/ Supersede \/ CheckBeforeFinish \/ SettleThread
             \/ MatchExisting \/ Route \/ Develop \/ QaPasses \/ QaFails \/ ScanPasses
             \/ RequestApproval \/ Remediate \/ ClearRunActive
    PROVE  MovesOn
BY DEF CheckBeforeStart, MarkRunning, Supersede, CheckBeforeFinish, SettleThread, MatchExisting,
   Route, Develop, QaPasses, QaFails, ScanPasses, RequestApproval, Remediate, ClearRunActive,
   MovesOn, Edges

(* After the thread is marked running, the next step supersedes.           *)
LEMMA SupersedeOnly == ASSUME Pipeline, run.pc = "supersede" PROVE Supersede
BY StageIs, WorkIs
DEF Pipeline, CheckBeforeStart, MarkRunning, Begin, Poll, Commit, Block, Remediate,
    ClearRunActive, MatchExisting, Route, Plan, CompletePlanOnly, StartStories, Develop, QaPasses,
    QaFails, MarkStoryDone, ScanPasses, RequestApproval, CheckBeforeFinish, SettleThread,
    CloseRun, Work

(* Every other step of the pipeline.                                       *)
PipelineMoved ==
    /\ run.pc # "idle" /\ run'.id = run.id /\ run'.pc \notin {"idle", "start"}
    /\ run'.pc \in NotBegun => run.pc \in NotBegun \ {"begin"}
    /\ run'.pc = "begin" => run.pc = "supersede"
    /\ run'.pc \in Work => run.pc \in Work \/ Begin
    /\ OnStory'
    /\ Concluded'

(* Every step of the pipeline but the last moves it so: it begins its loop *)
(* once, and works on it until it ends with a result.                      *)
LEMMA PipelineMoves ==
    ASSUME Types, Pipeline, ~CloseRun
    PROVE  PipelineMoved
<1>0. run \in RunRow /\ OnStory /\ Concluded
  BY DEF Types, TypeOK, RunRow
<1>1. /\ Work \cap (Ending \cup NotBegun \cup {"idle"}) = {}
      /\ Stage \subseteq Work /\ StoryPc \subseteq Work /\ "next_story" \in Work
  BY StageIs, WorkIs DEF Ending, NotBegun, StoryPc
<1> USE DEF PipelineMoved
<1>2. CASE MovesOn
  <2>1. PICK q : Goto(q) /\ <<run.pc, q>> \in Edges
    BY <1>2 DEF MovesOn
  <2>2. /\ run'.pc = q /\ run'.id = run.id /\ run'.story = run.story /\ run'.snap = run.snap
        /\ run'.result = run.result
    BY <1>0, <2>1 DEF Goto, RunRow
  <2> QED
    BY <1>0, <2>1, <2>2, EdgesAre DEF OnStory, Concluded
<1>3. ASSUME run.pc \in Work, run'.id = run.id, run'.pc \in {"close", "finish", "remediate"},
             run'.result # "none"
      PROVE  PipelineMoved
  BY <1>1, <1>3 DEF OnStory, Concluded, NotBegun, StoryPc, Ending
<1>4. ASSUME NEW p \in {"remediate", "finish", "close"}, NEW r \in {"blocked", "failed", "plan_ready"},
             Finish(r, p), run.pc \in Work
      PROVE  PipelineMoved
  <2>1. run'.pc = p /\ run'.id = run.id /\ run'.result = r
    BY <1>0, <1>4 DEF Finish, RunRow
  <2> QED
    BY <1>3, <1>4, <2>1
<1>5. ASSUME run.pc \in Work, run'.id = run.id, run'.pc \in Work,
             run'.pc \in StoryPc => run'.story \in Story,
             run'.pc = "next_story" => Pending(run'.snap.done) # {}
      PROVE  PipelineMoved
  BY <1>1, <1>5 DEF OnStory, Concluded, NotBegun, Ending
<1>6. CASE Begin
  <2>1. run'.pc = "workspace_check" /\ run'.id = run.id
    BY <1>0, <1>6 DEF Begin, RunRow
  <2> QED
    BY <1>1, <1>6, <2>1 DEF Begin, OnStory, Concluded, NotBegun, StoryPc
<1>7. CASE Poll
  <2>1. run.pc \in Work /\ run.pc \in Stage
    BY <1>1, <1>7 DEF Poll
  <2>2. CASE run' = [run EXCEPT !.go = TRUE]
    <3>1. run'.pc = run.pc /\ run'.id = run.id /\ run'.story = run.story /\ run'.snap = run.snap
      BY <1>0, <2>2 DEF RunRow
    <3> QED
      BY <1>0, <1>5, <2>1, <3>1 DEF OnStory
  <2>3. CASE CancelRun
    <3>1. CASE Finish("failed", "finish")
      BY <1>4, <2>1, <3>1
    <3>2. CASE run' = [run EXCEPT !.pc = "close", !.result = "cancelled", !.snap = dur[run.id]]
      <4>1. run'.pc = "close" /\ run'.id = run.id /\ run'.result = "cancelled"
        BY <1>0, <3>2 DEF RunRow
      <4> QED
        BY <1>3, <2>1, <4>1
    <3> QED
      BY <2>3, <3>1, <3>2 DEF CancelRun
  <2> QED
    BY <1>7, <2>2, <2>3 DEF Poll
<1>8. CASE Commit
  <2>1. run.pc \in Work /\ run.pc \in Stage
    BY <1>1, <1>8 DEF Commit
  <2>2. Patched(run.pc) \in DurableRun /\ Patched(run.pc).done = run.snap.done /\ run.snap \in DurableRun
    BY <1>0 DEF Patched, DurableRun, RunRow
  <2>3. ASSUME NEW d \in DurableRun, d.done = run.snap.done, NEW r, r = After(run.pc, d),
               run'.pc = r.pc, run'.id = r.id, run'.story = r.story, run'.snap = r.snap,
               run'.result = r.result
        PROVE  PipelineMoved
    <3>1. /\ r.id = run.id /\ r.pc \in Work \cup {"close"}
          /\ r.pc \in StoryPc => r.story \in Story
          /\ r.pc # "next_story"
          /\ r.pc = "close" => r.result # "none"
      BY <1>0, <2>1, <2>3, AfterIs
    <3> QED
      BY <1>3, <1>5, <2>1, <2>3, <3>1
  <2>4. CASE Finish("failed", "finish")
    BY <1>4, <2>1, <2>4
  <2>5. CASE run' = After(run.pc, run.snap)
    BY <2>2, <2>3, <2>5
  <2>6. CASE run' = [After(run.pc, Patched(run.pc)) EXCEPT !.late = IF WasCancelled THEN @ + 1 ELSE @]
    <3>1. PICK r : r = After(run.pc, Patched(run.pc)) /\ r \in RunRow
      BY <1>0, <2>1, <2>2, AfterIs
    <3>2. run' = [r EXCEPT !.late = IF WasCancelled THEN @ + 1 ELSE @]
      BY <2>6, <3>1
    <3>3. /\ run'.pc = r.pc /\ run'.id = r.id /\ run'.story = r.story /\ run'.snap = r.snap
          /\ run'.result = r.result
      BY <3>1, <3>2 DEF RunRow
    <3> QED
      BY <2>2, <2>3, <3>1, <3>3
  <2> QED
    BY <1>8, <2>4, <2>5, <2>6 DEF Commit
<1>9. CASE Block \/ CompletePlanOnly
  <2>1. run.pc \in Work
    BY <1>1, <1>9, StageIs DEF Block, CompletePlanOnly, Work
  <2> QED
    BY <1>4, <1>9, <2>1 DEF Block, CompletePlanOnly
<1>10. CASE Plan
  <2>1. /\ run.pc = "plan" /\ run'.pc \in {"backlog_ready", "architecture_review"}
        /\ run'.id = run.id /\ run'.story = run.story
    BY <1>0, <1>10 DEF Plan, Goto, RunRow
  <2> QED
    BY <1>5, <2>1, StageIs, WorkIs DEF StoryPc
<1>11. CASE StartStories
  <2>1. PICK carried : 
          run' = [run EXCEPT !.snap = [dur[run.id] EXCEPT !.done = carried],
                       !.story = NextStory(carried),
                       !.pc = IF Pending(carried) = {} THEN "skip_qa" ELSE "develop"]
    BY <1>11 DEF StartStories
  <2>2. /\ run'.pc = IF Pending(carried) = {} THEN "skip_qa" ELSE "develop"
        /\ run'.id = run.id /\ run'.story = NextStory(carried)
    BY <1>0, <2>1 DEF RunRow
  <2>3. run.pc = "stories"
    BY <1>11 DEF StartStories
  <2> QED
    BY <1>5, <2>2, <2>3, NextIsPending, StageIs, WorkIs DEF StoryPc
<1>12. CASE MarkStoryDone
  <2>1. PICK d : /\ run' = [run EXCEPT !.pc = NextStage(d.done), !.snap = d]
                 /\ run.pc = "mark_done"
    BY <1>12 DEF MarkStoryDone
  <2>2. run'.pc = NextStage(d.done) /\ run'.id = run.id /\ run'.snap = d
    BY <1>0, <2>1 DEF RunRow
  <2> QED
    BY <1>5, <2>1, <2>2, StageIs, WorkIs DEF StoryPc, NextStage
<1> QED
  BY <1>2, <1>6, <1>7, <1>8, <1>9, <1>10, <1>11, <1>12, SimpleMoves DEF Pipeline

-----------------------------------------------------------------------------
(* Jobs, and who runs.                                                     *)

(* The pipeline lands nothing, and ends its job in its last step only.     *)
LEMMA PipelineKeepsRows ==
    ASSUME Pipeline
    PROVE  UNCHANGED <<land, merged>> /\ (CloseRun \/ UNCHANGED job)
BY DEF Pipeline, rowVars, CheckBeforeStart, MarkRunning, Supersede, Begin, Poll, Commit, Block,
   Remediate, ClearRunActive, MatchExisting, Route, Plan, CompletePlanOnly, StartStories, Develop,
   QaPasses, QaFails, MarkStoryDone, ScanPasses, RequestApproval, CheckBeforeFinish,
   SettleThread, CloseRun

(* Every way a step can move a job: created, parked, claimed, cancelled,   *)
(* or ended by the run it belongs to.                                      *)
JobMoved(j) ==
    \/ job'[j] = job[j]
    \/ Free(j) /\ job'[j].status = "queued" /\ job'[j].retry < j
    \/ /\ job'[j].retry = job[j].retry
       /\ \/ job[j].status = "queued" /\ job'[j].status = "resource_wait"
          \/ /\ Claim(j)
             /\ job[j].status \in {"queued", "resource_wait"} /\ job'[j].status = "running"
          \/ job[j].status \in {"queued", "running"} /\ job'[j].status = "cancelled"
          \/ /\ run.pc # "idle" /\ j = run.id /\ run' = NoRun
             /\ job[j].status = "running"
             /\ \/ job'[j].status \in {"failed", "completed"}
                \/ job'[j].status = "queued" /\ run.pc = "start"

(* Every step moves every job in one of these ways.                        *)
LEMMA JobMoves == Types /\ Fresh /\ [Next]_vars => \A j \in Id : JobMoved(j)
<1> SUFFICES ASSUME Types, Fresh, [Next]_vars, NEW j \in Id PROVE JobMoved(j)
  OBVIOUS
<1>0. /\ job \in [Id -> JobRow] /\ \A i \in Id : job[i] \in JobRow
      /\ run.pc # "idle" => run.id \in Id /\ job[run.id].status \in {"running", "cancelled"}
  BY DEF Types, TypeOK, Placed
<1>1. ASSUME NEW k, NEW r \in 0..MaxRuns, NEW c, Queue(k, r, c),
             \A i \in Id : Free(i) => r < i
      PROVE  JobMoved(j)
  <2>1. PICK i \in Id : /\ Free(i)
                        /\ job' = [job EXCEPT ![i] = [status |-> "queued", kind |-> k,
                                                      retry |-> r, cont |-> c]]
    BY <1>1 DEF Queue
  <2>2. CASE i = j
    <3>1. Free(j) /\ job'[j].status = "queued" /\ job'[j].retry = r
      BY <1>0, <2>1, <2>2
    <3> QED
      BY <1>1, <3>1 DEF JobMoved
  <2>3. CASE i # j
    BY <1>0, <2>1, <2>3 DEF JobMoved
  <2> QED
    BY <2>2, <2>3
<1>2. CASE PostQueues
  <2>1. \A i \in Id : 0 < i
    BY DEF Id
  <2> QED
    BY <1>1, <1>2, <2>1, ProductLoopAssumption DEF PostQueues, JobMoved
<1>3. ASSUME NEW l \in Id, NEW i \in Id, loop[l] # "none", Free(i) PROVE l < i
  <2>1. job[l].status # "none" /\ job[i].status = "none"
    BY <1>3 DEF Fresh, Free
  <2>2. ~(i < l)
    BY <2>1 DEF Types, Chained
  <2> QED
    BY <2>1, <2>2 DEF Id
<1>4. ASSUME NEW l \in Id, RetryLoop(l) PROVE JobMoved(j)
  <2>1. loop[l] # "none" /\ l \in 0..MaxRuns /\ Queue("retry", l, job[l].cont)
    BY <1>4, ProductLoopAssumption DEF RetryLoop, Id
  <2> QED
    BY <1>1, <1>3, <2>1
<1>5. ASSUME NEW l \in Id, Continue(l) PROVE JobMoved(j)
  <2>1. loop[l] # "none" /\ Queue("continue", job[l].retry, l)
    BY <1>5 DEF Continue
  <2>2. job[l].retry \in 0..MaxRuns /\ job[l].retry < l
    BY <1>0 DEF JobRow, Types, Chained
  <2>3. \A i \in Id : Free(i) => job[l].retry < i
    BY <1>3, <2>1, <2>2, ProductLoopAssumption DEF Id
  <2> QED
    BY <1>1, <2>1, <2>2, <2>3
<1>6. ASSUME NEW l \in Id, WaitForCapacity(l) PROVE JobMoved(j)
  BY <1>0, <1>6 DEF WaitForCapacity, JobMoved, JobRow
<1>7. ASSUME NEW l \in Id, Claim(l) PROVE JobMoved(j)
  <2>1. job' = [job EXCEPT ![l].status = "running"] /\ job[l].status \in {"queued", "resource_wait"}
    BY <1>7 DEF Claim
  <2> QED
    BY <1>0, <1>7, <2>1 DEF JobMoved, JobRow
<1>8. CASE CancelExecution
  BY <1>0, <1>8 DEF CancelExecution, CancellableJobs, JobMoved, JobRow
<1>9. CASE CloseRun \/ Crash
  <2>1. run.pc # "idle" /\ run' = NoRun
    BY <1>9 DEF CloseRun, Crash
  <2>2. PICK s : /\ job' = [job EXCEPT ![run.id].status = s]
                 /\ job[run.id].status = "cancelled" => s = "cancelled"
                 /\ job[run.id].status # "cancelled" =>
                        s \in {"failed", "completed"} \/ (s = "queued" /\ run.pc = "start")
    BY <1>9 DEF CloseRun, Crash
  <2> QED
    BY <1>0, <2>1, <2>2 DEF JobMoved, JobRow
<1>10. CASE UNCHANGED job
  BY <1>10 DEF JobMoved
<1> QED
  BY <1>2, <1>4, <1>5, <1>6, <1>7, <1>8, <1>9, <1>10, JobFrame

(* Jobs stay in order, and retry older ones.                               *)
LEMMA ChainedNext == Types /\ Fresh /\ [Next]_vars => Chained'
<1> SUFFICES ASSUME Types, Fresh, [Next]_vars PROVE Chained'
  OBVIOUS
<1>1. \A j \in Id : JobMoved(j)
  BY JobMoves
<1>2. ASSUME NEW j \in Id
      PROVE  /\ job'[j].retry < j
             /\ job[j].status # "none" => job'[j].status # "none"
             /\ job'[j].status # "none" => job[j].status # "none" \/ Free(j)
  BY <1>1 DEF JobMoved, Types, Chained, Free
<1> QED
  BY <1>2 DEF Types, Chained, Free

(* What a step makes of the run: nothing, a step of the pipeline, its end, *)
(* or the run of a job that was waiting.                                   *)
RunMoved ==
    \/ run' = run
    \/ Pipeline /\ ~CloseRun /\ PipelineMoved
    \/ run' = NoRun
    \/ \E j \in Id : /\ Claim(j)
                     /\ run.pc = "idle" /\ run' = [NoRun EXCEPT !.id = j, !.pc = "start"]
                     /\ job[j].status \in {"queued", "resource_wait"}
                     /\ job' = [job EXCEPT ![j].status = "running"]
                     /\ loop' = loop

(* Every step moves the run in one of these ways.                          *)
LEMMA RunMoves == Types /\ [Next]_vars => RunMoved
<1> SUFFICES ASSUME Types, [Next]_vars PROVE RunMoved
  OBVIOUS
<1>1. CASE Pipeline
  BY <1>1, PipelineMoves DEF RunMoved, CloseRun
<1>2. CASE Crash
  BY <1>2 DEF Crash, RunMoved
<1>3. ASSUME NEW j \in Id, Claim(j) PROVE RunMoved
  BY <1>3 DEF Claim, Idle, RunMoved
<1> QED
  BY <1>1, <1>2, <1>3, RunFrame DEF RunMoved

(* The worker does one thing at a time.                                    *)
LEMMA PlacedNext == Types /\ Fresh /\ [Next]_vars => Placed'
<1> SUFFICES ASSUME Types, Fresh, [Next]_vars PROVE Placed'
  OBVIOUS
<1>0. Placed /\ TypeOK /\ (\A l \in Id : Moved(l) /\ JobMoved(l)) /\ RunMoved
  BY LoopMoves, JobMoves, RunMoves DEF Types
<1>b. Begin => run.pc = "begin" /\ run'.pc = "workspace_check"
  <2>1. TypeOK
    BY <1>0
  <2>2. run \in RunRow
    BY <2>1 DEF TypeOK, RunRow
  <2> QED
    BY <2>2 DEF Begin, RunRow
<1>1. \A l \in Id : loop[l] = "delivered" => loop'[l] = "delivered" \/ Begin
  BY <1>0 DEF Moved, TERMINAL_STATES
<1>2. ASSUME NEW l \in Id, land'[l] \in Landing, land[l] \notin Landing
      PROVE  /\ loop[l] = "delivered" /\ UNCHANGED <<loop, run>> /\ run.pc = "idle"
             /\ land' = [land EXCEPT ![l] = "running"]
  <2>1. PICK k \in Id : Accept(k) \/ Lander(k) \/ CrashLanding(k) \/ RetryLanding(k)
    BY <1>2, LandFrame
  <2>2. k = l /\ StartLanding(l)
    BY <1>0, <1>2, <2>1
    DEF Accept, Lander, StartLanding, RunGit, RecordLanding, CrashLanding, RetryLanding, Landing,
        TypeOK
  <2> QED
    BY <1>0, <1>2, <2>2 DEF StartLanding, Idle, Landing, TypeOK
<1>3. run'.pc = "idle" => run' = NoRun
  BY <1>0 DEF RunMoved, PipelineMoved, Placed, NoRun
<1>4. CASE run' = run
  <2>1. run.pc # "idle" => job'[run.id].status \in {"running", "cancelled"}
    <3> SUFFICES ASSUME run.pc # "idle" PROVE job'[run.id].status \in {"running", "cancelled"}
      OBVIOUS
    <3>1. run.id \in Id /\ job[run.id].status \in {"running", "cancelled"} /\ run' # NoRun
      BY <1>0, <1>4 DEF Placed, NoRun
    <3>2. JobMoved(run.id)
      BY <1>0, <3>1
    <3> QED
      BY <3>1, <3>2 DEF JobMoved, Free
  <2>2. ~Begin
    BY <1>b, <1>4
  <2> QED
    BY <1>0, <1>1, <1>2, <1>3, <1>4, <2>1, <2>2 DEF Placed
<1>5. CASE Pipeline /\ ~CloseRun /\ PipelineMoved
  <2>1. UNCHANGED <<land, job>>
    BY <1>5, PipelineKeepsRows
  <2> QED
    BY <1>0, <1>1, <1>3, <1>5, <2>1 DEF Placed, PipelineMoved
<1>6. CASE run' = NoRun
  <2>1. ~Begin
    BY <1>b, <1>6 DEF NoRun
  <2> QED
    BY <1>0, <1>1, <1>2, <1>3, <1>6, <2>1 DEF Placed, NoRun
<1>7. ASSUME NEW j \in Id, Claim(j) PROVE Placed'
  <2>1. /\ run'.id = j /\ run'.pc = "start" /\ job'[j].status = "running"
        /\ land' = land /\ loop' = loop /\ \A l \in Id : land[l] \notin Landing
    BY <1>0, <1>7 DEF Claim, Idle, NoRun, TypeOK, JobRow
  <2> QED
    BY <1>0, <1>3, <2>1 DEF Placed
<1> QED
  BY <1>0, <1>4, <1>5, <1>6, <1>7 DEF RunMoved

(* A job starts its loop once. *)
LEMMA FreshNext == Types /\ Fresh /\ [Next]_vars => Fresh'
<1> SUFFICES ASSUME Types, Fresh, [Next]_vars PROVE Fresh'
  OBVIOUS
<1>0. Placed /\ TypeOK /\ (\A l \in Id : Moved(l) /\ JobMoved(l)) /\ RunMoved
  BY LoopMoves, JobMoves, RunMoves DEF Types
<1>1. \A l \in Id : loop[l] = "none" => loop'[l] = "none" \/ (Begin /\ l = run.id)
  BY <1>0 DEF Moved, PRODUCT_LOOP_STATES
<1>2. Begin => run.pc # "idle" /\ job' = job /\ run'.pc \notin NotBegun /\ run.id \in Id
  BY <1>0 DEF Begin, rowVars, NotBegun, Placed, TypeOK
<1>3. ASSUME NEW j \in Id, job'[j].status \in {"none", "queued", "resource_wait"}
      PROVE  loop'[j] = "none"
  <2>1. loop[j] = "none"
    BY <1>0, <1>3 DEF JobMoved, Fresh, Free, NotBegun
  <2> QED
    BY <1>0, <1>1, <1>2, <1>3, <2>1 DEF Placed
<1>4. ASSUME run'.pc \in NotBegun PROVE loop'[run'.id] = "none"
  <2>1. CASE run' = run
    BY <1>0, <1>1, <1>2, <1>4, <2>1 DEF Fresh, Placed, NotBegun
  <2>2. CASE Pipeline /\ ~CloseRun /\ PipelineMoved
    BY <1>0, <1>1, <1>2, <1>4, <2>2 DEF Fresh, Placed, PipelineMoved, NotBegun
  <2>3. CASE run' = NoRun
    BY <1>4, <2>3 DEF NoRun, NotBegun
  <2>4. ASSUME NEW j \in Id, Claim(j) PROVE loop'[run'.id] = "none"
    BY <2>4 DEF Claim, Fresh, NoRun
  <2> QED
    BY <1>0, <2>1, <2>2, <2>3, <2>4 DEF RunMoved
<1> QED
  BY <1>3, <1>4 DEF Fresh

(* Between runs there is no story and no result.                           *)
LEMMA RunNext == Types /\ [Next]_vars => OnStory' /\ Concluded'
<1> SUFFICES ASSUME Types, [Next]_vars PROVE OnStory' /\ Concluded'
  OBVIOUS
<1>1. RunMoved /\ OnStory /\ Concluded
  BY RunMoves DEF Types
<1>2. ASSUME run'.pc \in {"idle", "start"} PROVE OnStory' /\ Concluded'
  BY <1>2 DEF OnStory, Concluded, StoryPc
<1>3. NoRun.pc = "idle" /\ \A j : [NoRun EXCEPT !.id = j, !.pc = "start"].pc = "start"
  BY DEF NoRun
<1>4. CASE run' = run
  BY <1>1, <1>4 DEF OnStory, Concluded, Pending, Story
<1> QED
  BY <1>1, <1>2, <1>3, <1>4 DEF RunMoved, PipelineMoved

Core == Types /\ Fresh

(* Before the first job nothing runs and there is no loop.                 *)
LEMMA CoreInit == Init => Core
<1> SUFFICES ASSUME Init PROVE Core
  OBVIOUS
<1>1. Placed /\ OnStory /\ Concluded /\ Fresh
  BY DEF Init, Placed, OnStory, Concluded, Fresh, NoRun, Landing, StoryPc, NotBegun
<1>2. Chained
  BY DEF Init, Chained, NoJob, Id
<1> QED
  BY <1>1, <1>2, TypeInit DEF Core, Types

(* One run at a time, its loop begun once, jobs in order: every step keeps *)
(* it.                                                                     *)
LEMMA CoreNext == Core /\ [Next]_vars => Core'
BY TypeNext, PlacedNext, ChainedNext, RunNext, FreshNext DEF Core, Types

(* The worker executes one job at a time, a job starts its loop once, and  *)
(* a retry follows an older job.                                           *)
THEOREM CoreHolds == Spec => []Core
BY CoreInit, CoreNext, PTL DEF Spec

(* Type correctness of the rows, the pipeline and the histories.           *)
THEOREM TypeCorrect == Spec => []TypeOK
<1>1. Core => TypeOK
  BY DEF Core, Types
<1> QED
  BY <1>1, CoreHolds, PTL

-----------------------------------------------------------------------------
(* Interrupted loops are superseded.                                       *)

(* Every way a step can write durableRun. *)
DurMoved(l) ==
    \/ dur'[l] = dur[l]
    \/ Pipeline /\ l = run.id
    \/ /\ Decides(l)
       /\ dur'[l].active = dur[l].active /\ dur'[l].done = dur[l].done
       /\ dur'[l].landing = dur[l].landing \/ (Accept(l) /\ dur'[l].landing = "queued")
    \/ RecordLanding(l) /\ dur'[l] = [dur[l] EXCEPT !.landing = land[l]]

(* Every step writes every durableRun in one of these ways.                *)
LEMMA DurMoves == Types /\ [Next]_vars => \A l \in Id : DurMoved(l)
<1> SUFFICES ASSUME Types, [Next]_vars, NEW l \in Id PROVE DurMoved(l)
  OBVIOUS
<1>0. dur \in [Id -> DurableRun] /\ \A k \in Id : dur[k] \in DurableRun
  BY DEF Types, TypeOK
<1>1. ASSUME Pipeline PROVE UNCHANGED dur \/ \E d : dur' = [dur EXCEPT ![run.id] = d]
  BY <1>1
  DEF Pipeline, CheckBeforeStart, MarkRunning, Supersede, Begin, Poll, Commit, Block, Remediate,
      ClearRunActive, MatchExisting, Route, Plan, CompletePlanOnly, StartStories, Develop,
      QaPasses, QaFails, MarkStoryDone, ScanPasses, RequestApproval, CheckBeforeFinish,
      SettleThread, CloseRun
<1>2. CASE Pipeline
  BY <1>0, <1>1, <1>2 DEF DurMoved
<1>3. ASSUME NEW k \in Id, Decides(k) PROVE DurMoved(l)
  <2>1. CASE k # l
    BY <1>0, <1>3, <2>1 DEF DurMoved, Decides, Accept, RequestChanges, RequestTaskChanges
  <2>2. CASE k = l
    <3>1. dur[l] \in DurableRun
      BY <1>0
    <3>2. Decides(l)
      BY <1>3, <2>2, Zenon
    <3>3. CASE Accept(l)
      <4>1. dur'[l] = [dur[l] EXCEPT !.approval = Decision(l, "approved"),
                                     !.landing = IF dur[l].ws THEN "queued" ELSE dur[l].landing]
        BY <1>0, <3>1, <3>3 DEF Accept, DurableRun
      <4> QED
        BY <3>1, <3>2, <3>3, <4>1 DEF DurMoved, DurableRun
    <3>4. CASE ~Accept(l)
      <4>1. PICK a : dur'[l] = [dur[l] EXCEPT !.approval = a]
        BY <1>0, <3>2, <3>4 DEF Decides, RequestChanges, RequestTaskChanges
      <4> QED
        BY <3>1, <3>2, <4>1 DEF DurMoved, DurableRun
    <3> QED
      BY <3>3, <3>4
  <2> QED
    BY <2>1, <2>2
<1>4. ASSUME NEW k \in Id, RecordLanding(k) PROVE DurMoved(l)
  <2>1. dur' = [dur EXCEPT ![k].landing = land[k]]
    BY <1>4 DEF RecordLanding
  <2> QED
    BY <1>0, <1>4, <2>1 DEF DurMoved
<1>5. CASE UNCHANGED dur
  BY <1>5 DEF DurMoved
<1> QED
  BY <1>2, <1>3, <1>4, <1>5, DurFrame

(* The marks of the history stay. *)
LEMMA MarksStay == Types /\ [Next]_vars => manual \subseteq manual' /\ paused \subseteq paused' /\ secure \subseteq secure'
BY HistoryFrame DEF TransitionApi, PauseLoop, ScanPasses

(* After _supersede_interrupted_loops no loop of another run looks as if it *)
(* were executing, until a request for changes or an operator makes it so. *)
LEMMA SupersededNext == Core /\ Superseded /\ [Next]_vars => Superseded'
<1> SUFFICES ASSUME Core, Superseded, [Next]_vars PROVE Superseded'
  OBVIOUS
<1>0. Types /\ Placed /\ (\A l \in Id : Moved(l) /\ DurMoved(l)) /\ RunMoved /\ manual \subseteq manual'
  BY LoopMoves, DurMoves, RunMoves, MarksStay DEF Core, Types
<1>1. ASSUME NEW l \in Id, l # run.id, l \notin manual', Interrupted(l)', ~Supersede
      PROVE  loop'[l] = "reworking" \/ (Interrupted(l) /\ loop'[l] = loop[l])
  <2>1. dur'[l].active = dur[l].active
    <3>1. dur[l] \in DurableRun
      BY <1>0 DEF Types, TypeOK
    <3> QED
      BY <1>0, <1>1, <3>1 DEF DurMoved, DurableRun
  <2> QED
    BY <1>0, <1>1, <2>1 DEF Moved, Interrupted, TERMINAL_STATES, OPERATOR_WAIT_STATES
<1>2. CASE run.pc \in Work \cup {"begin"} /\ run'.id = run.id
  BY <1>0, <1>1, <1>2, StageIs, WorkIs DEF Superseded, Supersede
<1>3. CASE Supersede
  <2>1. \A l \in Id : ~Interrupted(l)'
    BY <1>3 DEF Supersede, Interrupted, TERMINAL_STATES
  <2> QED
    BY <2>1 DEF Superseded
<1>4. CASE Pipeline /\ ~CloseRun /\ PipelineMoved
  <2>1. run'.pc \in Work \cup {"begin"} => run.pc \in Work \cup {"begin"} \/ Supersede
    BY <1>4, SupersedeOnly DEF PipelineMoved, Begin
  <2> QED
    BY <1>2, <1>3, <1>4, <2>1 DEF PipelineMoved, Superseded
<1>5. CASE run'.pc \in {"idle", "start"}
  BY <1>5, StageIs, WorkIs DEF Superseded
<1>6. CASE run' = run
  BY <1>2, <1>6 DEF Superseded
<1>7. NoRun.pc = "idle" /\ \A j : [NoRun EXCEPT !.id = j, !.pc = "start"].pc = "start"
  BY DEF NoRun
<1> QED
  BY <1>0, <1>4, <1>5, <1>6, <1>7 DEF RunMoved

(* However the runs before ended, the next run of the thread leaves no     *)
(* loop behind that looks as if it were being executed.                    *)
THEOREM NoLoopLeftRunning == Spec => []NoZombieLoop
<1>1. Init => Superseded
  BY StageIs, WorkIs DEF Init, Superseded, NoRun
<1>2. Superseded => NoZombieLoop
  BY DEF Superseded, NoZombieLoop
<1> QED
  BY <1>1, <1>2, SupersededNext, CoreHolds, PTL DEF Spec

-----------------------------------------------------------------------------
(* What the pipeline writes.                                               *)

(* Into durableRun and its copy, and of its own progress: a stage is       *)
(* entered on a poll that saw no cancellation, and the poll is used up.    *)
Written ==
    /\ run'.snap.landing \in {run.snap.landing, dur[run.id].landing, "none"}
    /\ dur'[run.id].landing \in {run.snap.landing, dur[run.id].landing, "none"}
    /\ \/ Begin \/ StartStories \/ MarkStoryDone
       \/ /\ run'.snap.done \in {run.snap.done, dur[run.id].done}
          /\ dur'[run.id].done \in {run.snap.done, dur[run.id].done}
    /\ \/ run'.late = run.late /\ (run'.go => run.go \/ ~WasCancelled)
       \/ /\ run.go /\ ~run'.go
          /\ run'.late = IF WasCancelled THEN run.late + 1 ELSE run.late
    /\ run.pc \notin Work =>
           \/ Begin \/ dur' = dur
           \/ run.pc = "close" /\ dur'[run.id].approval = run.snap.approval

(* The steps that neither poll nor touch the copy. *)
LEMMA MovesWrite ==
    ASSUME Types, run.id \in Id, NEW q, NEW r,
           run' = [run EXCEPT !.pc = q, !.go = FALSE, !.result = r],
           \/ dur' = dur
           \/ run.pc \in Work /\ dur' = [dur EXCEPT ![run.id] = run.snap]
           \/ run.pc = "close" /\ dur' = [dur EXCEPT ![run.id] = [run.snap EXCEPT !.active = FALSE]]
    PROVE  Written
<1>1. run \in RunRow /\ dur \in [Id -> DurableRun] /\ run.snap \in DurableRun
  BY DEF Types, TypeOK, RunRow
<1>2. run'.snap = run.snap /\ run'.late = run.late /\ ~run'.go
  BY <1>1 DEF RunRow
<1>3. \/ dur' = dur
      \/ run.pc \in Work /\ dur'[run.id] = run.snap
      \/ run.pc = "close" /\ dur'[run.id] = [run.snap EXCEPT !.active = FALSE]
  BY <1>1
<1>4. LET d == [run.snap EXCEPT !.active = FALSE]
      IN  d.landing = run.snap.landing /\ d.done = run.snap.done /\ d.approval = run.snap.approval
  BY <1>1 DEF DurableRun
<1>5. "close" \notin Work
  BY StageIs, WorkIs
<1> QED
  BY <1>2, <1>3, <1>4, <1>5 DEF Written

(* Every step of the pipeline but the last writes so.                      *)
LEMMA PipelineWrites ==
    ASSUME Types, Pipeline, ~CloseRun
    PROVE  Written
<1>0. /\ run \in RunRow /\ dur \in [Id -> DurableRun] /\ run.id \in Id
      /\ dur[run.id] \in DurableRun /\ run.snap \in DurableRun /\ OnStory
  <2>1. run.pc # "idle"
    BY PipelineMoves DEF PipelineMoved
  <2> QED
    BY <2>1 DEF Types, TypeOK, RunRow, Placed
<1>1. Stage \subseteq Work /\ Blockable \subseteq Work /\ Started.landing = "none"
  BY DEF Work, Started, NoDurable
<1>2. CASE CheckBeforeStart \/ MarkRunning \/ Supersede \/ CheckBeforeFinish \/ SettleThread
           \/ MatchExisting \/ Route \/ Develop \/ QaPasses \/ QaFails \/ ScanPasses
           \/ RequestApproval \/ Remediate \/ ClearRunActive
  <2>1. PICK q : Goto(q)
    BY <1>2, SimpleMoves DEF MovesOn
  <2>2. run' = [run EXCEPT !.pc = q, !.go = FALSE, !.result = run.result]
    BY <1>0, <2>1 DEF Goto, RunRow
  <2>3. \/ dur' = dur
        \/ run.pc = "close" /\ dur' = [dur EXCEPT ![run.id] = [run.snap EXCEPT !.active = FALSE]]
    BY <1>2 DEF CheckBeforeStart, MarkRunning, Supersede, CheckBeforeFinish, SettleThread,
       MatchExisting, Route, Develop, QaPasses, QaFails, ScanPasses, RequestApproval, Remediate,
       ClearRunActive
  <2> QED
    BY <1>0, <2>2, <2>3, MovesWrite
<1>3. CASE Block \/ CompletePlanOnly
  <2>1. run.pc \in Work
    BY <1>1, <1>3, StageIs DEF Block, CompletePlanOnly
  <2>2. \E q, r : Finish(r, q)
    BY <1>3 DEF Block, CompletePlanOnly
  <2>3. dur' = dur \/ dur' = [dur EXCEPT ![run.id] = run.snap]
    BY <1>3 DEF Block, CompletePlanOnly
  <2> QED
    BY <1>0, <2>1, <2>2, <2>3, MovesWrite DEF Finish
<1>4. CASE Begin
  <2>1. run'.snap = Started /\ run'.late = run.late /\ run'.go = run.go /\ dur'[run.id] = Started
    BY <1>0, <1>4 DEF Begin, RunRow
  <2> QED
    BY <1>1, <1>4, <2>1 DEF Written
<1>5. CASE Poll
  <2>1. run.pc \in Work /\ dur' = dur
    BY <1>1, <1>5 DEF Poll
  <2>2. CASE run' = [run EXCEPT !.go = TRUE] /\ ~WasCancelled
    <3>1. run'.snap = run.snap /\ run'.late = run.late
      BY <1>0, <2>2 DEF RunRow
    <3> QED
      BY <2>1, <2>2, <3>1 DEF Written
  <2>3. CASE CancelRun
    <3>1. CASE Finish("failed", "finish")
      BY <1>0, <2>1, <3>1, MovesWrite DEF Finish
    <3>2. CASE run' = [run EXCEPT !.pc = "close", !.result = "cancelled", !.snap = dur[run.id]]
      <4>1. run'.snap = dur[run.id] /\ run'.late = run.late /\ run'.go = run.go
        BY <1>0, <3>2 DEF RunRow
      <4> QED
        BY <2>1, <4>1 DEF Written
    <3> QED
      BY <2>3, <3>1, <3>2 DEF CancelRun
  <2> QED
    BY <1>5, <2>2, <2>3 DEF Poll
<1>6. CASE Commit
  <2>1. run.pc \in Work /\ run.pc \in Stage /\ run.go
    BY <1>1, <1>6 DEF Commit
  <2>2. /\ Patched(run.pc) \in DurableRun /\ Patched(run.pc).done = run.snap.done
        /\ Patched(run.pc).landing = run.snap.landing
    BY <1>0 DEF Patched, DurableRun
  <2>3. ASSUME NEW d \in DurableRun, d.done = run.snap.done, d.landing = run.snap.landing,
               NEW r, r = After(run.pc, d), run'.snap = r.snap, run'.go = r.go,
               dur' = dur \/ dur' = [dur EXCEPT ![run.id] = d],
               run'.late = r.late \/ (run'.late = IF WasCancelled THEN r.late + 1 ELSE r.late)
        PROVE  Written
    <3>1. r.snap = d /\ ~r.go /\ r.late = run.late
      BY <1>0, <2>1, <2>3, AfterIs
    <3>2. dur' = dur \/ dur'[run.id] = d
      BY <1>0, <2>3
    <3> QED
      BY <2>1, <2>3, <3>1, <3>2 DEF Written
  <2>4. CASE Allowed(run.id, Enters[run.pc])
    <3>1. PICK r : r = After(run.pc, Patched(run.pc)) /\ r \in RunRow
      BY <1>0, <2>1, <2>2, AfterIs
    <3>2. /\ run' = [r EXCEPT !.late = IF WasCancelled THEN @ + 1 ELSE @]
          /\ dur' = [dur EXCEPT ![run.id] = Patched(run.pc)]
      BY <1>6, <2>4, <3>1 DEF Commit
    <3>3. /\ run'.snap = r.snap /\ run'.go = r.go
          /\ run'.late = IF WasCancelled THEN r.late + 1 ELSE r.late
      BY <3>1, <3>2 DEF RunRow
    <3> QED
      BY <2>2, <2>3, <3>1, <3>2, <3>3
  <2>5. CASE ~Allowed(run.id, Enters[run.pc])
    <3>1. (run' = After(run.pc, run.snap) \/ Finish("failed", "finish")) /\ dur' = dur
      BY <1>6, <2>5 DEF Commit
    <3>2. CASE run' = After(run.pc, run.snap)
      BY <1>0, <2>3, <3>1, <3>2
    <3> QED
      BY <1>0, <3>1, <3>2, MovesWrite DEF Finish
  <2> QED
    BY <2>4, <2>5
<1>7. CASE Plan
  <2>1. CASE UNCHANGED dur /\ (Goto("backlog_ready") \/ Goto("architecture_review"))
    <3>1. PICK q : run' = [run EXCEPT !.pc = q, !.go = FALSE]
      BY <2>1 DEF Goto
    <3>2. run' = [run EXCEPT !.pc = q, !.go = FALSE, !.result = run.result]
      BY <1>0, <3>1 DEF RunRow
    <3> QED
      BY <1>0, <2>1, <3>2, MovesWrite
  <2>2. CASE /\ dur' = [dur EXCEPT ![run.id] = run.snap]
             /\ run' = [run EXCEPT !.pc = "backlog_ready", !.fast = TRUE]
    <3>1. run'.snap = run.snap /\ run'.late = run.late /\ run'.go = run.go /\ dur'[run.id] = run.snap
      BY <1>0, <2>2 DEF RunRow
    <3>2. run.pc \in Work
      BY <1>7, WorkIs DEF Plan
    <3> QED
      BY <3>1, <3>2 DEF Written
  <2> QED
    BY <1>7, <2>1, <2>2 DEF Plan
<1>8. CASE StartStories \/ MarkStoryDone
  <2>1. PICK s : /\ dur' = [dur EXCEPT ![run.id] = [dur[run.id] EXCEPT !.done = s]]
                 /\ run'.snap = [dur[run.id] EXCEPT !.done = s]
                 /\ run'.late = run.late /\ run'.go = run.go
    <3>1. CASE StartStories
      <4>1. PICK c : /\ dur' = [dur EXCEPT ![run.id] = [dur[run.id] EXCEPT !.done = c]]
                     /\ run' = [run EXCEPT !.snap = [dur[run.id] EXCEPT !.done = c],
                                  !.story = NextStory(c),
                                  !.pc = IF Pending(c) = {} THEN "skip_qa" ELSE "develop"]
        BY <3>1 DEF StartStories
      <4> QED
        BY <1>0, <4>1 DEF RunRow
    <3>2. CASE MarkStoryDone
      <4>1. PICK q : LET d == [dur[run.id] EXCEPT !.done = dur[run.id].done \cup {run.story}]
                     IN  /\ dur' = [dur EXCEPT ![run.id] = d]
                         /\ run' = [run EXCEPT !.pc = q, !.snap = d]
        BY <1>0, <3>2 DEF MarkStoryDone, DurableRun
      <4> QED
        BY <1>0, <4>1 DEF RunRow
    <3> QED
      BY <1>8, <3>1, <3>2
  <2>2. dur'[run.id].landing = dur[run.id].landing /\ run'.snap.landing = dur[run.id].landing
    BY <1>0, <2>1 DEF DurableRun
  <2>3. run.pc \in Work
    BY <1>8, WorkIs DEF StartStories, MarkStoryDone
  <2> QED
    BY <1>8, <2>1, <2>2, <2>3 DEF Written
<1> QED
  BY <1>2, <1>3, <1>4, <1>5, <1>6, <1>7, <1>8 DEF Pipeline

-----------------------------------------------------------------------------
(* A cancelled run stops.                                                  *)

(* Only entering a state after the cancellation makes a run late, and the  *)
(* poll before the next one stops it.                                      *)
LEMMA TardyNext == Core /\ Tardy /\ [Next]_vars => Tardy'
<1> SUFFICES ASSUME Core, Tardy, [Next]_vars PROVE Tardy'
  OBVIOUS
<1>0. /\ Types /\ Fresh /\ Placed /\ RunMoved /\ \A j \in Id : JobMoved(j)
      /\ run.late \in Nat
  BY RunMoves, JobMoves DEF Core, Types, TypeOK
<1>1. CASE run'.late = 0
  BY <1>1 DEF Tardy
<1>2. NoRun.late = 0 /\ \A j : [NoRun EXCEPT !.id = j, !.pc = "start"].late = 0
  BY DEF NoRun
<1>3. CASE run' = run /\ run.late # 0
  <2>1. run.id \in Id
    BY <1>0, <1>2, <1>3 DEF Placed
  <2>2. JobMoved(run.id)
    BY <1>0, <2>1
  <2> QED
    BY <1>3, <2>2 DEF Tardy, WasCancelled, JobMoved, Free
<1>4. CASE Pipeline /\ ~CloseRun /\ PipelineMoved
  <2>1. Written /\ job' = job
    BY <1>0, <1>4, PipelineWrites, PipelineKeepsRows
  <2>2. WasCancelled' <=> WasCancelled
    BY <1>4, <2>1 DEF WasCancelled, PipelineMoved
  <2> QED
    BY <1>0, <2>1, <2>2 DEF Tardy, Written
<1> QED
  BY <1>0, <1>1, <1>2, <1>3, <1>4 DEF RunMoved

(* Once its job is cancelled, a run enters at most the state whose poll    *)
(* was already past, however long it goes on.                              *)
THEOREM CancelledRunStops == Spec => []AbortWithinOneStage
<1>1. Init => Tardy
  BY DEF Init, Tardy, NoRun
<1>2. Core /\ Tardy => AbortWithinOneStage
  BY DEF Tardy, AbortWithinOneStage, Core, Types, TypeOK
<1> QED
  BY <1>1, <1>2, TardyNext, CoreHolds, PTL DEF Spec

-----------------------------------------------------------------------------
(* A landing is final.                                                     *)

(* A delivered loop stays delivered.                                       *)
LEMMA StaysDelivered ==
    Core /\ [Next]_vars => \A l \in Id : loop[l] = "delivered" => loop'[l] = "delivered"
<1> SUFFICES ASSUME Core, [Next]_vars, NEW l \in Id, loop[l] = "delivered"
             PROVE  loop'[l] = "delivered"
  OBVIOUS
<1>1. Moved(l)
  BY LoopMoves DEF Core
<1>2. ~(Begin /\ l = run.id)
  BY DEF Begin, Core, Fresh, NotBegun
<1> QED
  BY <1>1, <1>2 DEF Moved, TERMINAL_STATES

(* A landing starts between runs, once its delivery waits for one.         *)
LEMMA LandingStarts ==
    ASSUME TypeOK, [Next]_vars, NEW l \in Id, land'[l] \in Landing, land[l] \notin Landing
    PROVE  dur[l].landing \in {"queued", "landing_failed"}
<1>1. PICK k \in Id : Accept(k) \/ Lander(k) \/ CrashLanding(k) \/ RetryLanding(k)
  BY LandFrame
<1>2. k = l /\ StartLanding(l)
  BY <1>1
  DEF Accept, Lander, StartLanding, RunGit, RecordLanding, CrashLanding, RetryLanding, Landing,
      TypeOK
<1> QED
  BY <1>2 DEF StartLanding, Landing, TypeOK

(* While git is at work the pipeline is not.                               *)
LEMMA LandsAlone ==
    ASSUME Placed, NEW l \in Id, RecordLanding(l)
    PROVE  loop[l] = "delivered" /\ run = NoRun /\ run' = run
BY DEF Placed, RecordLanding

(* A landing that git finished stays over: it starts only between runs,    *)
(* and no later run has the loop.                                          *)
LEMMA LandedNext == Core /\ Landed /\ [Next]_vars => Landed'
<1> SUFFICES ASSUME Core, Landed, [Next]_vars PROVE Landed'
  OBVIOUS
<1>0. /\ Types /\ Fresh /\ Placed /\ TypeOK /\ RunMoved
      /\ run.id \in 0..MaxRuns /\ \A l \in Id : DurMoved(l)
  BY RunMoves, DurMoves DEF Core, Types, TypeOK
<1>1. \A l \in Id : loop[l] = "delivered" => loop'[l] = "delivered"
  BY StaysDelivered
<1>2. NoRun.snap.landing = "none" /\ NoRun.id = 0
      /\ \A j : /\ [NoRun EXCEPT !.id = j, !.pc = "start"].id = j
                /\ [NoRun EXCEPT !.id = j, !.pc = "start"].snap.landing = "none"
  BY DEF NoRun, NoDurable
<1>3. ASSUME NEW l \in Id, loop[l] = "delivered", run.id # l PROVE run'.id # l
  <2>1. l # 0
    BY DEF Id
  <2>2. ASSUME NEW j \in Id, job[j].status \in {"queued", "resource_wait"} PROVE j # l
    BY <1>0, <1>3, <2>2 DEF Fresh
  <2>3. CASE run'.id = run.id
    BY <1>3, <2>3
  <2>4. CASE run' = NoRun
    BY <1>2, <2>1, <2>4
  <2>5. ASSUME NEW j \in Id, job[j].status \in {"queued", "resource_wait"},
               run' = [NoRun EXCEPT !.id = j, !.pc = "start"]
        PROVE  run'.id # l
    BY <1>2, <2>2, <2>5
  <2> QED
    BY <1>0, <2>3, <2>4, <2>5 DEF RunMoved, PipelineMoved
<1>4. ASSUME Pipeline, ~CloseRun, PipelineMoved
      PROVE  run'.snap.landing \notin Final /\ dur'[run.id].landing \notin Final
  <2>1. Written /\ run.id \in Id
    BY <1>0, <1>4, PipelineWrites DEF PipelineMoved, Placed
  <2>2. dur[run.id].landing \notin Final /\ run.snap.landing \notin Final
    BY <2>1 DEF Landed
  <2> QED
    BY <2>1, <2>2 DEF Written, Final
<1>5. run'.snap.landing \notin Final
  BY <1>0, <1>2, <1>4 DEF RunMoved, Landed, Final
<1>6. ASSUME NEW l \in Id, dur'[l].landing \in Final
      PROVE  loop'[l] = "delivered" /\ land'[l] \notin Landing /\ run'.id # l
  <2>1. CASE dur'[l].landing = dur[l].landing
    <3>1. loop[l] = "delivered" /\ land[l] \notin Landing /\ run.id # l
      BY <1>6, <2>1 DEF Landed
    <3>2. land'[l] \notin Landing
      BY <1>0, <1>6, <2>1, <3>1, LandingStarts DEF Final
    <3> QED
      BY <1>1, <1>3, <3>1, <3>2
  <2>2. CASE Pipeline /\ l = run.id /\ dur' # dur
    <3>1. CASE CloseRun
      BY <2>2, <3>1 DEF CloseRun
    <3>2. CASE ~CloseRun
      BY <1>0, <1>4, <1>6, <2>2, <3>2, PipelineMoves
    <3> QED
      BY <3>1, <3>2
  <2>3. CASE RecordLanding(l)
    <3>1. loop[l] = "delivered" /\ run'.id # l
      BY <1>0, <1>2, <2>3, LandsAlone DEF Id
    <3>2. land'[l] \in {"failed", "completed"}
      BY <1>0, <2>3 DEF RecordLanding, TypeOK
    <3> QED
      BY <1>1, <3>1, <3>2 DEF Landing
  <2> QED
    BY <1>0, <1>6, <2>1, <2>2, <2>3 DEF DurMoved, Final
<1> QED
  BY <1>5, <1>6 DEF Landed

(* No crash, retry or late write makes a landing that git finished be      *)
(* recorded as anything else, or be started again.                         *)
THEOREM LandingIsFinal == Spec => LandedIsFinal
<1>1. Init => Landed
  BY DEF Init, Landed, NoDurable, NoRun, Final
<1>2. ASSUME Core, Landed, Landed', [Next]_vars
      PROVE  \A l \in Id : dur[l].landing \in Final =>
                 dur'[l].landing = dur[l].landing /\ land'[l] \notin Landing
  <2> SUFFICES ASSUME NEW l \in Id, dur[l].landing \in Final
               PROVE  dur'[l].landing = dur[l].landing /\ land'[l] \notin Landing
    OBVIOUS
  <2>1. loop[l] = "delivered" /\ land[l] \notin Landing /\ run.id # l /\ DurMoved(l)
    BY <1>2, DurMoves DEF Landed, Core
  <2>2. ~Accept(l)
    <3>1. "delivered" \notin ALLOWED_TRANSITIONS["delivered"]
      BY TableIs DEF PRODUCT_LOOP_STATES, TERMINAL_STATES
    <3> QED
      BY <2>1, <3>1 DEF Accept, Allowed
  <2>3. ~RecordLanding(l)
    BY <2>1 DEF RecordLanding
  <2>4. dur'[l].landing = dur[l].landing
    BY <2>1, <2>2, <2>3 DEF DurMoved
  <2> QED
    BY <1>2, <2>4 DEF Landed
<1>3. Core /\ Landed /\ Landed' /\ [Next]_vars =>
        [\A l \in Id : dur[l].landing \in {"landed", "pending_manual_pr"} =>
            dur'[l].landing = dur[l].landing /\ land'[l] \notin Landing]_vars
  BY <1>2 DEF Final
<1> QED
  BY <1>1, <1>3, LandedNext, CoreHolds, PTL DEF Spec, LandedIsFinal

-----------------------------------------------------------------------------
(* Which gates the pipeline has passed.                                    *)

(* How it gets to a gate, past it, and to its end. *)
Went ==
    /\ run'.pc = "mark_done" => run'.story \in passed'[run.id]
    /\ run'.pc \in VerifiedPc =>
           run.pc \in VerifiedPc \/ ((StartStories \/ MarkStoryDone) /\ Pending(run'.snap.done) = {})
    /\ run'.pc \in SecuredPc => run.pc \in SecuredPc \/ ScanPasses
    /\ run'.pc = "review_ready" =>
           RequestApproval \/ (run.pc = "review_ready" /\ UNCHANGED <<loop, action>>)
    /\ run'.pc = "awaiting_approval" =>
           \/ run.pc = "awaiting_approval" /\ UNCHANGED <<loop, action>>
           \/ run.pc = "review_ready" /\ UNCHANGED action /\ Allowed(run.id, "review_ready")
    /\ run'.pc \in Work => ~Block /\ ~(Commit /\ run.pc = "awaiting_approval")
    /\ run'.pc \in {"remediate", "close"} =>
           \/ run.pc = "remediate" /\ run'.snap = run.snap /\ UNCHANGED loop
           \/ run'.snap.approval = "available"
           \/ run.pc \in Work /\ UNCHANGED loop
           \/ loop'[run.id] # "awaiting_approval"

(* Every step of the pipeline but the last goes so.                        *)
LEMMA PipelineWent ==
    ASSUME Core, Pipeline, ~CloseRun
    PROVE  Went
<1>0. /\ run \in RunRow /\ run.id \in Id /\ run.snap \in DurableRun /\ OnStory
      /\ loop \in [Id -> PRODUCT_LOOP_STATES \cup {"none"}] /\ passed \in [Id -> SUBSET Story]
  <2>1. run.pc # "idle"
    BY PipelineMoves DEF PipelineMoved, Core
  <2> QED
    BY <2>1 DEF Core, Types, TypeOK, RunRow, Placed
<1>1. /\ Stage \subseteq Work /\ Blockable \subseteq Work
      /\ {"remediate", "close", "finish"} \cap
             (Work \cup VerifiedPc \cup {"mark_done", "review_ready", "awaiting_approval"}) = {}
      /\ SecuredPc \subseteq VerifiedPc
      /\ {"review_ready", "awaiting_approval"} \subseteq SecuredPc
  BY StageIs, WorkIs DEF VerifiedPc, SecuredPc, Work
<1>a. Block => run'.pc \notin Work
  BY <1>0, <1>1 DEF Block, Finish, RunRow
<1>b. Commit /\ run.pc = "awaiting_approval" => run'.pc \notin Work
  <2> SUFFICES ASSUME Commit, run.pc = "awaiting_approval" PROVE run'.pc \notin Work
    OBVIOUS
  <2>1. Patched(run.pc) \in DurableRun /\ Patched(run.pc).done = run.snap.done /\ run.pc \in Stage
    BY <1>0 DEF Patched, DurableRun, Commit
  <2>2. PICK r : r = After(run.pc, Patched(run.pc)) /\ r \in RunRow /\ r.pc = "close"
    BY <1>0, <2>1, AfterIs
  <2>3. \/ run' = [r EXCEPT !.late = IF WasCancelled THEN @ + 1 ELSE @]
        \/ Finish("failed", "finish")
    BY <2>2 DEF Commit, BestEffort
  <2> QED
    BY <1>0, <1>1, <2>2, <2>3 DEF Finish, RunRow
<1>2. CASE CheckBeforeStart \/ MarkRunning \/ Supersede \/ CheckBeforeFinish \/ SettleThread
           \/ MatchExisting \/ Route \/ Develop \/ QaPasses \/ QaFails \/ ScanPasses
           \/ RequestApproval \/ Remediate \/ ClearRunActive
  <2>1. PICK q : Goto(q) /\ <<run.pc, q>> \in Edges
    BY <1>2, SimpleMoves DEF MovesOn
  <2>2. run'.pc = q /\ run'.snap = run.snap /\ run'.story = run.story
    BY <1>0, <2>1 DEF Goto, RunRow
  <2>3. /\ run.pc = "scan" => ScanPasses
        /\ run.pc = "approval" => RequestApproval
        /\ run.pc = "verdict" => QaPasses \/ QaFails
        /\ run.pc = "remediate" => loop' = loop
    BY <1>2 DEF CheckBeforeStart, MarkRunning, Supersede, CheckBeforeFinish, SettleThread,
       MatchExisting, Route, Develop, QaPasses, QaFails, ScanPasses, RequestApproval, Remediate,
       ClearRunActive
  <2>4. QaFails => run'.pc # "mark_done"
    BY <1>0 DEF QaFails, Goto, RunRow
  <2>5. QaPasses => run.story \in passed'[run.id]
    BY <1>0 DEF QaPasses
  <2> QED
    BY <1>a, <1>b, <2>1, <2>2, <2>3, <2>4, <2>5, EdgesAre DEF Went
<1>3. CASE Block \/ CompletePlanOnly
  <2>1. run'.pc \in {"remediate", "finish"} \/ (CompletePlanOnly /\ run'.pc = "close")
    BY <1>0, <1>3 DEF Block, CompletePlanOnly, Finish, RunRow
  <2>2. CompletePlanOnly => loop' = loop /\ run.pc \in Work
    BY <1>1, StageIs DEF CompletePlanOnly
  <2>3. Block /\ run'.pc = "remediate" => loop'[run.id] # "awaiting_approval"
    BY <1>0 DEF Block, Finish, RunRow
  <2> QED
    BY <1>1, <1>3, <2>1, <2>2, <2>3 DEF Went
<1>4. CASE Begin
  <2>1. run'.pc = "workspace_check"
    BY <1>0, <1>4 DEF Begin, RunRow
  <2> QED
    BY <1>a, <1>b, <2>1 DEF Went, VerifiedPc, SecuredPc
<1>5. CASE Poll
  <2>1. run.pc \in Stage /\ run.pc \in Work /\ action' = action /\ passed' = passed
    BY <1>1, <1>5 DEF Poll, histVars
  <2>2. CASE run' = [run EXCEPT !.go = TRUE] /\ loop' = loop
    <3>1. run'.pc = run.pc /\ run'.snap = run.snap
      BY <1>0, <2>2 DEF RunRow
    <3>2. run'.pc # "mark_done"
      BY <2>1, <3>1, StageIs
    <3> QED
      BY <1>a, <1>b, <1>1, <2>1, <2>2, <3>1, <3>2 DEF Went
  <2>3. CASE CancelRun
    <3>1. CASE Finish("failed", "finish")
      <4>1. run'.pc = "finish"
        BY <1>0, <3>1 DEF Finish, RunRow
      <4> QED
        BY <1>1, <4>1 DEF Went
    <3>2. CASE /\ run' = [run EXCEPT !.pc = "close", !.result = "cancelled", !.snap = dur[run.id]]
               /\ loop' = [loop EXCEPT ![run.id] = "cancelled"]
      <4>1. run'.pc = "close" /\ loop'[run.id] = "cancelled"
        BY <1>0, <3>2 DEF RunRow
      <4> QED
        BY <1>1, <4>1 DEF Went
    <3> QED
      BY <2>3, <3>1, <3>2 DEF CancelRun
  <2> QED
    BY <1>5, <2>2, <2>3 DEF Poll
<1>6. CASE Commit
  <2>1. run.pc \in Work /\ run.pc \in Stage /\ action' = action
    BY <1>1, <1>6 DEF Commit, rowVars
  <2>2. /\ Patched(run.pc) \in DurableRun /\ Patched(run.pc).done = run.snap.done
        /\ run.pc = "awaiting_approval" => Patched(run.pc).approval = "available"
    BY <1>0 DEF Patched, DurableRun
  <2>3. CASE Allowed(run.id, Enters[run.pc])
    <3>1. PICK r : r = After(run.pc, Patched(run.pc)) /\ r \in RunRow
      BY <1>0, <2>1, <2>2, AfterIs
    <3>2. /\ r.snap = Patched(run.pc)
          /\ r.pc = "mark_done" => run.pc = "noop_qa" /\ r.story = run.story
          /\ r.pc \in VerifiedPc => run.pc \in VerifiedPc
          /\ r.pc \in SecuredPc => run.pc \in SecuredPc
          /\ r.pc # "review_ready" /\ r.pc # "remediate"
          /\ r.pc = "awaiting_approval" => run.pc = "review_ready"
      BY <1>0, <1>1, <2>1, <2>2, <3>1, AfterIs
    <3>3. /\ run' = [r EXCEPT !.late = IF WasCancelled THEN @ + 1 ELSE @]
          /\ loop' = [loop EXCEPT ![run.id] = Enters[run.pc]]
          /\ run.pc = "noop_qa" => passed' = [passed EXCEPT ![run.id] = @ \cup {run.story}]
      BY <1>6, <2>3, <3>1 DEF Commit
    <3>4. /\ run'.pc = r.pc /\ run'.snap = Patched(run.pc) /\ run'.story = r.story
          /\ loop'[run.id] = Enters[run.pc]
      BY <1>0, <3>1, <3>2, <3>3 DEF RunRow
    <3>5. run'.pc = "mark_done" => run'.story \in passed'[run.id]
      BY <1>0, <3>2, <3>3, <3>4
    <3>6. run'.pc = "awaiting_approval" => Allowed(run.id, "review_ready")
      BY <2>1, <2>3, <3>2, <3>4, StageIs
    <3>7. loop'[run.id] = "awaiting_approval" => run'.snap.approval = "available"
      <4>1. Enters[run.pc] = "awaiting_approval" => run.pc = "awaiting_approval"
        BY <2>1, StageIs
      <4> HIDE DEF Patched
      <4> QED
        BY <2>2, <3>4, <4>1
    <3> QED
      BY <1>a, <1>b, <2>1, <3>2, <3>4, <3>5, <3>6, <3>7 DEF Went
  <2>4. CASE ~Allowed(run.id, Enters[run.pc])
    <3>1. CASE run.pc \in BestEffort
      <4>1. run' = After(run.pc, run.snap) /\ loop' = loop
        BY <1>6, <2>4, <3>1 DEF Commit
      <4>2. /\ run'.pc # "mark_done" /\ run'.pc # "review_ready" /\ run'.pc # "awaiting_approval"
            /\ run'.pc \in VerifiedPc => run.pc \in VerifiedPc
            /\ run'.pc \in SecuredPc => run.pc \in SecuredPc
        BY <1>0, <2>1, <3>1, <4>1, AfterIs DEF BestEffort
      <4> QED
        BY <1>a, <1>b, <2>1, <4>1, <4>2 DEF Went
    <3>2. CASE run.pc \notin BestEffort
      <4>1. Finish("failed", "finish")
        BY <1>6, <2>4, <3>2 DEF Commit
      <4>2. run'.pc = "finish"
        BY <1>0, <4>1 DEF Finish, RunRow
      <4> QED
        BY <1>1, <4>2 DEF Went
    <3> QED
      BY <3>1, <3>2
  <2> QED
    BY <2>3, <2>4
<1>7. CASE Plan
  <2>1. run'.pc \in {"backlog_ready", "architecture_review"}
    BY <1>0, <1>7 DEF Plan, Goto, RunRow
  <2> QED
    BY <1>a, <1>b, <2>1 DEF Went, VerifiedPc, SecuredPc
<1>8. CASE StartStories
  <2>1. PICK c : run' = [run EXCEPT !.snap = [dur[run.id] EXCEPT !.done = c],
                            !.story = NextStory(c),
                            !.pc = IF Pending(c) = {} THEN "skip_qa" ELSE "develop"]
    BY <1>8 DEF StartStories
  <2>2. /\ run'.pc = IF Pending(c) = {} THEN "skip_qa" ELSE "develop"
        /\ run'.snap.done = c
    BY <1>0, <2>1 DEF RunRow, Core, Types, TypeOK, DurableRun
  <2> QED
    BY <1>a, <1>b, <1>8, <2>2 DEF Went, SecuredPc, VerifiedPc
<1>9. CASE MarkStoryDone
  <2>1. PICK d : run' = [run EXCEPT !.pc = NextStage(d.done), !.snap = d]
    BY <1>9 DEF MarkStoryDone
  <2>2. run'.pc = NextStage(d.done) /\ run'.snap = d
    BY <1>0, <2>1 DEF RunRow
  <2> QED
    BY <1>a, <1>b, <1>9, <2>2 DEF Went, SecuredPc, VerifiedPc, NextStage
<1> QED
  BY <1>2, <1>3, <1>4, <1>5, <1>6, <1>7, <1>8, <1>9 DEF Pipeline

(* A story that passed stays passed, but for the run that starts over.     *)
LEMMA PassedGrows ==
    ASSUME TypeOK, [Next]_vars, NEW l \in Id
    PROVE  passed[l] \subseteq passed'[l] \/ (StartStories /\ l = run.id)
<1>1. CASE Commit \/ QaPasses
  BY <1>1 DEF Commit, QaPasses, TypeOK
<1>2. CASE StartStories
  BY <1>2 DEF StartStories, TypeOK
<1> QED
  BY <1>1, <1>2, HistoryFrame

(* A loop whose scan passed stays one whose scan passed.                   *)
LEMMA SecureGrows == [Next]_vars => secure \subseteq secure'
BY HistoryFrame DEF ScanPasses

(* What the pipeline calls done has passed.                                *)
LEMMA DoneHasPassed ==
    ASSUME Core, Earned, Pipeline, ~CloseRun
    PROVE  run'.snap.done \subseteq passed'[run.id] /\ dur'[run.id].done \subseteq passed'[run.id]
<1>0. /\ TypeOK /\ Types /\ run.id \in Id /\ run.pc # "idle" /\ Written
      /\ dur \in [Id -> DurableRun] /\ dur[run.id] \in DurableRun /\ run \in RunRow
      /\ passed \in [Id -> SUBSET Story]
  <2>1. run.pc # "idle"
    BY PipelineMoves DEF PipelineMoved, Core
  <2> QED
    BY <2>1, PipelineWrites DEF Core, Types, TypeOK, Placed, RunRow
<1>1. CASE Begin
  <2>1. run'.snap = Started /\ dur'[run.id] = Started
    BY <1>0, <1>1 DEF Begin, RunRow
  <2> QED
    BY <2>1 DEF Started, NoDurable
<1>2. CASE StartStories
  <2>1. PICK c \in SUBSET RetrySource :
          /\ dur' = [dur EXCEPT ![run.id] = [dur[run.id] EXCEPT !.done = c]]
          /\ run' = [run EXCEPT !.snap = [dur[run.id] EXCEPT !.done = c],
                       !.story = NextStory(c),
                       !.pc = IF Pending(c) = {} THEN "skip_qa" ELSE "develop"]
          /\ passed' = [passed EXCEPT ![run.id] = c \cap UNION {passed[l] : l \in Id}]
    BY <1>2 DEF StartStories
  <2>2. dur'[run.id].done = c /\ run'.snap.done = c
    BY <1>0, <2>1 DEF RunRow, DurableRun
  <2>3. c \subseteq UNION {dur[l].done : l \in Id}
    BY <1>0, <2>1, CarriedWasDone DEF Types, TypeOK
  <2>4. c \subseteq UNION {passed[l] : l \in Id}
    BY <2>3 DEF Earned
  <2> QED
    BY <1>0, <2>1, <2>2, <2>4
<1>3. CASE MarkStoryDone
  <2>1. PICK q : LET d == [dur[run.id] EXCEPT !.done = dur[run.id].done \cup {run.story}]
                 IN  /\ dur' = [dur EXCEPT ![run.id] = d]
                     /\ run' = [run EXCEPT !.pc = q, !.snap = d]
    BY <1>0, <1>3 DEF MarkStoryDone, DurableRun
  <2>2. /\ dur'[run.id].done = dur[run.id].done \cup {run.story}
        /\ run'.snap.done = dur[run.id].done \cup {run.story}
    BY <1>0, <2>1 DEF RunRow, DurableRun
  <2>3. passed' = passed /\ run.pc = "mark_done"
    BY <1>3 DEF MarkStoryDone, histVars
  <2> QED
    BY <1>0, <2>2, <2>3 DEF Earned
<1>4. CASE ~Begin /\ ~StartStories /\ ~MarkStoryDone
  <2>1. passed[run.id] \subseteq passed'[run.id]
    BY <1>0, <1>4, PassedGrows DEF Next
  <2> QED
    BY <1>0, <1>4, <2>1 DEF Written, Earned
<1> QED
  BY <1>1, <1>2, <1>3, <1>4

(* A run that goes on without the pipeline has not gone on; a new one has  *)
(* not got anywhere.                                                       *)
LEMMA RunStays ==
    ASSUME Core, [Next]_vars, ~(Pipeline /\ ~CloseRun)
    PROVE  \/ run' = run /\ ~Pipeline
           \/ run' = NoRun
           \/ \E j \in Id : run' = [NoRun EXCEPT !.id = j, !.pc = "start"]
<1>1. CASE Pipeline
  BY <1>1 DEF CloseRun
<1> QED
  BY <1>1, RunFrame DEF Crash, Claim

(* A run gets past a gate by passing it, and what it has passed stays.     *)
LEMMA EarnedNext == Core /\ Earned /\ Gates /\ [Next]_vars => Earned'
<1> SUFFICES ASSUME Core, Earned, Gates, [Next]_vars PROVE Earned'
  OBVIOUS
<1>0. /\ TypeOK /\ Types /\ (run.pc # "idle" => run.id \in Id)
      /\ dur \in [Id -> DurableRun] /\ run \in RunRow
      /\ passed' \in [Id -> SUBSET Story] /\ secure \subseteq secure'
  BY TypeNext, SecureGrows DEF Core, Types, TypeOK, Placed, RunRow
<1>1. ASSUME NEW l \in Id PROVE dur'[l].done \subseteq passed'[l]
  <2>1. CASE Pipeline /\ ~CloseRun /\ l = run.id
    BY <2>1, DoneHasPassed
  <2>2. CASE ~(Pipeline /\ ~CloseRun /\ l = run.id)
    <3>1. dur'[l].done = dur[l].done
      <4>1. dur[l] \in DurableRun
        BY <1>0
      <4>2. CloseRun => dur' = dur
        BY DEF CloseRun
      <4>3. DurMoved(l)
        BY DurMoves DEF Core
      <4> QED
        BY <2>2, <4>1, <4>2, <4>3 DEF DurMoved, DurableRun
    <3>2. StartStories => Pipeline /\ ~CloseRun
      BY DEF StartStories, CloseRun, Pipeline
    <3>3. passed[l] \subseteq passed'[l]
      BY <1>0, <2>2, <3>2, PassedGrows
    <3> QED
      BY <3>1, <3>3 DEF Earned
  <2> QED
    BY <2>1, <2>2
<1>2. CASE Pipeline /\ ~CloseRun
  <2>1. /\ run.pc # "idle" /\ run.id \in Id /\ run'.id = run.id /\ Went
        /\ run'.snap.done \subseteq passed'[run.id]
    BY <1>0, <1>2, DoneHasPassed, PipelineMoves, PipelineWent DEF PipelineMoved
  <2>2. run.pc \in VerifiedPc => passed[run.id] \subseteq passed'[run.id]
    BY <1>0, <2>1, PassedGrows DEF StartStories, VerifiedPc, SecuredPc
  <2>3. Pending(run'.snap.done) = {} => Story \subseteq passed'[run.id]
    BY <2>1 DEF Pending
  <2>4. run'.pc \in VerifiedPc => passed'[run.id] = Story
    BY <1>0, <2>1, <2>2, <2>3 DEF Went, Earned
  <2>5. run'.pc \in SecuredPc => run.id \in secure'
    BY <1>0, <2>1 DEF Went, Earned, ScanPasses
  <2> QED
    BY <1>1, <2>1, <2>4, <2>5 DEF Went, Earned
<1>3. CASE run' = run /\ ~Pipeline
  <2>1. run.pc # "idle" => passed[run.id] \subseteq passed'[run.id]
    BY <1>0, <1>3, PassedGrows DEF Pipeline
  <2>2. VerifiedPc \cap {"idle"} = {} /\ SecuredPc \cap {"idle"} = {}
    BY DEF VerifiedPc, SecuredPc
  <2> QED
    BY <1>0, <1>1, <1>3, <2>1, <2>2 DEF Earned
<1>4. ASSUME run'.snap.done = {}, run'.pc \in {"idle", "start"} PROVE Earned'
  BY <1>1, <1>4 DEF Earned, VerifiedPc, SecuredPc
<1>5. /\ NoRun.snap.done = {} /\ NoRun.pc = "idle"
      /\ \A j : /\ [NoRun EXCEPT !.id = j, !.pc = "start"].pc = "start"
                /\ [NoRun EXCEPT !.id = j, !.pc = "start"].snap.done = {}
  BY DEF NoRun, NoDurable
<1> QED
  BY <1>2, <1>3, <1>4, <1>5, RunStays

-----------------------------------------------------------------------------
(* A delivery has passed every gate.                                       *)

(* Only a run past all gates brings its loop up for a decision, and with   *)
(* that its work is over.                                                  *)
LEMMA GatesNext == Core /\ Earned /\ Gates /\ [Next]_vars => Gates'
<1> SUFFICES ASSUME Core, Earned, Gates, [Next]_vars PROVE Gates'
  OBVIOUS
<1>0. /\ TypeOK /\ Types /\ (run.pc # "idle" => run.id \in Id)
      /\ passed \in [Id -> SUBSET Story] /\ passed' \in [Id -> SUBSET Story]
      /\ secure \subseteq secure' /\ manual \subseteq manual' /\ "idle" \notin Work
      /\ \A l \in Id : Moved(l)
  BY TypeNext, SecureGrows, MarksStay, LoopMoves, StageIs, WorkIs DEF Core, Types, TypeOK, Placed
<1>1. Commit => /\ run.pc \in Work /\ run.id \in Id
                /\ Enters[run.pc] # "delivered"
                /\ Enters[run.pc] = "awaiting_approval" => run.pc = "awaiting_approval"
  BY <1>0, StageIs DEF Commit, Work
<1>2. ASSUME NEW l \in Id \ manual', loop'[l] \in {"awaiting_approval", "delivered"}
      PROVE  Gated(l)'
  <2>1. Gated(l)
    <3>1. CASE loop[l] \in {"awaiting_approval", "delivered"}
      BY <1>0, <1>2, <3>1 DEF Gates
    <3>2. CASE loop[l] \notin {"awaiting_approval", "delivered"}
      <4>1. Commit /\ l = run.id /\ run.pc = "awaiting_approval"
        BY <1>0, <1>1, <1>2, <3>2 DEF Moved
      <4> QED
        BY <4>1 DEF Earned, Gated, VerifiedPc, SecuredPc
    <3> QED
      BY <3>1, <3>2
  <2>2. passed[l] \subseteq passed'[l]
    <3>1. CASE StartStories /\ l = run.id
      <4>1. loop[l] \notin {"awaiting_approval", "delivered"} /\ loop' = loop
        BY <1>0, <1>2, <3>1, WorkIs DEF Gates, StartStories
      <4> QED
        BY <1>2, <4>1
    <3> QED
      BY <1>0, <3>1, PassedGrows
  <2> QED
    BY <1>0, <2>1, <2>2 DEF Gated
<1>3. ASSUME run'.pc \in Work, run'.id \notin manual'
      PROVE  loop'[run'.id] \notin {"awaiting_approval", "delivered"}
  <2>1. CASE Pipeline /\ ~CloseRun
    <3>1. run'.id = run.id /\ run.id \in Id /\ Went /\ (run.pc \in Work \/ Begin)
      BY <1>0, <1>3, <2>1, PipelineMoves, PipelineWent DEF PipelineMoved, Core
    <3>2. CASE Begin
      BY <1>0, <3>1, <3>2 DEF Begin, TypeOK
    <3>3. CASE run.pc \in Work
      <4>1. loop[run.id] \notin {"awaiting_approval", "delivered"}
        BY <1>0, <1>3, <3>1, <3>3 DEF Gates
      <4>2. ~(Commit /\ run.pc = "awaiting_approval")
        BY <1>3, <3>1 DEF Went
      <4>3. Moved(run.id)
        BY <1>0, <3>1
      <4> QED
        BY <1>1, <1>3, <3>1, <4>1, <4>2, <4>3 DEF Moved
    <3> QED
      BY <3>1, <3>2, <3>3
  <2>2. CASE run' = run /\ ~Pipeline
    <3>1. run.id \in Id /\ ~Commit /\ loop[run.id] \notin {"awaiting_approval", "delivered"}
      BY <1>0, <1>3, <2>2 DEF Gates, Pipeline
    <3>2. Moved(run.id)
      BY <1>0, <3>1
    <3> QED
      BY <1>3, <2>2, <3>1, <3>2 DEF Moved
  <2>3. "start" \notin Work /\ NoRun.pc = "idle" /\ \A j : [NoRun EXCEPT !.id = j, !.pc = "start"].pc = "start"
    BY StageIs, WorkIs DEF NoRun
  <2> QED
    BY <1>0, <1>3, <2>1, <2>2, <2>3, RunStays
<1> QED
  BY <1>2, <1>3 DEF Gates

Guarded == Core /\ Earned /\ Gates

(* A loop up for a decision or delivered has always passed all gates.      *)
LEMMA GuardedHolds == Spec => []Guarded
<1>1. Init => Earned /\ Gates
  BY StageIs, WorkIs
  DEF Init, Earned, Gates, NoRun, NoDurable, VerifiedPc, SecuredPc
<1>2. Guarded /\ [Next]_vars => Guarded'
  BY CoreNext, EarnedNext, GatesNext DEF Guarded
<1> QED
  BY <1>1, <1>2, CoreInit, PTL DEF Spec, Guarded

(* A delivered loop went through every gate - QA of each story, in its run *)
(* or in the one it retries, and the security scan - whatever pauses,      *)
(* refused transitions, crashes and retries came before.                   *)
THEOREM DeliveryIsGated == Spec => []DeliveredWasGated
<1>1. Guarded => DeliveredWasGated
  BY DEF Guarded, Gates, Gated, DeliveredWasGated
<1> QED
  BY <1>1, GuardedHolds, PTL

-----------------------------------------------------------------------------
(* A delivery the operator can decide, and has decided before it lands.    *)

(* What a decision does to the action request of the delivery.             *)
LEMMA DecisionIs ==
    ASSUME TypeOK, NEW k \in Id, Decides(k)
    PROVE  /\ \A l \in Id \ {k} : action'[l] = action[l]
           /\ loop'[k] \in {"delivered", "awaiting_feedback", "reworking"}
<1>1. PICK s \in {"delivered", "awaiting_feedback", "reworking"} :
        /\ Allowed(k, s) /\ loop' = [loop EXCEPT ![k] = s]
        /\ \E v \in {"approved", "denied"} : Decide(k, v)
  BY DEF Decides, Accept, RequestChanges, RequestTaskChanges
<1>2. \A l \in Id \ {k} : action'[l] = action[l]
  BY <1>1 DEF Decide, TypeOK
<1> QED
  BY <1>1, <1>2 DEF TypeOK

(* The action request of a loop, when the step decides nothing.            *)
LEMMA ActionStays ==
    ASSUME TypeOK, [Next]_vars, NEW l \in Id, ~Decides(l)
    PROVE  action'[l] = action[l] \/ (RequestApproval /\ l = run.id /\ action'[l] = "pending")
<1>1. ASSUME NEW k \in Id, Decides(k) PROVE action'[l] = action[l]
  <2>1. k # l
    BY <1>1, Zenon
  <2> QED
    BY <1>1, <2>1, DecisionIs
<1>2. CASE RequestApproval
  BY <1>2 DEF RequestApproval, TypeOK
<1> QED
  BY <1>1, <1>2, ActionFrame

(* A loop a decision moved is past its decision.                           *)
LEMMA Undecided ==
    ASSUME TypeOK, NEW l \in Id,
           loop'[l] \notin {"delivered", "awaiting_feedback", "reworking"}
    PROVE  ~Decides(l)
BY DecisionIs

Waiting == {"security_running", "quality_review", "review_ready"}

(* The loop of the pipeline, when a step does not run it.                  *)
LEMMA AskedElsewhere ==
    ASSUME Guarded, Asked, [Next]_vars, run' = run, ~Pipeline, run.pc # "idle"
    PROVE  Asked'
<1>0. /\ TypeOK /\ run.id \in Id /\ manual \subseteq manual' /\ paused \subseteq paused'
      /\ Moved(run.id) /\ Types
  BY MarksStay, LoopMoves DEF Guarded, Core, Types, TypeOK, Placed
<1> SUFFICES ASSUME run.id \notin manual' \cup paused' PROVE Asked'
  BY DEF Asked
<1>1. /\ run.id \notin manual \cup paused /\ ~Commit /\ ~Block /\ ~Begin /\ ~RequestApproval
  BY <1>0 DEF Pipeline
<1>2. ASSUME run.pc \in Work
      PROVE  loop[run.id] \notin {"blocked", "awaiting_feedback", "awaiting_approval", "delivered"}
  BY <1>1, <1>2 DEF Guarded, Gates, Asked
<1>3. run.pc \in Work => loop'[run.id] \notin {"blocked", "awaiting_feedback"}
  BY <1>0, <1>1, <1>2 DEF Moved
<1>4. loop'[run.id] \in Waiting => loop'[run.id] = loop[run.id] /\ ~Decides(run.id)
  BY <1>0, <1>1, Undecided DEF Moved, Waiting
<1>5. loop'[run.id] \in Waiting => action'[run.id] = action[run.id]
  BY <1>0, <1>1, <1>4, ActionStays
<1>6. loop'[run.id] = "awaiting_approval" => loop[run.id] = "awaiting_approval"
  BY <1>0, <1>1 DEF Moved
<1> QED
  BY <1>0, <1>1, <1>3, <1>4, <1>5, <1>6 DEF Asked, Waiting

(* And when it does.                                                       *)
LEMMA AskedOnTheWay ==
    ASSUME Guarded, Asked, Pipeline, ~CloseRun
    PROVE  Asked'
<1>0. /\ TypeOK /\ Types /\ Core /\ [Next]_vars /\ run.id \in Id /\ run'.id = run.id /\ PipelineMoved
      /\ Moved(run.id) /\ Went /\ action' \in [Id -> {"none", "pending", "approved", "denied"}]
  <2>1. run.pc # "idle" /\ run'.id = run.id /\ PipelineMoved /\ Core /\ [Next]_vars
    BY PipelineMoves DEF PipelineMoved, Guarded, Core, Next
  <2> QED
    BY <2>1, LoopMoves, PipelineWent, TypeNext DEF Core, Types, TypeOK, Placed
<1>1. manual \subseteq manual' /\ paused \subseteq paused'
  BY <1>0, MarksStay
<1> SUFFICES ASSUME run.id \notin manual' \cup paused' PROVE Asked'
  BY <1>0 DEF Asked
<1>2. run.id \notin manual \cup paused
  BY <1>1
<1>3. ASSUME run.pc \in Work
      PROVE  loop[run.id] \notin {"blocked", "awaiting_feedback", "awaiting_approval", "delivered"}
  BY <1>2, <1>3 DEF Guarded, Gates, Asked
<1>4. ASSUME run'.pc \in Work PROVE loop'[run.id] \notin {"blocked", "awaiting_feedback"}
  <2>1. CASE Begin
    BY <1>0, <2>1 DEF Begin, TypeOK
  <2>2. CASE run.pc \in Work
    <3>1. ~Block
      BY <1>0, <1>4 DEF Went
    <3>2. Commit => Enters[run.pc] \notin {"blocked", "awaiting_feedback"}
      BY StageIs DEF Commit
    <3> QED
      BY <1>0, <1>3, <2>2, <3>1, <3>2 DEF Moved
  <2> QED
    BY <1>0, <1>4, <2>1, <2>2 DEF PipelineMoved
<1>5. ASSUME run'.pc \in {"review_ready", "awaiting_approval"}, loop'[run.id] \in Waiting
      PROVE  action'[run.id] = "pending"
  <2>1. CASE RequestApproval
    BY <1>0, <2>1 DEF RequestApproval, TypeOK
  <2>2. CASE run.pc \in {"review_ready", "awaiting_approval"} /\ UNCHANGED <<loop, action>>
    BY <1>2, <1>5, <2>2 DEF Asked, Waiting
  <2>3. CASE run.pc = "review_ready" /\ UNCHANGED action /\ Allowed(run.id, "review_ready")
    <3>1. loop[run.id] \in Waiting
      BY <1>0, <1>3, <2>3, TableIs, StageIs, WorkIs DEF Allowed, TypeOK, Waiting
    <3> QED
      BY <1>2, <2>3, <3>1 DEF Asked, Waiting
  <2> QED
    BY <1>0, <1>5, <2>1, <2>2, <2>3 DEF Went
<1>6. ASSUME run'.pc \in {"remediate", "close"}, loop'[run.id] = "awaiting_approval"
      PROVE  run'.snap.approval = "available"
  BY <1>0, <1>2, <1>3, <1>6 DEF Went, Asked
<1> QED
  BY <1>0, <1>4, <1>5, <1>6 DEF Asked, Waiting

(* Whoever takes the step, the request of a delivery stays pending until   *)
(* its loop awaits approval.                                               *)
LEMMA AskedNext == Guarded /\ Asked /\ [Next]_vars => Asked'
<1> SUFFICES ASSUME Guarded, Asked, [Next]_vars PROVE Asked'
  OBVIOUS
<1>1. ASSUME run'.pc \in {"idle", "start"} PROVE Asked'
  BY <1>1, StageIs, WorkIs DEF Asked
<1>2. NoRun.pc = "idle" /\ \A j : [NoRun EXCEPT !.id = j, !.pc = "start"].pc = "start"
  BY DEF NoRun
<1> QED
  BY <1>1, <1>2, AskedElsewhere, AskedOnTheWay, RunStays DEF Guarded

(* A loop gets to awaiting_approval with its request pending and referred  *)
(* to, and while it stays there neither the closing write nor a landing    *)
(* takes that away.                                                        *)
LEMMA DecidableNext ==
    Guarded /\ Asked /\ DecidableWhenAwaiting /\ [Next]_vars => DecidableWhenAwaiting'
<1> SUFFICES ASSUME Guarded, Asked, DecidableWhenAwaiting, [Next]_vars,
                    NEW l \in Id, l \notin manual' \cup paused', loop'[l] = "awaiting_approval"
             PROVE  action'[l] = "pending" /\ dur'[l].approval = "available"
  BY DEF DecidableWhenAwaiting
<1>0. /\ TypeOK /\ Types /\ l \notin manual \cup paused /\ Moved(l) /\ DurMoved(l) /\ ~Decides(l)
      /\ dur \in [Id -> DurableRun] /\ dur[l] \in DurableRun /\ run \in RunRow
      /\ run.pc # "idle" => run.id \in Id
  BY MarksStay, LoopMoves, DurMoves, Undecided DEF Guarded, Core, Types, TypeOK, Placed, RunRow
<1>1. CASE loop[l] = "awaiting_approval"
  <2>1. action[l] = "pending" /\ dur[l].approval = "available"
    BY <1>0, <1>1 DEF DecidableWhenAwaiting
  <2>2. action'[l] = "pending"
    BY <1>0, <2>1, ActionStays
  <2>3. CASE dur'[l] = dur[l]
    BY <2>1, <2>2, <2>3
  <2>4. CASE Pipeline /\ l = run.id /\ dur'[l] # dur[l]
    <3>1. run.pc \notin Work /\ ~Begin
      BY <1>0, <1>1, <2>4 DEF Guarded, Gates, Core, Fresh, Begin, NotBegun
    <3>2. Written
      BY <1>0, <2>4, PipelineWrites DEF CloseRun
    <3>3. run.pc = "close" /\ dur'[l].approval = run.snap.approval
      BY <2>4, <3>1, <3>2 DEF Written
    <3>4. run.snap.approval = "available"
      BY <1>0, <1>1, <2>4, <3>3 DEF Asked
    <3> QED
      BY <2>2, <3>3, <3>4
  <2>5. CASE RecordLanding(l) /\ dur'[l] = [dur[l] EXCEPT !.landing = land[l]]
    BY <1>0, <2>1, <2>2, <2>5 DEF DurableRun
  <2> QED
    BY <1>0, <2>3, <2>4, <2>5 DEF DurMoved
<1>2. CASE loop[l] # "awaiting_approval"
  <2>1. /\ Commit /\ l = run.id /\ run.pc \in Stage
        /\ Enters[run.pc] = "awaiting_approval"
        /\ Enters[run.pc] \in ALLOWED_TRANSITIONS[loop[l]]
        /\ loop[l] \in PRODUCT_LOOP_STATES
    BY <1>0, <1>2 DEF Moved, Commit
  <2>2. run.pc = "awaiting_approval" /\ run.pc \in Work
    BY <2>1, StageIs DEF Work
  <2>3. loop[l] \in Waiting
    <3>1. loop[l] # "blocked"
      BY <1>0, <2>1, <2>2 DEF Asked
    <3> QED
      BY <2>1, <3>1, TableIs DEF Waiting
  <2>4. action[l] = "pending"
    BY <1>0, <2>1, <2>2, <2>3 DEF Asked, Waiting
  <2>5. action' = action
    BY <2>1 DEF Commit, rowVars
  <2>6. Patched("awaiting_approval").approval = "available"
    BY <1>0 DEF Patched, RunRow, DurableRun
  <2>7. Allowed(run.id, Enters[run.pc])
    BY <1>0, <2>1 DEF Allowed, PRODUCT_LOOP_STATES
  <2>8. dur' = [dur EXCEPT ![run.id] = Patched("awaiting_approval")]
    BY <2>1, <2>2, <2>7 DEF Commit
  <2> QED
    BY <1>0, <2>1, <2>4, <2>5, <2>6, <2>8
<1> QED
  BY <1>1, <1>2

(* A loop is delivered by accepting it while its request is pending, and   *)
(* no later run or decision changes the answer.                            *)
LEMMA ApprovedNext ==
    Guarded /\ DecidableWhenAwaiting /\ Approved /\ [Next]_vars => Approved'
<1> SUFFICES ASSUME Guarded, DecidableWhenAwaiting, Approved, [Next]_vars,
                    NEW l \in Id, l \notin manual' \cup paused', loop'[l] = "delivered"
             PROVE  action'[l] = "approved"
  BY DEF Approved
<1>0. /\ TypeOK /\ Types /\ l \notin manual \cup paused /\ Moved(l)
      /\ run.pc # "idle" => run.id \in Id
  BY MarksStay, LoopMoves DEF Guarded, Core, Types, TypeOK, Placed
<1>1. CASE loop[l] = "delivered"
  <2>1. ~Decides(l)
    <3>1. \A s : ~Allowed(l, s)
      BY <1>1 DEF Allowed, ALLOWED_TRANSITIONS, TERMINAL_STATES, PRODUCT_LOOP_STATES
    <3> QED
      BY <3>1 DEF Decides, Accept, RequestChanges, RequestTaskChanges
  <2>2. ~(RequestApproval /\ l = run.id)
    BY <1>0, <1>1, WorkIs DEF RequestApproval, Guarded, Gates
  <2>3. action'[l] = action[l]
    BY <1>0, <2>1, <2>2, ActionStays
  <2> QED
    BY <1>0, <1>1, <2>3 DEF Approved
<1>2. CASE loop[l] # "delivered"
  <2>1. Enters[run.pc] # "delivered" \/ ~Commit
    BY StageIs DEF Commit
  <2>2. Accept(l) /\ loop[l] = "awaiting_approval"
    BY <1>0, <1>2, <2>1 DEF Moved
  <2>3. action[l] = "pending" /\ dur[l].approval = "available"
    BY <1>0, <2>2 DEF DecidableWhenAwaiting
  <2> QED
    BY <1>0, <2>2, <2>3 DEF Accept, Decide, Decision, TypeOK
<1> QED
  BY <1>1, <1>2

(* Git merges only what belongs to a delivered loop. *)
MergedIsDelivered == \A l \in merged : loop[l] = "delivered"

(* Git merges for delivered loops only, and they stay delivered.           *)
LEMMA MergedNext == Core /\ MergedIsDelivered /\ [Next]_vars => MergedIsDelivered'
<1> SUFFICES ASSUME Core, MergedIsDelivered, [Next]_vars, NEW l \in merged'
             PROVE  loop'[l] = "delivered"
  BY DEF MergedIsDelivered
<1>0. TypeOK /\ Placed /\ merged \subseteq Id
  BY DEF Core, Types, TypeOK
<1>1. l \in merged \/ (l \in Id /\ land[l] = "running")
  BY LandFrame DEF Accept, Lander, StartLanding, RunGit, RecordLanding, CrashLanding, RetryLanding
<1>2. l \in Id /\ loop[l] = "delivered"
  BY <1>0, <1>1 DEF MergedIsDelivered, Placed, Landing
<1> QED
  BY <1>2, StaysDelivered

Decided == Guarded /\ Asked /\ DecidableWhenAwaiting /\ Approved /\ MergedIsDelivered

(* The invariant behind both theorems below.                               *)
LEMMA DecidedHolds == Spec => []Decided
<1>1. Init => Asked /\ DecidableWhenAwaiting /\ Approved /\ MergedIsDelivered
  BY StageIs, WorkIs DEF Init, Asked, DecidableWhenAwaiting, Approved, MergedIsDelivered, NoRun
<1>2. Guarded => Core
  BY DEF Guarded
<1> QED
  BY <1>1, <1>2, AskedNext, DecidableNext, ApprovedNext, MergedNext, GuardedHolds, PTL
  DEF Spec, Decided

(* A loop shown as awaiting approval can be decided: its action request is *)
(* pending and durableRun refers to it.                                    *)
THEOREM AwaitedIsDecidable == Spec => []DecidableWhenAwaiting
<1>1. Decided => DecidableWhenAwaiting
  BY DEF Decided
<1> QED
  BY <1>1, DecidedHolds, PTL

(* What git merged into the base branch belongs to a delivered loop whose  *)
(* approval the operator granted.                                          *)
THEOREM LandingWasAccepted == Spec => []LandedWasAccepted
<1>1. Decided => LandedWasAccepted
  BY DEF Decided, Guarded, Core, Types, TypeOK, Approved, MergedIsDelivered, LandedWasAccepted
<1> QED
  BY <1>1, DecidedHolds, PTL
=============================================================================
