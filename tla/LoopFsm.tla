------------------------------ MODULE LoopFsm ------------------------------
(***************************************************************************)
(* The state table of a product loop (product_loop/fsm.py) and what the    *)
(* rest of the system derives from it.  Pure: no variables.                *)
(***************************************************************************)
EXTENDS FiniteSets

PRODUCT_LOOP_STATES ==
    { "goal_received", "workspace_check", "runtime_check", "git_check",
      "discovery", "discovering", "awaiting_user", "planning", "brief_ready",
      "architecture_review", "backlog_ready", "iteration_planning",
      "branch_ready", "executing", "qa_running", "security_running",
      "quality_review", "review_ready", "awaiting_approval",
      "awaiting_feedback", "reworking", "delivered", "blocked", "cancelled" }

TERMINAL_STATES == {"delivered", "cancelled"}

RESUMABLE_STATES == PRODUCT_LOOP_STATES \ (TERMINAL_STATES \union {"blocked"})

\* States in which the loop has handed control to the operator: a new run of
\* the thread never supersedes a loop in one of them.
OPERATOR_WAIT_STATES ==
    {"awaiting_user", "awaiting_approval", "awaiting_feedback", "blocked"}

\* Where a working state leads, besides blocked and cancelled, which every
\* working state allows.
Forward(s) ==
    CASE s = "goal_received"       -> {"workspace_check", "discovery", "discovering"}
      [] s = "workspace_check"     -> {"runtime_check", "git_check"}
      [] s = "runtime_check"       -> {"git_check", "discovery"}
      [] s = "git_check"           -> {"runtime_check", "discovery"}
      [] s = "discovery"           -> {"awaiting_user", "planning", "brief_ready",
                                       "backlog_ready"}
      [] s = "discovering"         -> {"awaiting_user", "brief_ready"}
      [] s = "awaiting_user"       -> {"discovering", "brief_ready"}
      [] s = "planning"            -> {"architecture_review", "backlog_ready"}
      [] s = "brief_ready"         -> {"architecture_review", "backlog_ready"}
      [] s = "architecture_review" -> {"backlog_ready", "brief_ready"}
      [] s = "backlog_ready"       -> {"branch_ready", "iteration_planning"}
      [] s = "branch_ready"        -> {"executing"}
      [] s = "iteration_planning"  -> {"branch_ready", "executing"}
      [] s = "executing"           -> {"qa_running"}
      [] s = "qa_running"          -> {"security_running", "reworking", "executing"}
      [] s = "security_running"    -> {"quality_review", "review_ready"}
      [] s = "review_ready"        -> {"awaiting_approval", "reworking"}
      [] s = "quality_review"      -> {"review_ready", "awaiting_approval", "reworking"}
      [] s = "awaiting_approval"   -> {"delivered", "reworking", "awaiting_feedback"}
      [] s = "awaiting_feedback"   -> {"reworking", "executing"}
      [] s = "reworking"           -> {"executing"}

\* A seeded error: the delivered state keeps an edge back to rework.
MutAllowedReopens ==
    [s \in PRODUCT_LOOP_STATES |->
        CASE s = "cancelled" -> {}
          [] s = "delivered" -> {"reworking"}
          [] s = "blocked"   -> RESUMABLE_STATES \union {"cancelled"}
          [] OTHER           -> Forward(s) \union {"blocked", "cancelled"}]

ALLOWED_TRANSITIONS ==
    [s \in PRODUCT_LOOP_STATES |->
        CASE s \in TERMINAL_STATES -> {}
          [] s = "blocked"         -> RESUMABLE_STATES \union {"cancelled"}
          [] OTHER                 -> Forward(s) \union {"blocked", "cancelled"}]
=============================================================================
