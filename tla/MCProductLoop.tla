--------------------------- MODULE MCProductLoop ---------------------------
EXTENDS ProductLoop

AllOps == {"cancel_execution", "request_task_changes", "pause_loop", "cancel_loop",
           "transition", "crash", "retry_landing"}
=============================================================================
