------------------------------ MODULE MCQuota ------------------------------
(* One AI execution of two branches and one preflight share a policy of    *)
(* the whole provider, with windows of a tick: the requests of two calls   *)
(* fill a window, and so do the tokens of the first one.                   *)
EXTENDS Quota, TLC

CONSTANTS e1, p1, c1, c2, c3, m1, m2

MCPlan        == (e1 :> <<c1, c2>>) @@ (p1 :> <<c3>>)
MCModelOf     == (c1 :> m1) @@ (c2 :> m2) @@ (c3 :> m1)
MCTokens      == (c1 :> 2) @@ (c2 :> 1) @@ (c3 :> 1)
MCTTL         == (c1 :> 2) @@ (c2 :> 1) @@ (c3 :> 1)
MCLength      == [minute |-> 1]
MCMaxRequests == [minute |-> 2]
MCMaxTokens   == [minute |-> 2]
=============================================================================
