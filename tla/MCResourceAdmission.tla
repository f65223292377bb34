------------------------ MODULE MCResourceAdmission ------------------------
EXTENDS ResourceAdmission, TLC

CONSTANTS w1, w2, j1, j2, b1

(* A product loop run and a pipeline, both heavy.                          *)
TwoHeavy   == j1 :> "agent_cli" @@ j2 :> "build_heavy"
NoBranches == <<>>

(* A product loop run, and a research run that calls a CLI account.        *)
LightCallsCli == j1 :> "agent_cli" @@ j2 :> "remote_llm_light"
CliBranch     == b1 :> "agent_cli"

Sym == Permutations({w1, w2})
=============================================================================
