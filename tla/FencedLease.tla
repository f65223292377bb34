----------------------------- MODULE FencedLease -----------------------------
(***************************************************************************)
(* What the leadership lease promises to everything that is fenced by it.  *)
(*                                                                         *)
(* A tenure is a pair (holder, token).  Time does not appear: a tenure may *)
(* stop being live at any moment and, because renewals and releases read   *)
(* the clock before they wait for the database, may become live again as   *)
(* long as nobody else was granted a newer one.  The promise is about the  *)
(* token alone: a grant always carries a token never used before, and the  *)
(* holder of a token never changes.  WorkerLeadership implements this      *)
(* specification; JobLifecycle is written over it.                         *)
(***************************************************************************)
EXTENDS Integers

CONSTANTS Worker,     \* identifiers of worker processes (a restart is a new one)
          NoWorker,   \* "nobody": the row does not exist, the column is NULL
          MaxToken    \* bound on the number of tenures (model checking only)

ASSUME WorkerAssumption   == NoWorker \notin Worker
ASSUME MaxTokenAssumption == MaxToken \in Nat

VARIABLES holder,  \* worker_leader_leases.owner_id
          token,   \* worker_leader_leases.fencing_token, 0 before the first row
          live     \* expires_at > now, as the process that compares sees it

leaseVars == <<holder, token, live>>

LeaseTypeOK ==
    /\ holder \in Worker \cup {NoWorker}
    /\ token \in 0..MaxToken
    /\ live \in BOOLEAN

LeaseInit ==
    /\ holder = NoWorker
    /\ token = 0
    /\ live = FALSE

(* acquire on a missing or expired row: the next token, for whoever asked. *)
Grant(w) ==
    /\ ~live
    /\ token < MaxToken
    /\ holder' = w
    /\ token' = token + 1
    /\ live' \in BOOLEAN

(* Expiry, release, or a renewal: only liveness moves. *)
Flip ==
    /\ token > 0
    /\ live' = ~live
    /\ UNCHANGED <<holder, token>>

LeaseNext == Flip \/ \E w \in Worker : Grant(w)

LeaseSpec == LeaseInit /\ [][LeaseNext]_leaseVars
-----------------------------------------------------------------------------
(* The guard of every fenced write: owner, token and lease still match.    *)
FenceIsActive(w, t) == live /\ holder = w /\ token = t
=============================================================================
