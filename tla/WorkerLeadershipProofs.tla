----------------------- MODULE WorkerLeadershipProofs -----------------------
(***************************************************************************)
(* Proofs about WorkerLeadership, for every set of workers, every lease    *)
(* length, every lock wait and every number of takeovers.                  *)
(*                                                                         *)
(* The argument: only acquire changes the owner or the token of the row,   *)
(* every other step only passes on tokens its worker already holds         *)
(* (HeldOnlyShrinks), and acquire hands out either the row's own token to  *)
(* its owner or a token newer than all the ones held.                      *)
(***************************************************************************)
EXTENDS WorkerLeadership, TLAPS

(* The loop holds a decision from acquire until it leaves the cycle, and   *)
(* a batch carries that decision.                                          *)
DecidedPc == {"leading", "renewing", "consuming", "preflight", "batch", "writing"}

DecisionHeld ==
    \A w \in Worker :
        /\ pc[w] \in DecidedPc => dec[w] # None
        /\ pc[w] \in {"batch", "writing"} => arg[w] = dec[w]

(* The row's owner is unknown only before the first grant; the last write  *)
(* accepted is no newer than the row, and of the row's owner if as new.    *)
RowOrdered ==
    /\ lease.token = 0 => lease.owner = NoWorker /\ ~Live
    /\ applied.token <= lease.token
    /\ applied.token = lease.token => applied.owner = lease.owner

IInv ==
    /\ TypeOK
    /\ HeldTokenIsOwn
    /\ TokensDisjoint
    /\ DecisionHeld
    /\ RowOrdered

(* Every action of a worker but acquire. *)
QuietStep(w) ==
    \/ Start(w) \/ BeginAcquire(w) \/ StoreDecision(w)
    \/ BeginRenew(w) \/ Renew(w) \/ ObeyExit(w) \/ DecideRun(w)
    \/ ConsumeRunOnce(w) \/ PreflightRefuses(w) \/ StartBatch(w)
    \/ BeginFencedWrite(w) \/ FencedWrite(w) \/ FinishBatch(w)
    \/ CycleFails(w) \/ Interrupt(w) \/ Release(w) \/ Exit(w)
    \/ WatchStep(w)

OtherStep == RequestRunOnce \/ Tick \/ \E s \in Commands : RequestState(s)

(* A step is an acquire, another action of a worker, or the operator's or  *)
(* the clock's.                                                            *)
LEMMA NextCases ==
    ASSUME [Next]_vars
    PROVE  \/ \E w \in Worker : Acquire(w)
           \/ \E w \in Worker : QuietStep(w)
           \/ OtherStep
           \/ UNCHANGED vars
BY DEF Next, LoopStep, QuietStep, OtherStep

(* Initially the type invariant holds: the database is empty and no worker *)
(* of runtime.py has been started.                                         *)
LEMMA TypeInit == Init => TypeOK
BY ConstantsAssumption DEF Init, TypeOK, Lease, Token, Request, Lag, Control, Pc,
   WaitingPc, DefaultControl, DesiredState, None

USE DEF None

(* Every step keeps the types of the rows and of the threads' locals.      *)
LEMMA TypeNext == TypeOK /\ [Next]_vars => TypeOK'
<1> SUFFICES ASSUME TypeOK, [Next]_vars PROVE TypeOK'
  OBVIOUS
<1> USE DEF TypeOK
<1>c. DefaultControl \in Control /\ 0 \in Token /\ 0 \in Lag
  BY ConstantsAssumption DEF DefaultControl, Control, DesiredState, Request, Token, Lag
<1> USE <1>c
<1>1. ASSUME NEW w \in Worker, Acquire(w) PROVE TypeOK'
  <2>1. Granted(w) \in Token
    BY <1>1, ConstantsAssumption DEF Acquire, Granted, Expired, Token, Lease
  <2>2. lease' \in Lease
    BY <1>1, <2>1, ConstantsAssumption DEF Acquire, Lease, Lag
  <2> QED BY <1>1, <2>1, <2>2 DEF Acquire, Move, watchVars, Pc
<1>2. ASSUME NEW w \in Worker, Start(w) PROVE TypeOK'
  BY <1>2 DEF Start, Leave, Move, dbVars, watchVars, Pc, WaitingPc
<1>3. ASSUME NEW w \in Worker, BeginAcquire(w) PROVE TypeOK'
  BY <1>3 DEF BeginAcquire, Goto, Move, dbVars, watchVars, Pc, WaitingPc
<1>4. ASSUME NEW w \in Worker, StoreDecision(w) PROVE TypeOK'
  BY <1>4 DEF StoreDecision, Leave, Move, dbVars, watchVars, Pc, WaitingPc
<1>5. ASSUME NEW w \in Worker, BeginRenew(w) PROVE TypeOK'
  BY <1>5 DEF BeginRenew, Call, Leave, Move, dbVars, watchVars, Pc, WaitingPc
<1>6. ASSUME NEW w \in Worker, ObeyExit(w) PROVE TypeOK'
  BY <1>6 DEF ObeyExit, Call, Leave, Move, dbVars, watchVars, Pc, WaitingPc
<1>7. ASSUME NEW w \in Worker, DecideRun(w) PROVE TypeOK'
  BY <1>7 DEF DecideRun, Goto, Move, dbVars, watchVars, Pc, WaitingPc
<1>8. ASSUME NEW w \in Worker, PreflightRefuses(w) PROVE TypeOK'
  BY <1>8 DEF PreflightRefuses, Leave, Move, dbVars, watchVars, Pc, WaitingPc
<1>9. ASSUME NEW w \in Worker, StartBatch(w) PROVE TypeOK'
  BY <1>9 DEF StartBatch, Call, Move, dbVars, watchVars, Pc, WaitingPc
<1>10. ASSUME NEW w \in Worker, BeginFencedWrite(w) PROVE TypeOK'
  BY <1>10 DEF BeginFencedWrite, Goto, Move, dbVars, watchVars, Pc, WaitingPc
<1>11. ASSUME NEW w \in Worker, FinishBatch(w) PROVE TypeOK'
  BY <1>11 DEF FinishBatch, Leave, Move, dbVars, watchVars, Pc, WaitingPc
<1>12. ASSUME NEW w \in Worker, CycleFails(w) PROVE TypeOK'
  BY <1>12 DEF CycleFails, Leave, Move, dbVars, watchVars, Pc, WaitingPc
<1>13. ASSUME NEW w \in Worker, Interrupt(w) PROVE TypeOK'
  BY <1>13 DEF Interrupt, Call, Leave, Move, dbVars, watchVars, Pc, WaitingPc
<1>14. ASSUME NEW w \in Worker, Exit(w) PROVE TypeOK'
  BY <1>14 DEF Exit, Leave, Move, dbVars, Pc, WaitingPc
<1>15. ASSUME NEW w \in Worker, WatchBegin(w) PROVE TypeOK'
  BY <1>15 DEF WatchBegin, dbVars, loopVars
<1>16. ASSUME NEW w \in Worker, WatchClear(w) PROVE TypeOK'
  BY <1>16 DEF WatchClear, dbVars
<1>17. ASSUME NEW w \in Worker, WatchFails(w) PROVE TypeOK'
  BY <1>17 DEF WatchFails, dbVars, loopVars
<1>18. ASSUME NEW w \in Worker, Renew(w) PROVE TypeOK'
  <2>1. lease' \in Lease
    BY <1>18, ConstantsAssumption DEF Renew, Lease, Lag
  <2> QED BY <1>18, <2>1 DEF Renew, Leave, Move, watchVars, Pc
<1>19. ASSUME NEW w \in Worker, Release(w) PROVE TypeOK'
  <2>1. lease' \in Lease
    BY <1>19, ConstantsAssumption DEF Release, Lease, Lag
  <2> QED BY <1>19, <2>1 DEF Release, Leave, Move, watchVars, Pc
<1>20. ASSUME NEW w \in Worker, ConsumeRunOnce(w) PROVE TypeOK'
  <2>1. control' \in Control
    BY <1>20, ConstantsAssumption DEF ConsumeRunOnce, Control, Request
  <2> QED BY <1>20, <2>1 DEF ConsumeRunOnce, Goto, Leave, Move, watchVars, Pc
<1>21. ASSUME NEW w \in Worker, FencedWrite(w) PROVE TypeOK'
  <2>1. applied' \in [owner : Worker \cup {NoWorker}, token : Token]
    BY <1>21 DEF FencedWrite
  <2> QED BY <1>21, <2>1 DEF FencedWrite, Goto, Move, dbVars, watchVars, Pc
<1>22. ASSUME NEW w \in Worker, WatchRenew(w) PROVE TypeOK'
  <2>1. lease' \in Lease
    BY <1>22, ConstantsAssumption DEF WatchRenew, Lease, Lag
  <2>2. RenewMatches(w, watch[w], watchLag[w]) \in BOOLEAN
    BY DEF RenewMatches
  <2> QED BY <1>22, <2>1, <2>2 DEF WatchRenew, loopVars
<1>23. CASE Tick
  <2>1. lease' \in Lease
    BY <1>23, ConstantsAssumption DEF Tick, Lease
  <2>2. lag' \in [Worker -> Lag] /\ watchLag' \in [Worker -> Lag]
    BY <1>23, ConstantsAssumption DEF Tick, Lag
  <2> QED BY <1>23, <2>1, <2>2 DEF Tick
<1>24. CASE RequestRunOnce \/ \E s \in Commands : RequestState(s)
  <2>1. control' \in Control /\ requests' \in Request
    BY <1>24, ConstantsAssumption DEF RequestRunOnce, RequestState, Control, Request
  <2> QED BY <1>24, <2>1 DEF RequestRunOnce, RequestState, loopVars, watchVars
<1>25. CASE UNCHANGED vars
  BY <1>25 DEF vars, dbVars, loopVars, watchVars
<1> QED
  BY NextCases, <1>1, <1>2, <1>3, <1>4, <1>5, <1>6, <1>7, <1>8, <1>9, <1>10, <1>11, <1>12, <1>13, <1>14, <1>15, <1>16, <1>17, <1>18, <1>19, <1>20, <1>21, <1>22, <1>23, <1>24, <1>25
  DEF QuietStep, WatchStep, OtherStep
(* A quiet step leaves the owner and the token of the row alone, and its   *)
(* worker holds afterwards only tokens it held before.                     *)
Quiet ==
    /\ lease'.owner = lease.owner
    /\ lease'.token = lease.token
    /\ \A v \in Worker : Held(v)' \subseteq Held(v)

(* No action of a worker but acquire gives anybody a token.                *)
LEMMA QuietStepIsQuiet ==
    ASSUME TypeOK, NEW w \in Worker, QuietStep(w)
    PROVE  Quiet
<1> USE DEF TypeOK, Quiet, Held, Lease
<1>1. ASSUME Start(w) PROVE Quiet
  BY <1>1 DEF Start, Leave, Move, dbVars, watchVars
<1>2. ASSUME BeginAcquire(w) PROVE Quiet
  BY <1>2 DEF BeginAcquire, Goto, Move, dbVars, watchVars
<1>3. ASSUME StoreDecision(w) PROVE Quiet
  BY <1>3 DEF StoreDecision, Leave, Move, dbVars, watchVars
<1>4. ASSUME BeginRenew(w) PROVE Quiet
  BY <1>4 DEF BeginRenew, Call, Leave, Move, dbVars, watchVars
<1>5. ASSUME ObeyExit(w) PROVE Quiet
  BY <1>5 DEF ObeyExit, Call, Leave, Move, dbVars, watchVars
<1>6. ASSUME DecideRun(w) PROVE Quiet
  BY <1>6 DEF DecideRun, Goto, Move, dbVars, watchVars
<1>7. ASSUME PreflightRefuses(w) PROVE Quiet
  BY <1>7 DEF PreflightRefuses, Leave, Move, dbVars, watchVars
<1>8. ASSUME StartBatch(w) PROVE Quiet
  BY <1>8 DEF StartBatch, Call, Move, dbVars, watchVars
<1>9. ASSUME BeginFencedWrite(w) PROVE Quiet
  BY <1>9 DEF BeginFencedWrite, Goto, Move, dbVars, watchVars
<1>10. ASSUME FinishBatch(w) PROVE Quiet
  BY <1>10 DEF FinishBatch, Leave, Move, dbVars, watchVars
<1>11. ASSUME CycleFails(w) PROVE Quiet
  BY <1>11 DEF CycleFails, Leave, Move, dbVars, watchVars
<1>12. ASSUME Interrupt(w) PROVE Quiet
  BY <1>12 DEF Interrupt, Call, Leave, Move, dbVars, watchVars
<1>13. ASSUME Exit(w) PROVE Quiet
  BY <1>13 DEF Exit, Leave, Move, dbVars
<1>14. ASSUME Renew(w) PROVE Quiet
  BY <1>14 DEF Renew, Leave, Move, dbVars, watchVars
<1>15. ASSUME Release(w) PROVE Quiet
  BY <1>15 DEF Release, Leave, Move, dbVars, watchVars
<1>16. ASSUME ConsumeRunOnce(w) PROVE Quiet
  BY <1>16 DEF ConsumeRunOnce, Goto, Leave, Move, dbVars, watchVars
<1>17. ASSUME FencedWrite(w) PROVE Quiet
  BY <1>17 DEF FencedWrite, Goto, Move, dbVars, watchVars
<1>18. ASSUME WatchBegin(w) PROVE Quiet
  BY <1>18 DEF WatchBegin, dbVars, loopVars
<1>19. ASSUME WatchClear(w) PROVE Quiet
  BY <1>19 DEF WatchClear, dbVars
<1>20. ASSUME WatchFails(w) PROVE Quiet
  BY <1>20 DEF WatchFails, dbVars, loopVars
<1>21. ASSUME WatchRenew(w) PROVE Quiet
  BY <1>21 DEF WatchRenew, dbVars, loopVars
<1> QED
  BY <1>1, <1>2, <1>3, <1>4, <1>5, <1>6, <1>7, <1>8, <1>9, <1>10, <1>11, <1>12, <1>13, <1>14, <1>15, <1>16, <1>17, <1>18, <1>19, <1>20, <1>21 DEF QuietStep, WatchStep

(* Neither does the operator or the clock.                                 *)
LEMMA OtherStepIsQuiet ==
    ASSUME TypeOK, OtherStep \/ UNCHANGED vars
    PROVE  Quiet
<1>1. CASE Tick
  BY <1>1 DEF Tick, Quiet, Held, TypeOK, Lease
<1>2. CASE RequestRunOnce \/ (\E s \in Commands : RequestState(s)) \/ UNCHANGED vars
  BY <1>2 DEF RequestRunOnce, RequestState, vars, dbVars, loopVars, watchVars, Quiet, Held
<1> QED BY <1>1, <1>2 DEF OtherStep

(* acquire gives w the row's own token if the row was w's, or a newer one; *)
(* nobody else's tokens change.                                            *)
LEMMA AcquireGrants ==
    ASSUME TypeOK, RowOrdered, NEW w \in Worker, Acquire(w)
    PROVE  /\ Held(w)' \subseteq Held(w) \cup ({Granted(w)} \ {None})
           /\ \A v \in Worker \ {w} : Held(v)' = Held(v)
           /\ \/ Granted(w) = None /\ lease' = lease
              \/ /\ Granted(w) = lease.token
                 /\ lease.owner = w
                 /\ lease'.owner = w
                 /\ lease'.token = lease.token
              \/ /\ Granted(w) = lease.token + 1
                 /\ ~Live
                 /\ lease'.owner = w
                 /\ lease'.token = lease.token + 1
<1> USE DEF TypeOK, Lease, Token
<1>1. /\ Held(w)' \subseteq Held(w) \cup ({Granted(w)} \ {None})
      /\ \A v \in Worker \ {w} : Held(v)' = Held(v)
  BY DEF Acquire, Move, Held, watchVars
<1>2. CASE Expired(lag[w])
  <2>1. Granted(w) = lease.token + 1
    BY <1>2 DEF Granted
  <2>2. ~Live
    BY <1>2, ConstantsAssumption DEF Expired, StillValid, Live, Lag, RowOrdered
  <2> QED BY <1>1, <2>1, <2>2, ConstantsAssumption DEF Acquire
<1>3. CASE ~Expired(lag[w])
  BY <1>1, <1>3, ConstantsAssumption DEF Acquire, Granted, Expired
<1> QED BY <1>2, <1>3

(* A cycle past its decision keeps the token acquire gave it, and a batch  *)
(* carries it.                                                             *)
LEMMA DecisionNext == TypeOK /\ DecisionHeld /\ [Next]_vars => DecisionHeld'
<1> SUFFICES ASSUME TypeOK, DecisionHeld, [Next]_vars PROVE DecisionHeld'
  OBVIOUS
<1> USE DEF TypeOK, DecisionHeld, DecidedPc
<1>1. ASSUME NEW w \in Worker, Acquire(w) PROVE DecisionHeld'
  BY <1>1 DEF Acquire, Move
<1>2. ASSUME NEW w \in Worker, Start(w) PROVE DecisionHeld'
  BY <1>2 DEF Start, Leave, Move
<1>3. ASSUME NEW w \in Worker, BeginAcquire(w) PROVE DecisionHeld'
  BY <1>3 DEF BeginAcquire, Goto, Move
<1>4. ASSUME NEW w \in Worker, StoreDecision(w) PROVE DecisionHeld'
  BY <1>4 DEF StoreDecision, Leave, Move
<1>5. ASSUME NEW w \in Worker, BeginRenew(w) PROVE DecisionHeld'
  BY <1>5 DEF BeginRenew, Call, Leave, Move
<1>6. ASSUME NEW w \in Worker, ObeyExit(w) PROVE DecisionHeld'
  BY <1>6 DEF ObeyExit, Call, Leave, Move
<1>7. ASSUME NEW w \in Worker, DecideRun(w) PROVE DecisionHeld'
  BY <1>7 DEF DecideRun, Goto, Move
<1>8. ASSUME NEW w \in Worker, PreflightRefuses(w) PROVE DecisionHeld'
  BY <1>8 DEF PreflightRefuses, Leave, Move
<1>9. ASSUME NEW w \in Worker, StartBatch(w) PROVE DecisionHeld'
  BY <1>9 DEF StartBatch, Call, Move
<1>10. ASSUME NEW w \in Worker, BeginFencedWrite(w) PROVE DecisionHeld'
  BY <1>10 DEF BeginFencedWrite, Goto, Move
<1>11. ASSUME NEW w \in Worker, FinishBatch(w) PROVE DecisionHeld'
  BY <1>11 DEF FinishBatch, Leave, Move
<1>12. ASSUME NEW w \in Worker, CycleFails(w) PROVE DecisionHeld'
  BY <1>12 DEF CycleFails, Leave, Move
<1>13. ASSUME NEW w \in Worker, Interrupt(w) PROVE DecisionHeld'
  BY <1>13 DEF Interrupt, Call, Leave, Move
<1>14. ASSUME NEW w \in Worker, Exit(w) PROVE DecisionHeld'
  BY <1>14 DEF Exit, Leave, Move
<1>15. ASSUME NEW w \in Worker, Renew(w) PROVE DecisionHeld'
  BY <1>15 DEF Renew, Leave, Move
<1>16. ASSUME NEW w \in Worker, Release(w) PROVE DecisionHeld'
  BY <1>16 DEF Release, Leave, Move
<1>17. ASSUME NEW w \in Worker, ConsumeRunOnce(w) PROVE DecisionHeld'
  BY <1>17 DEF ConsumeRunOnce, Goto, Leave, Move
<1>18. ASSUME NEW w \in Worker, FencedWrite(w) PROVE DecisionHeld'
  BY <1>18 DEF FencedWrite, Goto, Move
<1>19. ASSUME NEW w \in Worker, WatchBegin(w) PROVE DecisionHeld'
  BY <1>19 DEF WatchBegin, loopVars
<1>20. ASSUME NEW w \in Worker, WatchClear(w) PROVE DecisionHeld'
  BY <1>20 DEF WatchClear
<1>21. ASSUME NEW w \in Worker, WatchFails(w) PROVE DecisionHeld'
  BY <1>21 DEF WatchFails, loopVars
<1>22. ASSUME NEW w \in Worker, WatchRenew(w) PROVE DecisionHeld'
  BY <1>22 DEF WatchRenew, loopVars
<1>23. CASE OtherStep \/ UNCHANGED vars
  BY <1>23 DEF OtherStep, Tick, RequestRunOnce, RequestState, vars, loopVars
<1> QED
  BY NextCases, <1>1, <1>2, <1>3, <1>4, <1>5, <1>6, <1>7, <1>8, <1>9, <1>10, <1>11, <1>12, <1>13, <1>14, <1>15, <1>16, <1>17, <1>18, <1>19, <1>20, <1>21, <1>22, <1>23 DEF QuietStep, WatchStep

(* The tokens held stay with those they were granted to.                   *)
LEMMA HeldNext ==
    ASSUME IInv, [Next]_vars
    PROVE  HeldTokenIsOwn' /\ TokensDisjoint'
<1> USE DEF IInv
<1>0. \A v \in Worker : Held(v) \subseteq Token \ {None}
  BY DEF Held, TypeOK
<1>1. CASE Quiet
  BY <1>1 DEF Quiet, HeldTokenIsOwn, TokensDisjoint
<1>2. ASSUME NEW w \in Worker, Acquire(w) PROVE HeldTokenIsOwn' /\ TokensDisjoint'
  <2>1. CASE Granted(w) = None /\ lease' = lease
    BY <1>2, <2>1, AcquireGrants DEF HeldTokenIsOwn, TokensDisjoint
  <2>2. CASE /\ Granted(w) = lease.token
             /\ lease.owner = w
             /\ lease'.owner = w
             /\ lease'.token = lease.token
    BY <1>2, <2>2, AcquireGrants DEF HeldTokenIsOwn, TokensDisjoint, TypeOK, Lease, Token
  <2>3. CASE /\ Granted(w) = lease.token + 1
             /\ lease'.owner = w
             /\ lease'.token = lease.token + 1
    <3>1. lease.token \in Nat
      BY ConstantsAssumption DEF TypeOK, Lease, Token
    <3>2. \A v \in Worker : \A t \in Held(v) : t \in Nat /\ t < lease.token + 1
      BY <1>0, <3>1, ConstantsAssumption DEF HeldTokenIsOwn, Token
    <3>3. HeldTokenIsOwn'
      BY <1>2, <2>3, <3>1, <3>2, AcquireGrants DEF HeldTokenIsOwn
    <3>4. TokensDisjoint'
      BY <1>2, <2>3, <3>1, <3>2, AcquireGrants DEF TokensDisjoint
    <3> QED BY <3>3, <3>4
  <2> QED BY <1>2, <2>1, <2>2, <2>3, AcquireGrants
<1> QED BY NextCases, <1>1, <1>2, QuietStepIsQuiet, OtherStepIsQuiet

(* Only FencedWrite touches the history, and only with the row's own owner *)
(* and token.                                                              *)
LEMMA AppliedNext ==
    ASSUME IInv, [Next]_vars
    PROVE  \/ applied' = applied
           \/ applied' = [owner |-> lease.owner, token |-> lease.token]
<1> USE DEF IInv
<1>1. ASSUME NEW w \in Worker, FencedWrite(w)
      PROVE  \/ applied' = applied
             \/ applied' = [owner |-> lease.owner, token |-> lease.token]
  <2>1. arg[w] # None
    BY <1>1 DEF FencedWrite, DecisionHeld, DecidedPc
  <2> QED BY <1>1, <2>1 DEF FencedWrite, RenewMatches
<1>2. ASSUME NEW w \in Worker, QuietStep(w), ~FencedWrite(w) PROVE applied' = applied
  BY <1>2 DEF QuietStep, WatchStep, Start, BeginAcquire, StoreDecision, BeginRenew, Renew,
     ObeyExit, DecideRun, ConsumeRunOnce, PreflightRefuses, StartBatch, BeginFencedWrite,
     FinishBatch, CycleFails, Interrupt, Release, Exit, WatchBegin, WatchRenew, WatchClear,
     WatchFails
<1>3. ASSUME NEW w \in Worker, Acquire(w) PROVE applied' = applied
  BY <1>3 DEF Acquire
<1>4. CASE OtherStep \/ UNCHANGED vars
  BY <1>4 DEF OtherStep, Tick, RequestRunOnce, RequestState, vars
<1> QED BY NextCases, <1>1, <1>2, <1>3, <1>4


(* Nothing can make a row that was never granted live.                     *)
LEMMA UngrantedNotLive ==
    ASSUME IInv, lease.token = 0, Quiet, [Next]_vars
    PROVE  ~Live'
<1> USE DEF IInv, TypeOK, Lease, Lag, Live
<1>0. lease.owner = NoWorker /\ ~Live
  BY DEF RowOrdered
<1>1. ASSUME NEW w \in Worker, Acquire(w) PROVE ~Live'
  <2>1. lease.token + 1 = 1 /\ w # NoWorker
    BY ConstantsAssumption
  <2>2. lease' = lease
    BY <1>0, <1>1, <2>1, AcquireGrants DEF Quiet
  <2> QED BY <1>0, <2>2
<1>2. ASSUME NEW w \in Worker, Renew(w) \/ WatchRenew(w) \/ Release(w) PROVE ~Live'
  BY <1>0, <1>2, ConstantsAssumption DEF Renew, WatchRenew, Release, RenewMatches
<1>3. ASSUME NEW w \in Worker, QuietStep(w), ~(Renew(w) \/ WatchRenew(w) \/ Release(w))
      PROVE ~Live'
  <2>1. lease' = lease
    BY <1>3 DEF QuietStep, WatchStep, Start, BeginAcquire, StoreDecision, BeginRenew,
       ObeyExit, DecideRun, ConsumeRunOnce, PreflightRefuses, StartBatch, BeginFencedWrite,
       FencedWrite, FinishBatch, CycleFails, Interrupt, Exit, WatchBegin, WatchClear,
       WatchFails, dbVars
  <2> QED BY <1>0, <2>1
<1>4. CASE Tick
  BY <1>0, <1>4, ConstantsAssumption DEF Tick
<1>5. CASE RequestRunOnce \/ (\E s \in Commands : RequestState(s)) \/ UNCHANGED vars
  BY <1>0, <1>5 DEF RequestRunOnce, RequestState, vars, dbVars
<1> QED BY NextCases, <1>1, <1>2, <1>3, <1>4, <1>5 DEF OtherStep

(* The row only moves to newer tokens and stays ahead of the accepted      *)
(* writes.                                                                 *)
LEMMA RowNext ==
    ASSUME IInv, [Next]_vars
    PROVE  RowOrdered'
<1> USE DEF IInv
<1>0. lease.token \in Nat /\ applied.token \in Nat
  BY ConstantsAssumption DEF TypeOK, Lease, Token
<1>1. CASE Quiet
  BY <1>0, <1>1, UngrantedNotLive, AppliedNext DEF Quiet, RowOrdered
<1>2. ASSUME NEW w \in Worker, Acquire(w), ~Quiet PROVE RowOrdered'
  <2>1. applied' = applied
    BY <1>2 DEF Acquire
  <2>2. /\ lease'.owner = w
        /\ \/ lease.owner = w /\ lease'.token = lease.token
           \/ lease'.token = lease.token + 1
        \/ lease' = lease
    BY <1>2, AcquireGrants
  <2>3. lease.owner = w => lease.token # 0
    BY ConstantsAssumption DEF RowOrdered
  <2> QED BY <1>0, <2>1, <2>2, <2>3 DEF RowOrdered, Live
<1> QED BY NextCases, <1>1, <1>2, QuietStepIsQuiet, OtherStepIsQuiet
-----------------------------------------------------------------------------
(* The strengthening holds before the first acquire.                       *)
LEMMA IInvInit == Init => IInv
<1> SUFFICES ASSUME Init PROVE IInv
  OBVIOUS
<1>1. TypeOK
  BY TypeInit
<1>2. \A w \in Worker : Held(w) = {}
  BY DEF Init, Held
<1>3. HeldTokenIsOwn /\ TokensDisjoint
  BY <1>2 DEF HeldTokenIsOwn, TokensDisjoint
<1>4. DecisionHeld /\ RowOrdered
  BY DEF Init, DecisionHeld, DecidedPc, RowOrdered, Live
<1> QED BY <1>1, <1>3, <1>4 DEF IInv

(* The strengthening is kept by every step.                                *)
LEMMA IInvNext == IInv /\ [Next]_vars => IInv'
BY TypeNext, DecisionNext, HeldNext, RowNext DEF IInv

(* The strengthening is an invariant of every execution of the workers.    *)
THEOREM Invariance == Spec => []IInv
BY IInvInit, IInvNext, PTL DEF Spec

(* Type correctness of the lease row, the control row and both threads.    *)
THEOREM TypeCorrect == Spec => []TypeOK
<1>1. IInv => TypeOK
  BY DEF IInv
<1> QED BY <1>1, Invariance, PTL

(* acquire never hands a token to two workers: every token in use belongs  *)
(* to one worker, and the row's token only to the row's owner.             *)
THEOREM NoSharedToken == Spec => [](HeldTokenIsOwn /\ TokensDisjoint)
<1>1. IInv => HeldTokenIsOwn /\ TokensDisjoint
  BY DEF IInv
<1> QED BY <1>1, Invariance, PTL

(* _run_batch_once is never reached without a token, whatever the watcher  *)
(* thread did to _fencing_token in the meantime.                           *)
THEOREM BatchesAreFenced == Spec => []BatchKeepsFence
<1>1. IInv => BatchKeepsFence
  BY DEF IInv, DecisionHeld, DecidedPc, BatchKeepsFence
<1> QED BY <1>1, Invariance, PTL

(* A leader that lost its tenure changes nothing after its successor did:  *)
(* accepted writes come in token order, one worker per token.              *)
THEOREM StaleLeaderIsFenced == Spec => FencedWritesOrdered
<1>1. ASSUME IInv, [Next]_vars
      PROVE  [ /\ applied'.token >= applied.token
               /\ applied'.token = applied.token => applied'.owner = applied.owner
             ]_applied
  <2>1. applied.token \in Int /\ lease.token \in Int
    BY <1>1, ConstantsAssumption DEF IInv, TypeOK, Token, Lease
  <2> QED BY <1>1, <2>1, AppliedNext DEF IInv, RowOrdered
<1> QED BY <1>1, Invariance, PTL DEF Spec, FencedWritesOrdered

(* WorkerLeadership implements FencedLease: the initial row maps to the    *)
(* initial abstract lease and every step to a grant, a flip of liveness or *)
(* a stutter.                                                              *)
THEOREM LeadershipRefines == Spec => ImplementsFencedLease
<1>1. Init => Abstract!LeaseInit
  BY DEF Init, Abstract!LeaseInit, Live
<1>2. ASSUME IInv, [Next]_vars
      PROVE  [Abstract!LeaseNext]_(Abstract!leaseVars)
  <2> USE DEF Abstract!LeaseNext, Abstract!leaseVars
  <2>1. CASE Quiet
    <3>1. CASE Live' = Live
      BY <2>1, <3>1 DEF Quiet
    <3>2. CASE Live' # Live
      <4>1. lease.token # 0
        BY <1>2, <2>1, <3>2, UngrantedNotLive DEF IInv, RowOrdered, Live
      <4>2. lease.token > 0
        BY <1>2, <4>1, ConstantsAssumption DEF IInv, TypeOK, Lease, Token
      <4> QED BY <2>1, <3>2, <4>2 DEF Quiet, Abstract!Flip, Live
    <3> QED BY <3>1, <3>2
  <2>2. ASSUME NEW w \in Worker, Acquire(w), ~Quiet
        PROVE  [Abstract!LeaseNext]_(Abstract!leaseVars)
    <3>1. CASE lease' = lease
      BY <3>1 DEF Live
    <3>2. CASE lease.owner = w /\ lease'.owner = w /\ lease'.token = lease.token
      <4>1. lease.token > 0
        BY <1>2, <3>2, ConstantsAssumption DEF IInv, TypeOK, Lease, Token, RowOrdered
      <4> QED BY <3>2, <4>1 DEF Abstract!Flip, Live
    <3>3. CASE ~Live /\ lease'.owner = w /\ lease'.token = lease.token + 1
      <4>1. lease'.token \in Token
        BY <1>2, TypeNext DEF IInv, TypeOK, Lease
      <4>2. lease.token < MaxToken
        BY <1>2, <3>3, <4>1, ConstantsAssumption DEF IInv, TypeOK, Lease, Token
      <4> QED BY <3>3, <4>2 DEF Abstract!Grant, Live
    <3> QED BY <1>2, <2>2, <3>1, <3>2, <3>3, AcquireGrants DEF IInv
  <2> QED BY <1>2, <2>1, <2>2, NextCases, QuietStepIsQuiet, OtherStepIsQuiet DEF IInv
<1> QED BY <1>1, <1>2, Invariance, PTL DEF Spec, ImplementsFencedLease, Abstract!LeaseSpec

-----------------------------------------------------------------------------
(* Run-once requests.  A request is a timestamp of its own: neither the    *)
(* control row nor a loop's copy of it holds one that was not made yet,    *)
(* and only a loop that saw a request goes on to consume it.               *)
Requested ==
    /\ control.runOnce <= requests
    /\ \A w \in Worker : /\ ctl[w].runOnce <= requests
                         /\ pc[w] = "consuming" => ctl[w].runOnce # None

(* A step that begins to serve no request.                                 *)
ServesNoneNew ==
    /\ control'.runOnce = control.runOnce
    /\ requests' = requests
    /\ \A w \in Worker :
         /\ ctl'[w].runOnce <= requests
         /\ pc'[w] = "consuming" => ctl'[w].runOnce # None
         /\ Serving(w)' => Serving(w) /\ ctl'[w].runOnce = ctl[w].runOnce

(* Every step of a worker but consume_run_once begins to serve no request. *)
LEMMA LoopServesNoneNew ==
    ASSUME TypeOK, Requested, NEW w \in Worker,
           Acquire(w) \/ QuietStep(w), ~ConsumeRunOnce(w)
    PROVE  ServesNoneNew
<1> USE DEF TypeOK, Requested, ServesNoneNew, Serving
<1> DEFINE Same == control' = control /\ requests' = requests
<1>0. 0 <= requests
  BY ConstantsAssumption DEF Request
<1>1. CASE UNCHANGED <<pc, ctl, control, requests>>
  BY <1>1
<1>2. ASSUME NEW p \in Pc \ {"preflight", "batch", "writing", "consuming"}, NEW c,
             c.runOnce <= requests, Same,
             pc' = [pc EXCEPT ![w] = p], ctl' = [ctl EXCEPT ![w] = c]
      PROVE  ServesNoneNew
  BY <1>2
<1>3. DefaultControl.runOnce <= requests
  BY <1>0 DEF DefaultControl
<1>4. ASSUME NEW p \in Pc \ {"preflight", "batch", "writing", "consuming"}, NEW a, NEW d,
             Same, Move(w, p, a, d, DefaultControl) \/ Move(w, p, a, d, ctl[w])
                      \/ Move(w, p, a, d, control)
      PROVE  ServesNoneNew
  BY <1>2, <1>3, <1>4 DEF Move
<1>5. ASSUME Start(w) \/ BeginAcquire(w) \/ Acquire(w) \/ StoreDecision(w) \/ BeginRenew(w)
               \/ Renew(w) \/ ObeyExit(w)
      PROVE  ServesNoneNew
  BY <1>4, <1>5 DEF Start, BeginAcquire, Acquire, StoreDecision, BeginRenew, Renew, ObeyExit,
     Goto, Call, Leave, dbVars, Pc, WaitingPc
<1>6. ASSUME PreflightRefuses(w) \/ FinishBatch(w) \/ CycleFails(w) \/ Interrupt(w)
               \/ Release(w) \/ Exit(w)
      PROVE  ServesNoneNew
  BY <1>4, <1>6 DEF PreflightRefuses, FinishBatch, CycleFails, Interrupt, Release, Exit,
     Call, Leave, dbVars, Pc, WaitingPc
<1>7. ASSUME StartBatch(w) \/ BeginFencedWrite(w) \/ FencedWrite(w)
      PROVE  ServesNoneNew
  BY <1>7 DEF StartBatch, BeginFencedWrite, FencedWrite, Goto, Call, Move, dbVars
<1>8. CASE DecideRun(w)
  BY <1>8 DEF DecideRun, Goto, Move, dbVars
<1>9. CASE WatchStep(w)
  BY <1>1, <1>9 DEF WatchStep, WatchBegin, WatchRenew, WatchClear, WatchFails, dbVars, loopVars
<1> QED BY <1>5, <1>6, <1>7, <1>8, <1>9 DEF QuietStep

(* However consume_run_once, the operator's requests and the crashes of    *)
(* several workers interleave, a request is served by one loop at most and *)
(* is gone from the control row by then.                                   *)
LEMMA ServedNext ==
    TypeOK /\ Requested /\ RunOnceServedOnce /\ [Next]_vars
        => Requested' /\ RunOnceServedOnce'
<1> SUFFICES ASSUME TypeOK, Requested, RunOnceServedOnce, [Next]_vars
             PROVE  Requested' /\ RunOnceServedOnce'
  OBVIOUS
<1>0. /\ control.runOnce \in Int /\ requests \in Int
      /\ \A w \in Worker : ctl[w] \in Control /\ ctl[w].runOnce \in Int
  BY ConstantsAssumption DEF TypeOK, Control, Request
<1>1. CASE ServesNoneNew
  BY <1>1 DEF ServesNoneNew, Requested, RunOnceServedOnce
<1>2. ASSUME NEW w \in Worker, ConsumeRunOnce(w) PROVE Requested' /\ RunOnceServedOnce'
  <2> USE DEF Requested, RunOnceServedOnce, Serving, TypeOK, ConsumeRunOnce, Move
  <2>1. CASE control.runOnce = ctl[w].runOnce
    <3>1. /\ control' = [control EXCEPT !.runOnce = None] /\ requests' = requests
          /\ ctl' = ctl /\ pc' = [pc EXCEPT ![w] = "preflight"]
      BY <1>2, <2>1 DEF Goto
    <3>2. control'.runOnce = None /\ 0 <= requests
      BY <3>1, ConstantsAssumption DEF Control, Request
    <3>3. Requested'
      BY <1>0, <3>1, <3>2
    <3> QED BY <1>2, <2>1, <3>1, <3>2, <3>3
  <2>2. CASE control.runOnce # ctl[w].runOnce
    BY <1>2, <2>2, ConstantsAssumption DEF Leave, DefaultControl, Request
  <2> QED BY <2>1, <2>2
<1>3. CASE RequestRunOnce
  BY <1>0, <1>3, ConstantsAssumption
  DEF RequestRunOnce, Requested, RunOnceServedOnce, Serving, loopVars, TypeOK, Control, Request
<1>4. CASE Tick \/ (\E s \in Commands : RequestState(s)) \/ UNCHANGED vars
  <2>1. ServesNoneNew
    BY <1>4 DEF Tick, RequestState, vars, dbVars, loopVars, ServesNoneNew, Requested, Serving,
       TypeOK, Control
  <2> QED BY <1>1, <2>1
<1> QED BY NextCases, <1>1, <1>2, <1>3, <1>4, LoopServesNoneNew DEF OtherStep

(* consume_run_once is a compare-and-clear on the request that was read: a *)
(* run-once request never makes two leaders run a batch.                   *)
THEOREM RequestServedOnce == Spec => []RunOnceServedOnce
<1>1. Init => Requested /\ RunOnceServedOnce
  BY DEF Init, Requested, RunOnceServedOnce, Serving, DefaultControl
<1> QED BY <1>1, TypeCorrect, ServedNext, PTL DEF Spec
=============================================================================
