----------------------------- MODULE QuotaProofs -----------------------------
(***************************************************************************)
(* What the quota manager promises, proved for any number of callers,      *)
(* branches, models and window kinds, and any limits.                      *)
(***************************************************************************)
EXTENDS Quota, NaturalLemmas

(* What the calls in S have of f together, f being a number for each call. *)
Units(f, S) == UNION {{c} \X (1..f[c]) : c \in S}
Total(f, S) == Cardinality(Units(f, S))

(* The units of one call. *)
LEMMA UnitsOfOne ==
    ASSUME NEW c, NEW n \in Nat
    PROVE  IsFiniteSet({c} \X (1..n)) /\ Cardinality({c} \X (1..n)) = n
<1>1. IsFiniteSet({c}) /\ Cardinality({c}) = 1
  BY FS_Singleton
<1>2. IsFiniteSet(1..n) /\ Cardinality(1..n) = IF 1 > n THEN 0 ELSE n - 1 + 1
  BY FS_Interval
<1>3. Cardinality(1..n) = n
  BY <1>2
<1>4. /\ IsFiniteSet({c} \X (1..n))
      /\ Cardinality({c} \X (1..n)) = Cardinality({c}) * Cardinality(1..n)
  BY <1>1, <1>2, FS_Product
<1>5. Cardinality({c} \X (1..n)) = 1 * n
  BY <1>1, <1>3, <1>4
<1> QED
  BY <1>4, <1>5

(* Finitely many calls have finitely many units. *)
LEMMA UnitsFinite ==
    ASSUME NEW S \in SUBSET Call, NEW f \in [Call -> Nat]
    PROVE  IsFiniteSet(Units(f, S)) /\ Total(f, S) \in Nat
<1> DEFINE g == [c \in S |-> {c} \X (1..f[c])]
           T == {{c} \X (1..f[c]) : c \in S}
<1>1. IsFiniteSet(S)
  BY FS_Subset, QuotaAssumption
<1>2. g \in Surjection(S, T)
  BY DEF Surjection
<1>3. IsFiniteSet(T)
  BY <1>1, <1>2, FS_Surjection
<1>4. ASSUME NEW t \in T PROVE IsFiniteSet(t)
  <2>1. PICK c \in S : t = {c} \X (1..f[c])
    OBVIOUS
  <2>2. f[c] \in Nat
    OBVIOUS
  <2> QED
    BY <2>1, <2>2, UnitsOfOne
<1>5. IsFiniteSet(UNION T)
  BY <1>3, <1>4, FS_UNION
<1> QED
  BY <1>5, FS_CardinalityType DEF Units, Total

(* Units depend on the numbers of the calls in S only. *)
LEMMA TotalSame ==
    ASSUME NEW S, NEW f, NEW g, \A c \in S : f[c] = g[c]
    PROVE  Total(f, S) = Total(g, S)
BY DEF Total, Units

(* No call, no units.                                                      *)
LEMMA TotalOfNone == ASSUME NEW f PROVE Total(f, {}) = 0
BY FS_EmptySet DEF Total, Units

(* One call has the units its number says.                                 *)
LEMMA TotalOfOne ==
    ASSUME NEW c \in Call, NEW f \in [Call -> Nat]
    PROVE  Total(f, {c}) = f[c]
<1>1. Units(f, {c}) = {c} \X (1..f[c])
  BY DEF Units
<1>2. f[c] \in Nat
  OBVIOUS
<1> QED
  BY <1>1, <1>2, UnitsOfOne DEF Total

(* A set of calls splits into two. *)
LEMMA TotalSplit ==
    ASSUME NEW S \in SUBSET Call, NEW D \in SUBSET Call, NEW f \in [Call -> Nat]
    PROVE  Total(f, S) = Total(f, S \ D) + Total(f, S \cap D)
<1>1. /\ IsFiniteSet(Units(f, S \ D)) /\ Total(f, S \ D) \in Nat
      /\ IsFiniteSet(Units(f, S \cap D)) /\ Total(f, S \cap D) \in Nat
  BY UnitsFinite
<1>2. Units(f, S) = Units(f, S \ D) \cup Units(f, S \cap D)
  BY DEF Units
<1>3. Units(f, S \ D) \cap Units(f, S \cap D) = {}
  BY DEF Units
<1>4. Cardinality(Units(f, S)) = Cardinality(Units(f, S \ D)) + Cardinality(Units(f, S \cap D)) - Cardinality({})
  BY <1>1, <1>2, <1>3, FS_Union
<1> QED
  BY <1>1, <1>4, FS_EmptySet DEF Total

(* More calls with no smaller numbers have no less. *)
LEMMA TotalAtMost ==
    ASSUME NEW S \in SUBSET Call, NEW T \in SUBSET Call, S \subseteq T,
           NEW f \in [Call -> Nat], NEW g \in [Call -> Nat], \A c \in S : f[c] <= g[c]
    PROVE  Total(f, S) <= Total(g, T)
<1>1. IsFiniteSet(Units(g, T))
  BY UnitsFinite
<1>2. Units(f, S) \subseteq Units(g, T)
  BY DEF Units
<1> QED
  BY <1>1, <1>2, FS_Subset DEF Total

(* Calls that have nothing have nothing together. *)
LEMMA TotalOfZeros ==
    ASSUME NEW S \in SUBSET Call, NEW f \in [Call -> Nat], \A c \in S : f[c] = 0
    PROVE  Total(f, S) = 0
<1>1. Units(f, S) = {}
  BY DEF Units
<1> QED
  BY <1>1, FS_EmptySet DEF Total

(* Subsets of Call can be counted. *)
LEMMA Countable ==
    ASSUME NEW S \in SUBSET Call
    PROVE  IsFiniteSet(S) /\ Cardinality(S) \in Nat
BY FS_Subset, FS_CardinalityType, QuotaAssumption

(* A set of calls is what is in D and what is not.                         *)
LEMMA CountSplit ==
    ASSUME NEW S \in SUBSET Call, NEW D \in SUBSET Call
    PROVE  Cardinality(S) = Cardinality(S \ D) + Cardinality(S \cap D)
<1>1. IsFiniteSet(S) /\ Cardinality(S) \in Nat /\ Cardinality(S \cap D) \in Nat
  BY Countable
<1>2. Cardinality(S \ D) = Cardinality(S) - Cardinality(S \cap D)
  BY <1>1, FS_Difference
<1> QED
  BY <1>1, <1>2

-----------------------------------------------------------------------------
(* Types.                                                                  *)

(* The parts of TypeOK: a row of each table. *)
Policy  == [present : BOOLEAN, enabled : BOOLEAN, limited : BOOLEAN, cooldown : Nat]
Columns == [creq : Nat, rreq : Nat, ctok : Nat, utok : Nat, rtok : Nat]
Leases  == [state : {"none", "committed", "released", "expired"} \cup Live,
            limit : Key \cup {None}, at : Time, windows : SUBSET Window, sent : BOOLEAN]
Calls   == [st : {"idle", "queued", "ok", "limited", "error", "handled"}, used : Nat, known : BOOLEAN]
BranchStatus == {"planned", "admitted", "blocked", "running", "completed", "failed"}
Statuses == {"planned", "running", "blocked", "completed", "partial", "failed"}
Stages  == {"admit", "undo", "dispatch", "done", "raised", "dead"}

(* TypeOK says that each table holds rows of its type.                     *)
LEMMA Types ==
    TypeOK <=> /\ policy \in [Key -> Policy]
               /\ window \in [Window -> Columns]
               /\ lease \in [Call -> Leases]
               /\ branch \in [Call -> BranchStatus]
               /\ required \in [Exec -> Nat]
               /\ status \in [Exec -> Statuses]
               /\ stage \in [Exec -> Stages]
               /\ call \in [Call -> Calls]
               /\ now \in Time
               /\ faults \in 0..MaxFaults
BY DEF TypeOK, Policy, Columns, Leases, Calls, BranchStatus, Statuses, Stages

(* A plan names calls, and a call is in one plan. *)
LEMMA Plans ==
    /\ \A e \in Exec : InPlan(e) \subseteq Call
    /\ \A e, f \in Exec : \A c \in InPlan(e) : c \in InPlan(f) => e = f
    /\ \A e \in Exec : Plan[e] \in Seq(Call) /\ Plan[e] # <<>>
<1>1. \A e \in Exec : Plan[e] \in Seq(Call) /\ Plan[e] # <<>>
  BY QuotaAssumption
<1>2. \A e \in Exec : InPlan(e) \subseteq Call
  BY <1>1 DEF InPlan
<1>3. \A e, f \in Exec : \A c \in InPlan(e) : c \in InPlan(f) => e = f
  BY QuotaAssumption
<1> QED
  BY <1>1, <1>2, <1>3

(* First is one of the branches it is looked for among. *)
LEMMA FirstIn ==
    ASSUME NEW e \in Exec, NEW s, With(e, s) # {}
    PROVE  First(e, s) \in InPlan(e) /\ First(e, s) \in Call /\ branch[First(e, s)] = s
<1> DEFINE I == {i \in DOMAIN Plan[e] : branch[Plan[e][i]] = s}
<1>1. Plan[e] \in Seq(Call) /\ InPlan(e) \subseteq Call
  BY Plans
<1>2. I \subseteq Nat
  BY <1>1
<1>3. I # {}
  BY DEF With, InPlan
<1>4. \E m \in I : \A n \in I : m <= n
  <2> HIDE DEF I
  <2> QED
    BY <1>2, <1>3, LeastNatural
<1>5. Min(I) \in I
  BY <1>4 DEF Min
<1> QED
  BY <1>1, <1>5 DEF First, InPlan

(* The windows of a policy now are windows. *)
LEMMA BoundsAreWindows ==
    ASSUME now \in Time, NEW k \in Key
    PROVE  Bounds(k, now) \subseteq Window /\ \A w \in Bounds(k, now) : w.limit = k
BY DEF Bounds, Window

(* A usage window belongs to a policy key and counts one kind of period.   *)
LEMMA WindowIsOfPolicy == \A w \in Window : w.limit \in Key /\ w.kind \in Kind
BY DEF Window

(* The policy in force for a call is present.                              *)
LEMMA EffectiveTyped ==
    ASSUME NEW c \in Call
    PROVE  /\ Effective(c) \in Key \cup {None}
           /\ Effective(c) # None => policy[Effective(c)].present
BY QuotaAssumption DEF Effective, Key

(* Subtraction that stops at zero. *)
LEMMA MinusTyped ==
    ASSUME NEW a \in Nat, NEW b \in Nat
    PROVE  Minus(a, b) \in Nat /\ Minus(a, b) <= a /\ (b <= a => Minus(a, b) = a - b)
BY DEF Minus

(* The tokens a set of leases reserves are a sum of naturals.              *)
LEMMA TokensTyped == ASSUME NEW S \in SUBSET Call PROVE TokensOf(S) = Total(Tokens, S) /\ TokensOf(S) \in Nat
<1>1. TokensOf(S) = Total(Tokens, S)
  BY DEF TokensOf, Total, Units
<1> QED
  BY <1>1, UnitsFinite, QuotaAssumption

(* Giving back only changes columns. *)
LEMMA UnmappedTyped ==
    ASSUME TypeOK, NEW S \in SUBSET Call
    PROVE  Unmapped(S) \in [Window -> Columns]
<1> SUFFICES ASSUME NEW w \in Window PROVE Unmapped(S)[w] \in Columns
  BY DEF Unmapped
<1> DEFINE mine == {c \in S : w \in lease[c].windows}
           sent == {c \in mine : lease[c].state = "dispatched"}
           q == Minus(window[w].rreq, Cardinality(mine \ sent))
           t == Minus(window[w].rtok, TokensOf(mine))
           u == window[w].utok + TokensOf(sent)
<1>1. window[w] \in Columns
  BY Types
<1>2. mine \ sent \in SUBSET Call /\ mine \in SUBSET Call /\ sent \in SUBSET Call
  OBVIOUS
<1>3. Unmapped(S)[w] = [window[w] EXCEPT !.rreq = q, !.rtok = t, !.utok = u]
  BY DEF Unmapped
<1> HIDE DEF mine, sent
<1>4. /\ window[w].rreq \in Nat /\ window[w].rtok \in Nat /\ window[w].utok \in Nat
      /\ Cardinality(mine \ sent) \in Nat /\ TokensOf(mine) \in Nat /\ TokensOf(sent) \in Nat
  BY <1>1, <1>2, Countable, TokensTyped DEF Columns
<1>5. q \in Nat /\ t \in Nat /\ u \in Nat
  BY <1>4, MinusTyped
<1> HIDE DEF q, t, u
<1> QED
  BY <1>1, <1>3, <1>5 DEF Columns

(* The windows a lease of branch c is taken in. *)
NewWindows(c) == IF Effective(c) # None /\ policy[Effective(c)].enabled THEN Bounds(Effective(c), now) ELSE {}

(* A lease is mapped to windows of the policy in force.                    *)
LEMMA NewWindowsTyped ==
    ASSUME TypeOK, NEW c \in Call
    PROVE  /\ NewWindows(c) \in SUBSET Window
           /\ \A w \in NewWindows(c) : w.limit = Effective(c)
<1>1. now \in Time /\ (Effective(c) # None => Effective(c) \in Key)
  BY EffectiveTyped, Types
<1> QED
  BY <1>1, BoundsAreWindows DEF NewWindows

(* Each of the four transactions on leases keeps the types of the tables. *)
LEMMA AcquiredTyped ==
    ASSUME TypeOK, NEW c \in Call, Acquired(c)
    PROVE  window' \in [Window -> Columns] /\ lease' \in [Call -> Leases]
<1> DEFINE left == Unmapped(Stale)
           k == Effective(c)
<1>1. left \in [Window -> Columns]
  BY UnmappedTyped DEF Stale
<1>2. /\ window \in [Window -> Columns] /\ lease \in [Call -> Leases] /\ now \in Time
      /\ k \in Key \cup {None} /\ NewWindows(c) \in SUBSET Window /\ Tokens[c] \in Nat
  BY Types, EffectiveTyped, NewWindowsTyped, QuotaAssumption
<1>3. /\ lease' = [d \in Call |-> IF d = c THEN [state |-> "active", limit |-> k, at |-> now,
                                                 windows |-> NewWindows(c), sent |-> FALSE]
                                  ELSE IF d \in Stale THEN [lease[d] EXCEPT !.state = "expired"]
                                  ELSE lease[d]]
      /\ window' = [w \in Window |-> IF w \in NewWindows(c)
                                     THEN [left[w] EXCEPT !.rreq = @ + 1, !.rtok = @ + Tokens[c]]
                                     ELSE left[w]]
  BY DEF Acquired, NewWindows
<1> HIDE DEF left, k
<1>4. window' \in [Window -> Columns]
  <2>1. ASSUME NEW w \in Window
        PROVE  [left[w] EXCEPT !.rreq = @ + 1, !.rtok = @ + Tokens[c]] \in Columns
    <3>1. left[w] \in Columns
      BY <1>1
    <3>2. left[w].rreq + 1 \in Nat /\ left[w].rtok + Tokens[c] \in Nat
      BY <3>1, <1>2 DEF Columns
    <3> QED
      BY <3>1, <3>2 DEF Columns
  <2> QED
    BY <2>1, <1>1, <1>3
<1>5. lease' \in [Call -> Leases]
  BY <1>2, <1>3 DEF Leases, Live
<1> QED
  BY <1>4, <1>5

(* mark_dispatched keeps the types: what was reserved becomes committed.   *)
LEMMA DispatchedTyped ==
    ASSUME TypeOK, NEW c \in Call, Dispatched(c)
    PROVE  window' \in [Window -> Columns] /\ lease' \in [Call -> Leases]
<1>1. window \in [Window -> Columns] /\ lease \in [Call -> Leases]
  BY Types
<1>2. ASSUME NEW w \in Window
      PROVE  [window[w] EXCEPT !.creq = @ + 1, !.rreq = Minus(@, 1)] \in Columns
  <2> DEFINE sent == window[w].creq + 1
             left == Minus(window[w].rreq, 1)
  <2>1. window[w] \in Columns /\ sent \in Nat
    BY <1>1 DEF Columns
  <2>2. left \in Nat
    BY <2>1, MinusTyped DEF Columns
  <2>3. [window[w] EXCEPT !.creq = @ + 1, !.rreq = Minus(@, 1)]
            = [window[w] EXCEPT !.creq = sent, !.rreq = left]
    OBVIOUS
  <2> HIDE DEF sent, left
  <2> QED
    BY <2>1, <2>2, <2>3 DEF Columns
<1>3. window' \in [Window -> Columns]
  BY <1>1, <1>2 DEF Dispatched
<1>4. lease' \in [Call -> Leases]
  BY <1>1 DEF Dispatched, Leases, Live
<1> QED
  BY <1>3, <1>4

(* commit keeps the types, whether the usage is known or estimated.        *)
LEMMA CommittedTyped ==
    ASSUME TypeOK, NEW c \in Call, Committed(c)
    PROVE  window' \in [Window -> Columns] /\ lease' \in [Call -> Leases]
<1> DEFINE one == IF lease[c].state = "active" THEN 1 ELSE 0
           use == IF call[c].known THEN call[c].used ELSE 0
           more == IF call[c].known THEN 0 ELSE Tokens[c]
           left(w) == IF lease[c].state = "active" THEN Minus(window[w].rreq, 1) ELSE window[w].rreq
           tok(w) == Minus(window[w].rtok, Tokens[c])
<1>1. window \in [Window -> Columns] /\ lease \in [Call -> Leases]
  BY Types
<1>2. call[c].used \in Nat /\ Tokens[c] \in Nat
  BY Types, QuotaAssumption DEF Calls
<1>3. one \in Nat /\ use \in Nat /\ more \in Nat
  BY <1>2
<1>4. ASSUME NEW w \in Window
      PROVE  [window[w] EXCEPT !.creq = @ + one, !.rreq = left(w), !.rtok = tok(w),
                               !.ctok = @ + use, !.utok = @ + more] \in Columns
  <2>1. window[w] \in Columns
    BY <1>1
  <2>2. left(w) \in Nat /\ tok(w) \in Nat
    BY <2>1, <1>2, MinusTyped DEF Columns
  <2> HIDE DEF one, use, more, left, tok
  <2>3. /\ window[w].creq + one \in Nat /\ window[w].ctok + use \in Nat
        /\ window[w].utok + more \in Nat
    BY <2>1, <1>3 DEF Columns
  <2> QED
    BY <2>1, <2>2, <2>3 DEF Columns
<1>5. window' = [w \in Window |-> IF w \in lease[c].windows
                                  THEN [window[w] EXCEPT !.creq = @ + one, !.rreq = left(w),
                                                         !.rtok = tok(w), !.ctok = @ + use, !.utok = @ + more]
                                  ELSE window[w]]
  BY DEF Committed
<1>6. lease' \in [Call -> Leases]
  BY <1>1 DEF Committed, Leases, Live
<1> HIDE DEF one, use, more, left, tok
<1>7. window' \in [Window -> Columns]
  BY <1>1, <1>4, <1>5
<1> QED
  BY <1>6, <1>7

(* release keeps the types.                                                *)
LEMMA ReleasedTyped ==
    ASSUME TypeOK, NEW c \in Call, Released(c)
    PROVE  window' \in [Window -> Columns] /\ lease' \in [Call -> Leases]
<1>1. window \in [Window -> Columns] /\ lease \in [Call -> Leases] /\ Unmapped({c}) \in [Window -> Columns]
  BY Types, UnmappedTyped
<1>2. window' \in [Window -> Columns]
  BY <1>1 DEF Released
<1>3. lease' \in [Call -> Leases]
  BY <1>1 DEF Released, Leases, Live
<1> QED
  BY <1>2, <1>3

(* A cooldown keeps the types, and whether limits were configured. *)
LEMMA RateLimitedTyped ==
    ASSUME policy \in [Key -> Policy], now \in Time, NEW k \in Key, NEW r \in Nat, RateLimited(k, r)
    PROVE  policy' \in [Key -> Policy]
<1>1. AnyModel \in Key /\ now + r \in Nat
  BY DEF Key, Time
<1>2. CASE policy[k].present
  BY <1>1, <1>2 DEF RateLimited, Policy
<1>3. CASE ~policy[k].present
  <2> DEFINE parent == policy[AnyModel]
             on == parent.present => parent.enabled
             bounded == parent.present /\ parent.limited
  <2>1. parent \in Policy /\ on \in BOOLEAN /\ bounded \in BOOLEAN
    BY <1>1
  <2>2. policy' = [policy EXCEPT ![k] = [present |-> TRUE, enabled |-> on,
                                         limited |-> bounded, cooldown |-> now + r]]
    BY <1>3 DEF RateLimited
  <2> HIDE DEF on, bounded
  <2> QED
    BY <1>1, <2>1, <2>2 DEF Policy
<1> QED
  BY <1>2, <1>3

(* Every step keeps the types. *)
LEMMA TypeStep == TypeOK /\ [Next]_vars => TypeOK'
<1> SUFFICES ASSUME TypeOK, [Next]_vars PROVE TypeOK'
  OBVIOUS
<1>1. /\ policy \in [Key -> Policy] /\ window \in [Window -> Columns] /\ lease \in [Call -> Leases]
      /\ branch \in [Call -> BranchStatus] /\ required \in [Exec -> Nat]
      /\ status \in [Exec -> Statuses] /\ stage \in [Exec -> Stages] /\ call \in [Call -> Calls]
      /\ now \in Time /\ faults \in 0..MaxFaults
  BY Types
<1> DEFINE Keeps ==
       /\ policy' \in [Key -> Policy] /\ window' \in [Window -> Columns]
       /\ lease' \in [Call -> Leases] /\ branch' \in [Call -> BranchStatus]
       /\ required' \in [Exec -> Nat] /\ status' \in [Exec -> Statuses]
       /\ stage' \in [Exec -> Stages] /\ call' \in [Call -> Calls]
       /\ now' \in Time /\ faults' \in 0..MaxFaults
<1>2. Keeps
  <2>1. ASSUME NEW e \in Exec, NEW ok \in BOOLEAN, AdmitBranch(e, ok) PROVE Keeps
    <3> DEFINE c == First(e, "planned")
    <3>1. c \in Call /\ UNCHANGED <<policy, required, status, stage, call, now, faults>>
      BY <2>1, FirstIn DEF AdmitBranch
    <3>2. \/ Acquired(c) /\ Mark(c, "admitted")
          \/ Mark(c, "blocked") /\ UNCHANGED <<window, lease>>
      BY <2>1 DEF AdmitBranch
    <3> HIDE DEF c
    <3>3. window' \in [Window -> Columns] /\ lease' \in [Call -> Leases]
      BY <3>1, <3>2, <1>1, AcquiredTyped
    <3>4. branch' \in [Call -> BranchStatus]
      BY <3>2, <1>1 DEF Mark, BranchStatus
    <3> QED
      BY <3>1, <3>3, <3>4, <1>1
  <2>2. ASSUME NEW e \in Exec, Begin(e) PROVE Keeps
    <3>1. PICK n \in 1..Len(Plan[e]) : required' = [required EXCEPT ![e] = n]
      BY <2>2 DEF Begin
    <3>2. n \in Nat
      BY Plans
    <3>3. stage' \in [Exec -> Stages] /\ status' \in [Exec -> Statuses]
      BY <2>2, <1>1 DEF Begin, To, Stages, Statuses
    <3> QED
      BY <3>1, <3>2, <3>3, <2>2, <1>1 DEF Begin, db
  <2>3. ASSUME NEW e \in Exec, Undo(e) PROVE Keeps
    <3>1. CASE With(e, "admitted") # {}
      <4> DEFINE c == First(e, "admitted")
      <4>1. /\ c \in Call /\ Released(c) /\ Mark(c, "blocked")
            /\ UNCHANGED <<policy, required, status, stage, call, now, faults>>
        BY <2>3, <3>1, FirstIn DEF Undo
      <4> HIDE DEF c
      <4>2. branch' \in [Call -> BranchStatus]
        BY <4>1, <1>1 DEF Mark, BranchStatus
      <4> QED
        BY <4>1, <4>2, <1>1, ReleasedTyped
    <3>2. CASE With(e, "admitted") = {}
      BY <2>3, <3>2, <1>1 DEF Undo, To, Stages, Statuses
    <3> QED
      BY <3>1, <3>2
  <2>4. ASSUME NEW e \in Exec, DispatchBranch(e) PROVE Keeps
    <3> DEFINE c == First(e, "admitted")
    <3>1. c \in Call /\ UNCHANGED <<policy, required, status, now, faults>>
      BY <2>4, FirstIn DEF DispatchBranch
    <3>2. \/ Dispatched(c) /\ Mark(c, "running") /\ Answered(c, "queued") /\ UNCHANGED stage
          \/ /\ Mark(c, "running") /\ Answered(c, "error")
             /\ UNCHANGED <<stage, window, lease>>
          \/ To(e, "raised") /\ UNCHANGED <<branch, call, window, lease>>
      BY <2>4 DEF DispatchBranch
    <3> HIDE DEF c
    <3>3. window' \in [Window -> Columns] /\ lease' \in [Call -> Leases]
      BY <3>1, <3>2, <1>1, DispatchedTyped
    <3>4. branch' \in [Call -> BranchStatus] /\ stage' \in [Exec -> Stages]
      BY <3>2, <1>1 DEF Mark, To, BranchStatus, Stages
    <3>5. call' \in [Call -> Calls]
      BY <3>2, <1>1 DEF Answered, Calls
    <3> QED
      BY <3>1, <3>3, <3>4, <3>5, <1>1
  <2>5. ASSUME NEW e \in Exec, PlanFails(e) PROVE Keeps
    <3>1. branch' \in [Call -> BranchStatus]
      BY <2>5, <1>1 DEF PlanFails, Mark, BranchStatus
    <3>2. call' \in [Call -> Calls]
      BY <2>5, <1>1 DEF PlanFails, Answered, Calls
    <3> QED
      BY <2>5, <3>1, <3>2, <1>1 DEF PlanFails, db
  <2>6. ASSUME NEW e \in Exec, Finish(e) PROVE Keeps
    BY <2>6, <1>1 DEF Finish, To, db, Stages, Statuses
  <2>7. ASSUME NEW e \in Exec, NEW c \in Call, Complete(e, c) PROVE Keeps
    <3>1. UNCHANGED <<policy, required, status, stage, now, faults>>
      BY <2>7 DEF Complete
    <3>2. \/ Committed(c) /\ Mark(c, "completed") /\ Answered(c, "handled")
          \/ Answered(c, "error") /\ UNCHANGED <<window, lease, branch>>
      BY <2>7 DEF Complete
    <3>3. window' \in [Window -> Columns] /\ lease' \in [Call -> Leases]
      BY <3>2, <1>1, CommittedTyped
    <3>4. branch' \in [Call -> BranchStatus]
      BY <3>2, <1>1 DEF Mark, BranchStatus
    <3>5. PICK s \in {"handled", "error"} : call' = [call EXCEPT ![c].st = s]
      BY <3>2 DEF Answered
    <3>6. call' \in [Call -> Calls]
      BY <3>5, <1>1 DEF Calls
    <3> QED
      BY <3>1, <3>3, <3>4, <3>6, <1>1
  <2>8. ASSUME NEW e \in Exec, NEW c \in Call, RecordRateLimit(e, c) PROVE Keeps
    <3>1. PICK r \in RetryAfter : RateLimited(ModelOf[c], r)
      BY <2>8 DEF RecordRateLimit
    <3>2. r \in Nat /\ ModelOf[c] \in Key
      BY QuotaAssumption DEF RetryAfter, Key
    <3>4. policy' \in [Key -> Policy]
      BY <3>1, <3>2, <1>1, RateLimitedTyped
    <3>3. call' \in [Call -> Calls]
      BY <2>8, <1>1 DEF RecordRateLimit, Answered, Calls
    <3> QED
      BY <2>8, <3>3, <3>4, <1>1 DEF RecordRateLimit
  <2>9. ASSUME NEW e \in Exec, NEW c \in Call, Fail(e, c) PROVE Keeps
    <3>1. window' \in [Window -> Columns] /\ lease' \in [Call -> Leases]
      BY <2>9, ReleasedTyped DEF Fail
    <3>2. branch' \in [Call -> BranchStatus]
      BY <2>9, <1>1 DEF Fail, Mark, BranchStatus
    <3>3. call' \in [Call -> Calls]
      BY <2>9, <1>1 DEF Fail, Answered, Calls
    <3> QED
      BY <2>9, <3>1, <3>2, <3>3, <1>1 DEF Fail
  <2>10. ASSUME NEW e \in Exec, Crash(e) PROVE Keeps
    <3>1. faults' \in 0..MaxFaults
      BY <2>10, <1>1, QuotaAssumption DEF Crash, Fault
    <3> QED
      BY <2>10, <3>1, <1>1 DEF Crash, To, db, Stages
  <2>11. ASSUME NEW c \in Call, Invoke(c) PROVE Keeps
    <3>1. Tokens[c] \in Nat
      BY QuotaAssumption
    <3>2. \E r \in Calls : call' = [call EXCEPT ![c] = r]
      <4>1. ASSUME NEW n \in 0..Tokens[c], call' = [call EXCEPT ![c] = [st |-> "ok", used |-> n, known |-> TRUE]]
            PROVE  <3>2
        <5>1. [st |-> "ok", used |-> n, known |-> TRUE] \in Calls
          BY <3>1 DEF Calls
        <5> QED
          BY <4>1, <5>1
      <4>2. ASSUME NEW s \in {"ok", "limited", "error"},
                   call' = [call EXCEPT ![c] = [st |-> s, used |-> Tokens[c], known |-> FALSE]]
            PROVE  <3>2
        <5>1. [st |-> s, used |-> Tokens[c], known |-> FALSE] \in Calls
          BY <3>1 DEF Calls
        <5> QED
          BY <4>2, <5>1
      <4> QED
        BY <2>11, <4>1, <4>2 DEF Invoke
    <3>3. call' \in [Call -> Calls]
      BY <3>2, <1>1
    <3> QED
      BY <2>11, <3>3, <1>1 DEF Invoke, db
  <2>16. ASSUME NEW c \in Call, NimRateLimited(c) PROVE Keeps
    <3>1. PICK r \in RetryAfter : RateLimited(ModelOf[c], r)
      BY <2>16 DEF NimRateLimited
    <3>2. r \in Nat /\ ModelOf[c] \in Key
      BY QuotaAssumption DEF RetryAfter, Key
    <3>3. policy' \in [Key -> Policy]
      BY <3>1, <3>2, <1>1, RateLimitedTyped
    <3>4. [st |-> "error", used |-> Tokens[c], known |-> FALSE] \in Calls
      BY QuotaAssumption DEF Calls
    <3>5. call' \in [Call -> Calls]
      BY <2>16, <3>4, <1>1 DEF NimRateLimited
    <3> QED
      BY <2>16, <3>3, <3>5, <1>1 DEF NimRateLimited
  <2>12. ASSUME NEW k \in Key, CreateLimit(k) \/ PatchLimit(k) PROVE Keeps
    <3>1. faults' \in 0..MaxFaults
      BY <2>12, <1>1, QuotaAssumption DEF CreateLimit, PatchLimit, Fault
    <3>2. policy' \in [Key -> Policy]
      <4>1. CASE CreateLimit(k)
        BY <4>1, <1>1 DEF CreateLimit, Policy
      <4>2. CASE PatchLimit(k)
        <5>1. PICK b \in BOOLEAN : policy' = [policy EXCEPT ![k].enabled = b]
          BY <4>2 DEF PatchLimit
        <5> QED
          BY <5>1, <1>1 DEF Policy
      <4> QED
        BY <2>12, <4>1, <4>2
    <3> QED
      BY <2>12, <3>1, <3>2, <1>1 DEF CreateLimit, PatchLimit
  <2>13. ASSUME CliRateLimit PROVE Keeps
    <3>1. faults' \in 0..MaxFaults
      BY <2>13, <1>1, QuotaAssumption DEF CliRateLimit, Fault
    <3>2. policy' \in [Key -> Policy]
      BY <2>13, <1>1, RateLimitedTyped DEF CliRateLimit, Key
    <3> QED
      BY <2>13, <3>1, <3>2, <1>1 DEF CliRateLimit
  <2>14. ASSUME Tick PROVE Keeps
    BY <2>14, <1>1, QuotaAssumption DEF Tick, db, Time
  <2>15. ASSUME UNCHANGED vars PROVE Keeps
    BY <2>15, <1>1 DEF vars, db
  <2> QED
    BY <2>1, <2>2, <2>3, <2>4, <2>5, <2>6, <2>7, <2>8, <2>9, <2>10, <2>11, <2>12, <2>13, <2>14, <2>15, <2>16
       DEF Next, Caller
<1> QED
  BY <1>2 DEF TypeOK, Policy, Columns, Leases, Calls, BranchStatus, Statuses, Stages

(* The tables start with rows of their types.                              *)
LEMMA TypeStart == Init => TypeOK
<1> SUFFICES ASSUME Init PROVE TypeOK
  OBVIOUS
<1>1. 0 \in Time /\ 0 \in 0..MaxFaults
  BY QuotaAssumption DEF Time
<1>2. NoLease \in Leases /\ NoCall \in Calls /\ Empty \in Columns
  BY <1>1 DEF NoLease, NoCall, Empty, Leases, Calls, Columns
<1>3. policy \in [Key -> Policy]
  BY DEF Init, Policy
<1> QED
  BY <1>1, <1>2, <1>3, Types DEF Init, BranchStatus, Statuses, Stages

(* The tables have the declared types: every step writes rows of theirs.   *)
THEOREM TypeCorrect == Spec => []TypeOK
BY TypeStart, TypeStep, PTL DEF Spec
-----------------------------------------------------------------------------
(* What a step can do to one branch c of caller e, its request and lease.  *)

Put(c, s, l, r) == branch'[c] = s /\ lease'[c] = l /\ call'[c] = r
Collects(e) == stage[e] = "dispatch" /\ \A c \in InPlan(e) : branch[c] # "admitted"

Expires(c) == c \in Stale /\ Put(c, branch[c], [lease[c] EXCEPT !.state = "expired"], call[c])
Admits(e, c) ==
    /\ stage[e] = "admit" /\ branch[c] = "planned"
    /\ Put(c, "admitted", [state |-> "active", limit |-> Effective(c), at |-> now,
                           windows |-> NewWindows(c), sent |-> FALSE], call[c])
Blocks(e, c) == stage[e] = "admit" /\ branch[c] = "planned" /\ Put(c, "blocked", lease[c], call[c])
Left(c) == IF lease[c].state = "expired" THEN lease[c] ELSE [lease[c] EXCEPT !.state = "released"]
Undoes(e, c) == stage[e] = "undo" /\ branch[c] = "admitted" /\ Put(c, "blocked", Left(c), call[c])
Sends(e, c) ==
    /\ stage[e] = "dispatch" /\ branch[c] = "admitted" /\ lease[c].state = "active"
    /\ Put(c, "running", [lease[c] EXCEPT !.state = "dispatched", !.sent = TRUE],
           [call[c] EXCEPT !.st = "queued"])
Breaks(e, c) ==
    /\ stage[e] = "dispatch" /\ branch[c] = "admitted"
    /\ Put(c, "running", lease[c], [call[c] EXCEPT !.st = "error"])
Answers(c) ==
    /\ call[c].st = "queued"
    /\ branch'[c] = branch[c] /\ lease'[c] = lease[c]
    /\ call'[c].st \in {"ok", "limited", "error"} /\ call'[c].used \in 0..Tokens[c]
    /\ ~call'[c].known => call'[c].used = Tokens[c]
Completes(e, c) ==
    /\ Collects(e) /\ call[c].st = "ok" /\ lease[c].state \in Live
    /\ Put(c, "completed", [lease[c] EXCEPT !.state = "committed"], [call[c] EXCEPT !.st = "handled"])
Errs(c) == call[c].st \in {"ok", "limited"} /\ Put(c, branch[c], lease[c], [call[c] EXCEPT !.st = "error"])
Fails(e, c) ==
    /\ Collects(e) /\ call[c].st = "error"
    /\ Put(c, "failed", Left(c), [call[c] EXCEPT !.st = "handled"])

Fate(e, c) ==
    \/ Put(c, branch[c], lease[c], call[c])
    \/ Expires(c) \/ Admits(e, c) \/ Blocks(e, c) \/ Undoes(e, c) \/ Sends(e, c) \/ Breaks(e, c)
    \/ Answers(c) \/ Completes(e, c) \/ Errs(c) \/ Fails(e, c)

(* A transaction for one branch d changes the row of d only, but for the   *)
(* leases that expire with an acquire.                                     *)
LEMMA Rows ==
    ASSUME TypeOK, NEW d \in Call, NEW c \in Call
    PROVE  /\ \A s : Mark(d, s) => branch'[c] = IF c = d THEN s ELSE branch[c]
           /\ \A s : Answered(d, s) => call'[c] = IF c = d THEN [call[c] EXCEPT !.st = s] ELSE call[c]
           /\ Acquired(d) => lease'[c] = IF c = d THEN [state |-> "active", limit |-> Effective(d), at |-> now,
                                                        windows |-> NewWindows(d), sent |-> FALSE]
                                         ELSE IF c \in Stale THEN [lease[c] EXCEPT !.state = "expired"]
                                         ELSE lease[c]
           /\ Dispatched(d) => lease'[c] = IF c = d THEN [lease[c] EXCEPT !.state = "dispatched", !.sent = TRUE]
                                           ELSE lease[c]
           /\ Committed(d) => lease'[c] = IF c = d THEN [lease[c] EXCEPT !.state = "committed"] ELSE lease[c]
           /\ Released(d) => lease'[c] = IF c = d THEN Left(c) ELSE lease[c]
<1>1. branch \in [Call -> BranchStatus] /\ call \in [Call -> Calls] /\ lease \in [Call -> Leases]
  BY Types
<1>2. \A s : Mark(d, s) => branch'[c] = IF c = d THEN s ELSE branch[c]
  BY <1>1 DEF Mark
<1>3. \A s : Answered(d, s) => call'[c] = IF c = d THEN [call[c] EXCEPT !.st = s] ELSE call[c]
  BY <1>1 DEF Answered
<1>4. Acquired(d) => lease'[c] = IF c = d THEN [state |-> "active", limit |-> Effective(d), at |-> now,
                                                windows |-> NewWindows(d), sent |-> FALSE]
                                 ELSE IF c \in Stale THEN [lease[c] EXCEPT !.state = "expired"]
                                 ELSE lease[c]
  BY DEF Acquired, NewWindows
<1>5. Dispatched(d) => lease'[c] = IF c = d THEN [lease[c] EXCEPT !.state = "dispatched", !.sent = TRUE]
                                   ELSE lease[c]
  BY <1>1 DEF Dispatched
<1>6. Committed(d) => lease'[c] = IF c = d THEN [lease[c] EXCEPT !.state = "committed"] ELSE lease[c]
  BY <1>1 DEF Committed
<1>7. Released(d) => lease'[c] = IF c = d THEN Left(c) ELSE lease[c]
  BY <1>1 DEF Released, Left
<1> QED
  BY <1>2, <1>3, <1>4, <1>5, <1>6, <1>7

(* An execution that is collecting has a branch to collect.                *)
LEMMA CollectsAll == ASSUME NEW e \in Exec, Collecting(e) PROVE Collects(e)
BY DEF Collecting, Collects, With

(* What a step does to a branch of an execution is one of the listed       *)
(* fates: the row, its lease and its call change together or not at all.   *)
LEMMA Fates ==
    ASSUME TypeOK, [Next]_vars, NEW e \in Exec, NEW c \in InPlan(e)
    PROVE  Fate(e, c)
<1>1. c \in Call
  BY Plans
<1> DEFINE Rests == Put(c, branch[c], lease[c], call[c])
<1>2. ASSUME NEW f \in Exec, NEW ok \in BOOLEAN, AdmitBranch(f, ok) PROVE Fate(e, c)
  <2> DEFINE d == First(f, "planned")
  <2>1. /\ d \in Call /\ d \in InPlan(f) /\ branch[d] = "planned" /\ stage[f] = "admit" /\ UNCHANGED call
        /\ \/ Acquired(d) /\ Mark(d, "admitted")
           \/ Mark(d, "blocked") /\ UNCHANGED <<window, lease>>
    BY <1>2, FirstIn DEF AdmitBranch
  <2> HIDE DEF d
  <2>2. d = c => e = f
    BY <2>1, Plans
  <2>3. CASE Acquired(d) /\ Mark(d, "admitted")
    <3>1. /\ branch'[c] = IF c = d THEN "admitted" ELSE branch[c]
          /\ lease'[c] = IF c = d THEN [state |-> "active", limit |-> Effective(c), at |-> now,
                                        windows |-> NewWindows(c), sent |-> FALSE]
                         ELSE IF c \in Stale THEN [lease[c] EXCEPT !.state = "expired"]
                         ELSE lease[c]
      BY <2>1, <2>3, <1>1, Rows
    <3> QED
      BY <2>1, <2>2, <3>1 DEF Fate, Put, Admits, Expires
  <2>4. CASE Mark(d, "blocked") /\ UNCHANGED <<window, lease>>
    <3>1. branch'[c] = IF c = d THEN "blocked" ELSE branch[c]
      BY <2>1, <2>4, <1>1, Rows
    <3> QED
      BY <2>1, <2>2, <2>4, <3>1 DEF Fate, Put, Blocks
  <2> QED
    BY <2>1, <2>3, <2>4
<1>3. ASSUME NEW f \in Exec, Begin(f) PROVE Fate(e, c)
  BY <1>3 DEF Begin, db, Fate, Put
<1>4. ASSUME NEW f \in Exec, Undo(f) PROVE Fate(e, c)
  <2>1. CASE With(f, "admitted") # {}
    <3> DEFINE d == First(f, "admitted")
    <3>1. /\ d \in Call /\ d \in InPlan(f) /\ branch[d] = "admitted" /\ stage[f] = "undo"
          /\ Released(d) /\ Mark(d, "blocked") /\ UNCHANGED call
      BY <1>4, <2>1, FirstIn DEF Undo
    <3> HIDE DEF d
    <3>2. d = c => e = f
      BY <3>1, Plans
    <3>3. /\ branch'[c] = IF c = d THEN "blocked" ELSE branch[c]
          /\ lease'[c] = IF c = d THEN Left(c) ELSE lease[c]
      BY <3>1, <1>1, Rows
    <3> QED
      BY <3>1, <3>2, <3>3 DEF Fate, Put, Undoes
  <2>2. CASE With(f, "admitted") = {}
    BY <1>4, <2>2 DEF Undo, Fate, Put
  <2> QED
    BY <2>1, <2>2
<1>5. ASSUME NEW f \in Exec, DispatchBranch(f) \/ PlanFails(f) PROVE Fate(e, c)
  <2> DEFINE d == First(f, "admitted")
  <2>1. /\ d \in Call /\ d \in InPlan(f) /\ branch[d] = "admitted" /\ stage[f] = "dispatch"
        /\ \/ lease[d].state = "active" /\ Dispatched(d) /\ Mark(d, "running") /\ Answered(d, "queued")
           \/ UNCHANGED lease /\ Mark(d, "running") /\ Answered(d, "error")
           \/ UNCHANGED <<lease, branch, call>>
    BY <1>5, FirstIn DEF DispatchBranch, PlanFails, db
  <2> HIDE DEF d
  <2>2. d = c => e = f
    BY <2>1, Plans
  <2>6. d \in Call
    BY <2>1
  <2>3. CASE lease[d].state = "active" /\ Dispatched(d) /\ Mark(d, "running") /\ Answered(d, "queued")
    <3>1. branch'[c] = IF c = d THEN "running" ELSE branch[c]
      BY <2>6, <2>3, <1>1, Rows
    <3>2. lease'[c] = IF c = d THEN [lease[c] EXCEPT !.state = "dispatched", !.sent = TRUE] ELSE lease[c]
      BY <2>6, <2>3, <1>1, Rows
    <3>3. call'[c] = IF c = d THEN [call[c] EXCEPT !.st = "queued"] ELSE call[c]
      BY <2>6, <2>3, <1>1, Rows
    <3> QED
      BY <2>1, <2>2, <2>3, <3>1, <3>2, <3>3 DEF Fate, Put, Sends
  <2>4. CASE UNCHANGED lease /\ Mark(d, "running") /\ Answered(d, "error")
    <3>1. branch'[c] = IF c = d THEN "running" ELSE branch[c]
      BY <2>6, <2>4, <1>1, Rows
    <3>2. call'[c] = IF c = d THEN [call[c] EXCEPT !.st = "error"] ELSE call[c]
      BY <2>6, <2>4, <1>1, Rows
    <3> QED
      BY <2>1, <2>2, <2>4, <3>1, <3>2 DEF Fate, Put, Breaks
  <2>5. CASE UNCHANGED <<lease, branch, call>>
    BY <2>5 DEF Fate, Put
  <2> QED
    BY <2>1, <2>3, <2>4, <2>5
<1>6. ASSUME NEW f \in Exec, Finish(f) PROVE Fate(e, c)
  BY <1>6 DEF Finish, db, Fate, Put
<1>7. ASSUME NEW f \in Exec, NEW d \in Call, Complete(f, d) PROVE Fate(e, c)
  <2>1. /\ d \in InPlan(f) /\ Collects(f) /\ call[d].st = "ok"
        /\ \/ lease[d].state \in Live /\ Committed(d) /\ Mark(d, "completed") /\ Answered(d, "handled")
           \/ Answered(d, "error") /\ UNCHANGED <<lease, branch>>
    BY <1>7, CollectsAll DEF Complete
  <2>2. d = c => e = f
    BY <2>1, Plans
  <2>3. CASE lease[d].state \in Live /\ Committed(d) /\ Mark(d, "completed") /\ Answered(d, "handled")
    <3>1. /\ branch'[c] = IF c = d THEN "completed" ELSE branch[c]
          /\ lease'[c] = IF c = d THEN [lease[c] EXCEPT !.state = "committed"] ELSE lease[c]
          /\ call'[c] = IF c = d THEN [call[c] EXCEPT !.st = "handled"] ELSE call[c]
      BY <2>1, <2>3, <1>1, Rows
    <3> QED
      BY <2>1, <2>2, <2>3, <3>1 DEF Fate, Put, Completes
  <2>4. CASE Answered(d, "error") /\ UNCHANGED <<lease, branch>>
    <3>1. call'[c] = IF c = d THEN [call[c] EXCEPT !.st = "error"] ELSE call[c]
      BY <2>1, <2>4, <1>1, Rows
    <3> QED
      BY <2>1, <2>4, <3>1 DEF Fate, Put, Errs
  <2> QED
    BY <2>1, <2>3, <2>4
<1>8. ASSUME NEW f \in Exec, NEW d \in Call, RecordRateLimit(f, d) PROVE Fate(e, c)
  <2>1. /\ call[d].st = "limited" /\ Answered(d, "error") /\ UNCHANGED <<lease, branch>>
    BY <1>8 DEF RecordRateLimit
  <2>2. call'[c] = IF c = d THEN [call[c] EXCEPT !.st = "error"] ELSE call[c]
    BY <2>1, <1>1, Rows
  <2> QED
    BY <2>1, <2>2 DEF Fate, Put, Errs
<1>9. ASSUME NEW f \in Exec, NEW d \in Call, Fail(f, d) PROVE Fate(e, c)
  <2>1. /\ d \in InPlan(f) /\ Collects(f) /\ call[d].st = "error"
        /\ Released(d) /\ Mark(d, "failed") /\ Answered(d, "handled")
    BY <1>9, CollectsAll DEF Fail
  <2>2. d = c => e = f
    BY <2>1, Plans
  <2>3. /\ branch'[c] = IF c = d THEN "failed" ELSE branch[c]
        /\ lease'[c] = IF c = d THEN Left(c) ELSE lease[c]
        /\ call'[c] = IF c = d THEN [call[c] EXCEPT !.st = "handled"] ELSE call[c]
    BY <2>1, <1>1, Rows
  <2> QED
    BY <2>1, <2>2, <2>3 DEF Fate, Put, Fails
<1>10. ASSUME NEW d \in Call, Invoke(d) PROVE Fate(e, c)
  <2>1. call \in [Call -> Calls] /\ Tokens[d] \in Nat
    BY Types, QuotaAssumption
  <2>2. call[d].st = "queued" /\ UNCHANGED <<lease, branch>>
    BY <1>10 DEF Invoke, db
  <2>3. c # d => call'[c] = call[c]
    BY <1>10, <1>1, <2>1 DEF Invoke
  <2>4. /\ call'[d].st \in {"ok", "limited", "error"} /\ call'[d].used \in 0..Tokens[d]
        /\ ~call'[d].known => call'[d].used = Tokens[d]
    BY <1>10, <2>1 DEF Invoke
  <2> QED
    BY <2>2, <2>3, <2>4 DEF Fate, Put, Answers
<1>13. ASSUME NEW d \in Call, NimRateLimited(d) PROVE Fate(e, c)
  <2>1. call \in [Call -> Calls] /\ Tokens[d] \in Nat
    BY Types, QuotaAssumption
  <2>2. /\ call[d].st = "queued" /\ UNCHANGED <<lease, branch>>
        /\ call' = [call EXCEPT ![d] = [st |-> "error", used |-> Tokens[d], known |-> FALSE]]
    BY <1>13 DEF NimRateLimited
  <2>3. c # d => call'[c] = call[c]
    BY <2>1, <2>2
  <2>4. call'[d].st = "error" /\ call'[d].used = Tokens[d] /\ call'[d].used \in 0..Tokens[d]
    BY <2>1, <2>2
  <2> QED
    BY <2>2, <2>3, <2>4 DEF Fate, Put, Answers
<1>11. ASSUME UNCHANGED <<lease, branch, call>> PROVE Fate(e, c)
  BY <1>11 DEF Fate, Put
<1>12. \/ UNCHANGED <<lease, branch, call>>
       \/ \E f \in Exec : \/ \E ok \in BOOLEAN : AdmitBranch(f, ok)
                          \/ Begin(f) \/ Undo(f) \/ DispatchBranch(f) \/ PlanFails(f) \/ Finish(f)
                          \/ \E d \in Call : Complete(f, d) \/ RecordRateLimit(f, d) \/ Fail(f, d)
       \/ \E d \in Call : Invoke(d) \/ NimRateLimited(d)
  BY DEF Next, Caller, vars, db, Crash, CreateLimit, PatchLimit, CliRateLimit, Tick
<1> QED
  BY <1>2, <1>3, <1>4, <1>5, <1>6, <1>7, <1>8, <1>9, <1>10, <1>11, <1>12, <1>13

-----------------------------------------------------------------------------
(* Branches, requests and leases go together.                              *)

(* Which lease a branch of each status has. *)
Follows(c) ==
    /\ branch[c] = "planned" => lease[c] = NoLease
    /\ branch[c] = "admitted" => lease[c].state \in {"active", "expired"} /\ ~lease[c].sent
    /\ branch[c] = "running" => lease[c].state \in {"active", "dispatched", "expired"}
    /\ branch[c] = "completed" => lease[c].state = "committed"
    /\ branch[c] = "failed" => lease[c].state \in {"released", "expired"}
    /\ branch[c] = "blocked" => lease[c].state \in {"none", "released", "expired"}
    /\ lease[c].state \in {"none", "active"} => ~lease[c].sent
    /\ lease[c].state \in {"dispatched", "committed"} => lease[c].sent

(* Which request: none before the branch runs, at the provider only what   *)
(* was counted as sent, and never more used than was reserved.             *)
CallFollows(c) ==
    /\ branch[c] \in {"planned", "admitted", "blocked"} => call[c] = NoCall
    /\ branch[c] = "running" <=> call[c].st \in {"queued", "ok", "limited", "error"}
    /\ call[c].st \in {"queued", "ok", "limited"} => lease[c].sent
    /\ call[c].st = "queued" => call[c].used = 0
    /\ call[c].used <= Tokens[c]
    /\ call[c].used # 0 => lease[c].sent

Coherent == \A c \in Call : Follows(c) /\ CallFollows(c)

(* What the stage of the caller says of the status of each of its branches. *)
Staged(e, c) ==
    /\ stage[e] \in {"undo", "dispatch", "raised", "done"} => branch[c] # "planned"
    /\ stage[e] \in {"admit", "undo"} => branch[c] \notin {"running", "completed", "failed"}
    /\ stage[e] = "done" => branch[c] \notin {"admitted", "running"}

Reported(e) ==
    status[e] \in {"completed", "partial"} =>
        stage[e] = "done" /\ Cardinality(With(e, "completed")) >= required[e]

InStep == \A e \in Exec : Reported(e) /\ \A c \in InPlan(e) : Staged(e, c)

(* Every fate keeps branch, lease and call in agreement.                   *)
LEMMA CoherentStep ==
    ASSUME TypeOK, Coherent, [Next]_vars
    PROVE  Coherent'
<1> SUFFICES ASSUME NEW c \in Call PROVE Follows(c)' /\ CallFollows(c)'
  BY DEF Coherent
<1>1. PICK e \in Exec : c \in InPlan(e)
  BY QuotaAssumption
<1>2. lease[c] \in Leases /\ branch[c] \in BranchStatus /\ call[c] \in Calls /\ Tokens[c] \in Nat
  BY Types, QuotaAssumption
<1>3. Follows(c) /\ CallFollows(c)
  BY DEF Coherent
<1>4. Fate(e, c)
  BY <1>1, Fates
<1>5. CASE Put(c, branch[c], lease[c], call[c])
  BY <1>3, <1>5 DEF Put, Follows, CallFollows
<1>6. CASE Expires(c)
  <2>1. lease[c].state \in Live /\ lease'[c] = [lease[c] EXCEPT !.state = "expired"]
    BY <1>6 DEF Expires, Put, Stale
  <2>2. lease'[c].state = "expired" /\ lease'[c].sent = lease[c].sent
    BY <2>1, <1>2 DEF Leases
  <2>3. branch'[c] = branch[c] /\ call'[c] = call[c]
    BY <1>6 DEF Expires, Put
  <2>4. branch[c] \in {"admitted", "running"}
    BY <2>1, <1>2, <1>3 DEF Follows, Live, BranchStatus, NoLease
  <2> QED
    BY <2>2, <2>3, <2>4, <1>3 DEF Follows, CallFollows
<1>7. CASE Admits(e, c)
  <2>1. /\ branch'[c] = "admitted" /\ call'[c] = call[c] /\ branch[c] = "planned"
        /\ lease'[c].state = "active" /\ lease'[c].sent = FALSE
    BY <1>7 DEF Admits, Put
  <2>2. call[c] = NoCall
    BY <2>1, <1>3 DEF CallFollows
  <2> QED
    BY <2>1, <2>2, <1>2 DEF Follows, CallFollows, NoCall
<1>8. CASE Blocks(e, c)
  BY <1>8, <1>3 DEF Blocks, Put, Follows, CallFollows, NoLease
<1>9. CASE Undoes(e, c)
  <2>1. branch'[c] = "blocked" /\ call'[c] = call[c] /\ branch[c] = "admitted"
    BY <1>9 DEF Undoes, Put
  <2>2. lease'[c].state \in {"released", "expired"} /\ lease'[c].sent = lease[c].sent
    BY <1>9, <1>2 DEF Undoes, Put, Left, Leases
  <2> QED
    BY <2>1, <2>2, <1>3 DEF Follows, CallFollows, NoCall
<1>10. CASE Sends(e, c)
  <2>1. branch'[c] = "running" /\ branch[c] = "admitted"
    BY <1>10 DEF Sends, Put
  <2>2. lease'[c].state = "dispatched" /\ lease'[c].sent
    BY <1>10, <1>2 DEF Sends, Put, Leases
  <2>3. call'[c].st = "queued" /\ call'[c].used = call[c].used
    BY <1>10, <1>2 DEF Sends, Put, Calls
  <2>4. call[c].used = 0
    BY <2>1, <1>3 DEF CallFollows, NoCall
  <2> QED
    BY <2>1, <2>2, <2>3, <2>4, <1>2 DEF Follows, CallFollows
<1>11. CASE Breaks(e, c)
  <2>1. branch'[c] = "running" /\ branch[c] = "admitted" /\ lease'[c] = lease[c]
    BY <1>11 DEF Breaks, Put
  <2>2. call'[c].st = "error" /\ call'[c].used = call[c].used
    BY <1>11, <1>2 DEF Breaks, Put, Calls
  <2> QED
    BY <2>1, <2>2, <1>3 DEF Follows, CallFollows, NoCall
<1>12. CASE Answers(c)
  <2>1. /\ branch'[c] = branch[c] /\ lease'[c] = lease[c] /\ call[c].st = "queued"
        /\ call'[c].st \in {"ok", "limited", "error"} /\ call'[c].used <= Tokens[c]
    BY <1>12 DEF Answers
  <2>2. branch[c] = "running" /\ lease[c].sent
    BY <2>1, <1>3 DEF CallFollows
  <2> QED
    BY <2>1, <2>2, <1>3 DEF Follows, CallFollows
<1>13. CASE Completes(e, c)
  <2>1. branch'[c] = "completed" /\ call[c].st = "ok"
    BY <1>13 DEF Completes, Put
  <2>2. lease'[c].state = "committed" /\ lease'[c].sent = lease[c].sent
    BY <1>13, <1>2 DEF Completes, Put, Leases
  <2>3. call'[c].st = "handled" /\ call'[c].used = call[c].used
    BY <1>13, <1>2 DEF Completes, Put, Calls
  <2> QED
    BY <2>1, <2>2, <2>3, <1>3 DEF Follows, CallFollows
<1>14. CASE Errs(c)
  <2>1. branch'[c] = branch[c] /\ lease'[c] = lease[c] /\ call[c].st \in {"ok", "limited"}
    BY <1>14 DEF Errs, Put
  <2>2. call'[c].st = "error" /\ call'[c].used = call[c].used
    BY <1>14, <1>2 DEF Errs, Put, Calls
  <2> QED
    BY <2>1, <2>2, <1>3 DEF Follows, CallFollows
<1>15. CASE Fails(e, c)
  <2>1. branch'[c] = "failed" /\ call[c].st = "error"
    BY <1>15 DEF Fails, Put
  <2>2. lease'[c].state \in {"released", "expired"} /\ lease'[c].sent = lease[c].sent
    BY <1>15, <1>2 DEF Fails, Put, Left, Leases
  <2>3. call'[c].st = "handled" /\ call'[c].used = call[c].used
    BY <1>15, <1>2 DEF Fails, Put, Calls
  <2> QED
    BY <2>1, <2>2, <2>3, <1>3 DEF Follows, CallFollows
<1> QED
  BY <1>4, <1>5, <1>6, <1>7, <1>8, <1>9, <1>10, <1>11, <1>12, <1>13, <1>14, <1>15 DEF Fate

(* What a step can do to caller e: nothing, or it only moves e on.         *)
Moves(e, s, t) == stage'[e] = s /\ status'[e] = t

Turns(e) ==
    \/ stage[e] = "admit" /\ With(e, "planned") = {} /\ Moves(e, "undo", status[e])
    \/ stage[e] = "admit" /\ With(e, "planned") = {} /\ Moves(e, "dispatch", "running")
    \/ stage[e] = "undo" /\ With(e, "admitted") = {} /\ Moves(e, "done", "blocked")
    \/ stage[e] = "dispatch" /\ Moves(e, "raised", status[e]) /\ required'[e] = required[e]
    \/ /\ Collects(e) /\ With(e, "running") = {}
       /\ \E t \in {"failed", "completed", "partial"} :
             /\ Moves(e, "done", t)
             /\ t # "failed" => Cardinality(With(e, "completed")) >= required[e]
       /\ required'[e] = required[e]
    \/ stage[e] \notin {"done", "dead"} /\ Moves(e, "dead", status[e]) /\ required'[e] = required[e]

(* What a step does to an execution: it moves on with its branches, or     *)
(* turns to its next stage and touches none.                               *)
LEMMA StageFates ==
    ASSUME TypeOK, [Next]_vars, NEW e \in Exec
    PROVE  \/ Moves(e, stage[e], status[e]) /\ required'[e] = required[e]
           \/ UNCHANGED <<branch, lease, call>> /\ Turns(e)
<1> DEFINE Goal == \/ Moves(e, stage[e], status[e]) /\ required'[e] = required[e]
                   \/ UNCHANGED <<branch, lease, call>> /\ Turns(e)
<1>1. stage \in [Exec -> Stages] /\ status \in [Exec -> Statuses] /\ required \in [Exec -> Nat]
  BY Types
<1>2. ASSUME NEW f \in Exec, Begin(f) PROVE Goal
  <2>1. /\ stage[f] = "admit" /\ With(f, "planned") = {} /\ UNCHANGED <<branch, lease, call>>
        /\ \/ stage' = [stage EXCEPT ![f] = "undo"] /\ UNCHANGED status
           \/ stage' = [stage EXCEPT ![f] = "dispatch"] /\ status' = [status EXCEPT ![f] = "running"]
        /\ \E n : required' = [required EXCEPT ![f] = n]
    BY <1>2 DEF Begin, To, db
  <2> QED
    BY <2>1, <1>1 DEF Turns, Moves
<1>3. ASSUME NEW f \in Exec, Undo(f) PROVE Goal
  <2>1. CASE With(f, "admitted") # {}
    BY <1>3, <2>1 DEF Undo, Moves
  <2>2. CASE With(f, "admitted") = {}
    <3>1. /\ stage[f] = "undo" /\ UNCHANGED <<branch, lease, call, required>>
          /\ stage' = [stage EXCEPT ![f] = "done"] /\ status' = [status EXCEPT ![f] = "blocked"]
      BY <1>3, <2>2 DEF Undo, To
    <3> QED
      BY <2>2, <3>1, <1>1 DEF Turns, Moves
  <2> QED
    BY <2>1, <2>2
<1>4. ASSUME NEW f \in Exec, DispatchBranch(f) PROVE Goal
  <2>1. /\ stage[f] = "dispatch" /\ UNCHANGED <<required, status>>
        /\ \/ UNCHANGED stage
           \/ stage' = [stage EXCEPT ![f] = "raised"] /\ UNCHANGED <<branch, lease, call>>
    BY <1>4 DEF DispatchBranch, To
  <2> QED
    BY <2>1, <1>1 DEF Turns, Moves
<1>5. ASSUME NEW f \in Exec, Finish(f) PROVE Goal
  <2>1. /\ Collects(f) /\ With(f, "running") = {} /\ UNCHANGED <<branch, lease, call, required>>
        /\ stage' = [stage EXCEPT ![f] = "done"]
    BY <1>5, CollectsAll DEF Finish, To, db
  <2>2. Cardinality(With(f, "completed")) \in Nat /\ required[f] \in Nat
    <3>1. With(f, "completed") \in SUBSET Call
      BY Plans DEF With
    <3> QED
      BY <3>1, Countable, <1>1
  <2>3. PICK t \in {"failed", "completed", "partial"} :
            /\ status' = [status EXCEPT ![f] = t]
            /\ t # "failed" => ~(Cardinality(With(f, "completed")) < required[f])
    <3> DEFINE done == Cardinality(With(f, "completed"))
    <3>1. CASE done < required[f]
      <4>1. ~(done >= required[f])
        BY <2>2, <3>1
      <4> HIDE DEF done
      <4>2. status' = [status EXCEPT ![f] = "failed"]
        BY <1>5, <3>1, <4>1 DEF Finish, done
      <4> QED
        BY <4>2
    <3>2. CASE ~(done < required[f]) /\ done >= required[f] /\ done = Len(Plan[f])
      BY <1>5, <3>2 DEF Finish
    <3>3. CASE ~(done < required[f]) /\ ~(done >= required[f] /\ done = Len(Plan[f]))
      BY <1>5, <3>3 DEF Finish
    <3> QED
      BY <3>1, <3>2, <3>3
  <2>4. t # "failed" => Cardinality(With(f, "completed")) >= required[f]
    BY <2>3, <2>2
  <2>5. CASE e = f
    <3>1. stage'[e] = "done" /\ status'[e] = t /\ required'[e] = required[e]
      BY <2>1, <2>3, <2>5, <1>1
    <3> QED
      BY <3>1, <2>1, <2>4, <2>5 DEF Turns, Moves
  <2>6. CASE e # f
    BY <2>1, <2>3, <2>6, <1>1 DEF Moves
  <2> QED
    BY <2>5, <2>6
<1>6. ASSUME NEW f \in Exec, Crash(f) PROVE Goal
  <2>1. /\ stage[f] \notin {"done", "dead"} /\ UNCHANGED <<branch, lease, call, required, status>>
        /\ stage' = [stage EXCEPT ![f] = "dead"]
    BY <1>6 DEF Crash, To, db
  <2> QED
    BY <2>1, <1>1 DEF Turns, Moves
<1>7. \/ UNCHANGED <<stage, status, required>>
      \/ \E f \in Exec : Begin(f) \/ Undo(f) \/ DispatchBranch(f) \/ Finish(f) \/ Crash(f)
  BY DEF Next, Caller, vars, AdmitBranch, PlanFails, Complete, RecordRateLimit, Fail, Invoke,
         NimRateLimited, CreateLimit, PatchLimit, CliRateLimit, Tick
<1> QED
  BY <1>2, <1>3, <1>4, <1>5, <1>6, <1>7 DEF Moves

(* The branches stay in step with the stage of their execution.            *)
LEMMA InStepStep ==
    ASSUME TypeOK, TypeOK', Coherent, InStep, [Next]_vars
    PROVE  InStep'
<1> SUFFICES ASSUME NEW e \in Exec
             PROVE  Reported(e)' /\ \A c \in InPlan(e) : Staged(e, c)'
  BY DEF InStep, InPlan
<1>1. Reported(e) /\ \A c \in InPlan(e) : Staged(e, c)
  BY DEF InStep
<1>2. InPlan(e) \subseteq Call /\ InPlan(e)' = InPlan(e)
  BY Plans DEF InPlan
<1>3. stage[e] \in Stages /\ status[e] \in Statuses /\ required[e] \in Nat
  BY Types
<1>4. CASE Moves(e, stage[e], status[e]) /\ required'[e] = required[e]
  <2>1. ASSUME NEW c \in InPlan(e) PROVE Staged(e, c)'
    <3>1. Fate(e, c) /\ Staged(e, c) /\ Follows(c) /\ CallFollows(c)
      BY <1>1, <1>2, Fates DEF Coherent
    <3>2. \/ branch'[c] = branch[c]
          \/ stage[e] = "admit" /\ branch'[c] \in {"admitted", "blocked"}
          \/ stage[e] = "undo" /\ branch'[c] = "blocked"
          \/ stage[e] = "dispatch" /\ branch'[c] \in {"running", "completed", "failed"}
      BY <3>1 DEF Fate, Put, Expires, Admits, Blocks, Undoes, Sends, Breaks, Answers, Completes, Errs,
                  Fails, Collects
    <3> QED
      BY <3>1, <3>2, <1>4 DEF Moves, Staged
  <2>2. ASSUME status'[e] \in {"completed", "partial"}
        PROVE  stage'[e] = "done" /\ Cardinality(With(e, "completed"))' >= required'[e]
    <3>1. stage[e] = "done" /\ Cardinality(With(e, "completed")) >= required[e]
      BY <2>2, <1>1, <1>4 DEF Moves, Reported
    <3>2. ASSUME NEW c \in InPlan(e) PROVE branch'[c] = "completed" <=> branch[c] = "completed"
      <4>1. Fate(e, c) /\ Staged(e, c)
        BY <1>1, Fates
      <4> QED
        BY <3>1, <4>1 DEF Fate, Put, Expires, Admits, Blocks, Undoes, Sends, Breaks, Answers, Completes,
                          Errs, Fails, Collects
    <3>3. With(e, "completed")' = With(e, "completed")
      BY <3>2, <1>2 DEF With
    <3> QED
      BY <3>1, <3>3, <1>4 DEF Moves
  <2> QED
    BY <2>1, <2>2 DEF Reported
<1>5. CASE UNCHANGED <<branch, lease, call>> /\ Turns(e)
  <2>1. With(e, "completed")' = With(e, "completed")
    BY <1>5, <1>2 DEF With
  <2>2. \A c \in InPlan(e) : \A s : branch[c] = s => With(e, s) # {}
    BY DEF With
  <2>3. ASSUME NEW c \in InPlan(e) PROVE Staged(e, c)'
    BY <2>2, <1>1, <1>5 DEF Turns, Moves, Staged, Collects
  <2>4. Reported(e)'
    BY <2>1, <1>1, <1>5 DEF Turns, Moves, Reported
  <2> QED
    BY <2>3, <2>4
<1> QED
  BY <1>4, <1>5, StageFates

(* The first part of the inductive invariant. *)
Agreement == TypeOK /\ Coherent /\ InStep

(* Nothing is planned, leased or called at first.                          *)
LEMMA AgreementStart == Init => Agreement
<1> SUFFICES ASSUME Init PROVE Agreement
  OBVIOUS
<1>1. TypeOK
  BY TypeStart
<1>2. Coherent
  BY QuotaAssumption DEF Init, Coherent, Follows, CallFollows, NoLease, NoCall
<1>3. InStep
  BY Plans DEF Init, InStep, Reported, Staged
<1> QED
  BY <1>1, <1>2, <1>3 DEF Agreement

(* Branches, leases, calls and stages agree after every step.              *)
LEMMA AgreementStep == Agreement /\ [Next]_vars => Agreement'
BY TypeStep, CoherentStep, InStepStep DEF Agreement

(* Branches, leases, calls and stages always agree.                        *)
LEMMA AlwaysAgreement == Spec => []Agreement
BY AgreementStart, AgreementStep, PTL DEF Spec

(* A branch is completed exactly when its lease is committed, an execution *)
(* that ended holds no lease, and one that reports success has enough      *)
(* branches committed: Undo, Complete and Fail settle the lease in the     *)
(* transaction that settles the branch, Finish waits for all of them.      *)
THEOREM OutcomeFollowsLease == Spec => []OutcomeMatchesLease
<1>1. Agreement => OutcomeMatchesLease
  <2> SUFFICES ASSUME Agreement PROVE OutcomeMatchesLease
    OBVIOUS
  <2>1. branch \in [Call -> BranchStatus]
    BY Types DEF Agreement
  <2>2. \A c \in Call : Follows(c)
    BY DEF Agreement, Coherent
  <2>3. ASSUME NEW c \in Call
        PROVE  /\ branch[c] = "completed" <=> lease[c].state = "committed"
               /\ branch[c] \in {"failed", "blocked"} => lease[c].state \in {"none", "released", "expired"}
    BY <2>1, <2>2 DEF Follows, BranchStatus, NoLease
  <2>4. ASSUME NEW e \in Exec, stage[e] = "done", NEW c \in InPlan(e)
        PROVE  lease[c].state \notin Live
    <3>1. c \in Call /\ Staged(e, c)
      BY Plans DEF Agreement, InStep
    <3> QED
      BY <2>1, <2>2, <2>4, <3>1 DEF Follows, Staged, BranchStatus, Live
  <2>5. ASSUME NEW e \in Exec, status[e] \in {"completed", "partial"}
        PROVE  Cardinality({c \in InPlan(e) : lease[c].state = "committed"}) >= required[e]
    <3>1. {c \in InPlan(e) : lease[c].state = "committed"} = With(e, "completed")
      BY <2>3, Plans DEF With
    <3> QED
      BY <2>5, <3>1 DEF Agreement, InStep, Reported
  <2> QED
    BY <2>3, <2>4, <2>5 DEF OutcomeMatchesLease
<1> QED
  BY <1>1, AlwaysAgreement, PTL

-----------------------------------------------------------------------------
(* The ledger: each window is the sum of its leases.                       *)

Mine(w)   == {c \in Call : w \in lease[c].windows}
In(w, S)  == {c \in Call : w \in lease[c].windows /\ lease[c].state \in S}
SentIn(w) == {c \in Call : w \in lease[c].windows /\ lease[c].sent}

(* What a branch has been charged: the use reported, what it may have      *)
(* used once it was sent, nothing while its lease lives.                   *)
CostOf(c) ==
    IF lease[c].state = "committed" /\ call[c].known THEN call[c].used
    ELSE IF lease[c].state \in {"committed", "released", "expired"} /\ lease[c].sent THEN Tokens[c] ELSE 0
Cost == [c \in Call |-> CostOf(c)]

Booked(w) ==
    /\ window[w].rreq = Cardinality(In(w, {"active"}))
    /\ window[w].creq = Cardinality(SentIn(w))
    /\ window[w].rtok = Total(Tokens, In(w, Live))
    /\ window[w].ctok + window[w].utok = Total(Cost, Mine(w))

Ledger == \A w \in Window : Booked(w)

(* What a lease is charged when it is given back, having lived. *)
Due(c) == IF lease[c].state = "dispatched" THEN Tokens[c] ELSE 0

(* What a call has been charged is a number.                               *)
LEMMA CostTyped ==
    ASSUME TypeOK
    PROVE  Cost \in [Call -> Nat]
<1>1. \A c \in Call : call[c] \in Calls /\ Tokens[c] \in Nat
  BY Types, QuotaAssumption
<1> QED
  BY <1>1 DEF Cost, CostOf, Calls

(* It still is after a step.                                               *)
LEMMA CostTypedNext ==
    ASSUME TypeOK'
    PROVE  Cost' \in [Call -> Nat]
<1>1. \A c \in Call : call'[c] \in Calls /\ Tokens[c] \in Nat
  BY QuotaAssumption DEF TypeOK, Calls
<1> QED
  BY <1>1 DEF Cost, CostOf, Calls

(* A branch is charged when its lease ends and not otherwise. *)
LEMMA CostFate ==
    ASSUME TypeOK, Coherent, [Next]_vars, NEW c \in Call
    PROVE  /\ lease'[c] = lease[c] => CostOf(c)' = CostOf(c)
           /\ lease[c].state \in Live \cup {"none"} => CostOf(c) = 0
           /\ lease'[c].state \in Live \cup {"none"} => CostOf(c)' = 0
           /\ lease[c].state \in Live /\ lease'[c].sent = lease[c].sent
              /\ lease'[c].state \in {"released", "expired"} => CostOf(c)' = Due(c)
<1>1. PICK e \in Exec : c \in InPlan(e)
  BY QuotaAssumption
<1>2. lease[c] \in Leases /\ branch[c] \in BranchStatus /\ call[c] \in Calls
  BY Types
<1>3. Follows(c) /\ CallFollows(c)
  BY DEF Coherent
<1>4. ASSUME lease'[c] = lease[c] PROVE CostOf(c)' = CostOf(c)
  <2>1. Fate(e, c)
    BY <1>1, Fates
  <2>2. CASE lease[c].state # "committed"
    BY <1>4, <2>2 DEF CostOf
  <2>3. CASE lease[c].state = "committed"
    <3>1. branch[c] = "completed"
      BY <2>3, <1>2, <1>3 DEF Follows, BranchStatus, NoLease
    <3>2. call[c].st # "queued"
      BY <3>1, <1>3 DEF CallFollows
    <3>3. call'[c].used = call[c].used /\ call'[c].known = call[c].known
      BY <2>1, <3>1, <3>2, <1>2 DEF Fate, Put, Expires, Admits, Blocks, Undoes, Sends, Breaks, Answers,
                                    Completes, Errs, Fails, Calls
    <3> QED
      BY <1>4, <3>3 DEF CostOf
  <2> QED
    BY <2>2, <2>3
<1>5. lease[c].state \in Live \cup {"none"} => CostOf(c) = 0
  BY DEF CostOf, Live
<1>6. lease'[c].state \in Live \cup {"none"} => CostOf(c)' = 0
  BY DEF CostOf, Live
<1>7. lease[c].state \in Live /\ lease'[c].sent = lease[c].sent
      /\ lease'[c].state \in {"released", "expired"} => CostOf(c)' = Due(c)
  BY <1>3, <1>2 DEF CostOf, Due, Follows, Live, Leases
<1> QED
  BY <1>4, <1>5, <1>6, <1>7

(* From f to g, the calls in L end: of these, the ones in D are charged    *)
(* what they reserved and the others nothing.                              *)
Charged(M, L, D, f, g) ==
    /\ M \in SUBSET Call /\ L \in SUBSET M /\ D \in SUBSET L
    /\ f \in [Call -> Nat] /\ g \in [Call -> Nat]
    /\ \A c \in M \ L : g[c] = f[c]
    /\ \A c \in L : f[c] = 0
    /\ \A c \in L \ D : g[c] = 0
    /\ \A c \in D : g[c] = Tokens[c]

(* The totals of a window grow by exactly what the leases that end are     *)
(* charged.                                                                *)
LEMMA Charge ==
    ASSUME NEW M, NEW L, NEW D, NEW f, NEW g, Charged(M, L, D, f, g)
    PROVE  Total(g, M) = Total(f, M) + Total(Tokens, D)
<1> USE DEF Charged
<1>1. M \cap L = L /\ L \cap D = D /\ L \in SUBSET Call /\ D \in SUBSET Call
  OBVIOUS
<1>2. /\ Total(g, M) = Total(g, M \ L) + Total(g, M \cap L)
      /\ Total(f, M) = Total(f, M \ L) + Total(f, M \cap L)
      /\ Total(g, L) = Total(g, L \ D) + Total(g, L \cap D)
  BY <1>1, TotalSplit
<1>3. /\ Total(g, M \cap L) = Total(g, L) /\ Total(f, M \cap L) = Total(f, L)
      /\ Total(g, L \cap D) = Total(g, D)
  BY <1>1, Zenon
<1>4. Total(g, M \ L) = Total(f, M \ L)
  BY TotalSame
<1>5. Total(f, L) = 0 /\ Total(g, L \ D) = 0
  BY <1>1, TotalOfZeros
<1>6. Total(g, D) = Total(Tokens, D)
  BY TotalSame
<1>7. Total(f, M \ L) \in Nat /\ Total(Tokens, D) \in Nat
  BY <1>1, UnitsFinite, QuotaAssumption
<1> QED
  BY <1>2, <1>3, <1>4, <1>5, <1>6, <1>7

(* _release_reservations of live leases takes exactly their reservations   *)
(* out of the columns, and counts what was sent as used.                   *)
LEMMA GiveBack ==
    ASSUME TypeOK, NEW w \in Window, Booked(w), NEW S \in SUBSET Call,
           \A c \in S : lease[c].state \in Live
    PROVE  LET u == Unmapped(S)[w]
           IN  /\ u.rreq = Cardinality(In(w, {"active"}) \ S)
               /\ u.creq = window[w].creq
               /\ u.rtok = Total(Tokens, In(w, Live) \ S)
               /\ u.ctok = window[w].ctok
               /\ u.utok = window[w].utok + Total(Tokens, In(w, {"dispatched"}) \cap S)
               /\ u.rreq <= window[w].rreq
               /\ u.rtok + u.utok <= window[w].rtok + window[w].utok
<1> DEFINE mine == {c \in S : w \in lease[c].windows}
           sent == {c \in mine : lease[c].state = "dispatched"}
<1>1. window[w] \in Columns
  BY Types
<1>2. Unmapped(S)[w] = [window[w] EXCEPT !.rreq = Minus(@, Cardinality(mine \ sent)),
                                         !.rtok = Minus(@, TokensOf(mine)),
                                         !.utok = @ + TokensOf(sent)]
  BY DEF Unmapped
<1>3. /\ mine = In(w, Live) \cap S /\ sent = In(w, {"dispatched"}) \cap S
      /\ mine \ sent = In(w, {"active"}) \cap S
      /\ In(w, {"active"}) \in SUBSET Call /\ In(w, Live) \in SUBSET Call /\ mine \in SUBSET Call
      /\ sent \subseteq mine
  BY DEF In, Live
<1> HIDE DEF mine, sent
<1> DEFINE u == Unmapped(S)[w]
           n == Cardinality(mine \ sent)
           t == TokensOf(mine)
           d == TokensOf(sent)
<1>4. /\ n = Cardinality(In(w, {"active"}) \cap S) /\ n \in Nat
      /\ t = Total(Tokens, In(w, Live) \cap S) /\ t \in Nat
      /\ d = Total(Tokens, In(w, {"dispatched"}) \cap S) /\ d \in Nat
  <2>1. /\ mine \ sent \in SUBSET Call /\ sent \in SUBSET Call
        /\ t = Total(Tokens, mine) /\ d = Total(Tokens, sent)
    BY <1>3, TokensTyped
  <2>2. n \in Nat /\ t \in Nat /\ d \in Nat
    BY <1>3, <2>1, Countable, TokensTyped
  <2> HIDE DEF n, t, d
  <2>3. t = Total(Tokens, In(w, Live) \cap S) /\ d = Total(Tokens, In(w, {"dispatched"}) \cap S)
    BY <2>1, <1>3, Zenon
  <2>4. n = Cardinality(In(w, {"active"}) \cap S)
    BY <1>3, Zenon DEF n
  <2> QED
    BY <2>2, <2>3, <2>4
<1>5. d <= t
  <2>1. In(w, {"dispatched"}) \cap S \subseteq In(w, Live) \cap S
    BY DEF In, Live
  <2>2. Total(Tokens, In(w, {"dispatched"}) \cap S) <= Total(Tokens, In(w, Live) \cap S)
    <3>1. \A c \in In(w, {"dispatched"}) \cap S : Tokens[c] <= Tokens[c]
      BY QuotaAssumption
    <3>2. In(w, {"dispatched"}) \cap S \in SUBSET Call /\ In(w, Live) \cap S \in SUBSET Call
      BY <1>3
    <3> QED
      BY <2>1, <3>1, <3>2, TotalAtMost, QuotaAssumption
  <2> HIDE DEF t, d
  <2> QED
    BY <2>2, <1>4
<1>6. /\ window[w].rreq \in Nat /\ window[w].rtok \in Nat /\ window[w].utok \in Nat
      /\ window[w].creq \in Nat /\ window[w].ctok \in Nat
  BY <1>1 DEF Columns
<1>7. /\ Cardinality(In(w, {"active"})) = Cardinality(In(w, {"active"}) \ S)
                                             + Cardinality(In(w, {"active"}) \cap S)
      /\ Cardinality(In(w, {"active"}) \ S) \in Nat
  BY <1>3, CountSplit, Countable
<1>8. /\ Total(Tokens, In(w, Live)) = Total(Tokens, In(w, Live) \ S) + Total(Tokens, In(w, Live) \cap S)
      /\ Total(Tokens, In(w, Live) \ S) \in Nat
  <2>1. In(w, Live) \ S \in SUBSET Call
    BY <1>3
  <2>2. Total(Tokens, In(w, Live) \ S) \in Nat
    BY <2>1, UnitsFinite, QuotaAssumption
  <2> QED
    BY <1>3, <2>2, TotalSplit, QuotaAssumption
<1> HIDE DEF n, t, d
<1>9. /\ u.rreq = Minus(window[w].rreq, n) /\ u.rtok = Minus(window[w].rtok, t)
      /\ u.utok = window[w].utok + d /\ u.creq = window[w].creq /\ u.ctok = window[w].ctok
  BY <1>1, <1>2 DEF n, t, d, Columns
<1> HIDE DEF u
<1>10. u.rreq = window[w].rreq - n /\ u.rtok = window[w].rtok - t
  <2>1. window[w].rreq = Cardinality(In(w, {"active"})) /\ window[w].rtok = Total(Tokens, In(w, Live))
    BY DEF Booked
  <2>2. n <= window[w].rreq
    BY <2>1, <1>4, <1>7
  <2>3. t <= window[w].rtok
    BY <2>1, <1>4, <1>8
  <2> QED
    BY <2>2, <2>3, <1>4, <1>6, <1>9, MinusTyped
<1>11. /\ u.rreq = Cardinality(In(w, {"active"}) \ S) /\ u.rtok = Total(Tokens, In(w, Live) \ S)
        /\ u.rreq <= window[w].rreq /\ u.rtok + u.utok <= window[w].rtok + window[w].utok
  BY <1>4, <1>5, <1>6, <1>7, <1>8, <1>9, <1>10 DEF Booked
<1>12. u.utok = window[w].utok + Total(Tokens, In(w, {"dispatched"}) \cap S)
  BY <1>4, <1>9
<1> QED
  BY <1>9, <1>11, <1>12 DEF u

(* The four transactions that change the ledger.                           *)
Takes(c)   == /\ branch[c] = "planned" /\ Acquired(c)
              /\ \E ok \in BOOLEAN : Allowed(c, Unmapped(Stale), ok)
Marks(c)   == branch[c] = "admitted" /\ lease[c].state = "active" /\ Dispatched(c)
Settles(c) == call[c].st = "ok" /\ lease[c].state \in Live /\ Committed(c)
Returns(c) == /\ lease[c].state \in Live
              /\ window' = Unmapped({c})
              /\ lease' = [lease EXCEPT ![c].state = "released"]

(* The ledger is written by acquiring, dispatching, committing and         *)
(* releasing one lease at a time; every other step leaves windows and      *)
(* leases alone.                                                           *)
LEMMA Transactions ==
    ASSUME TypeOK, Coherent, [Next]_vars
    PROVE  \/ UNCHANGED <<window, lease>>
           \/ /\ UNCHANGED <<policy, now>>
              /\ \E c \in Call : Takes(c) \/ Marks(c) \/ Settles(c) \/ Returns(c)
<1> DEFINE Goal == \/ UNCHANGED <<window, lease>>
                   \/ /\ UNCHANGED <<policy, now>>
                      /\ \E c \in Call : Takes(c) \/ Marks(c) \/ Settles(c) \/ Returns(c)
<1>1. ASSUME NEW e \in Exec, NEW ok \in BOOLEAN, AdmitBranch(e, ok) PROVE Goal
  <2> DEFINE c == First(e, "planned")
  <2>1. /\ c \in Call /\ branch[c] = "planned" /\ UNCHANGED <<policy, now>>
        /\ \/ Acquired(c) /\ Allowed(c, Unmapped(Stale), ok)
           \/ UNCHANGED <<window, lease>>
    BY <1>1, FirstIn DEF AdmitBranch
  <2> HIDE DEF c
  <2> QED
    BY <2>1 DEF Takes
<1>2. ASSUME NEW c \in Call, branch[c] \in {"admitted", "running"}, Released(c), UNCHANGED <<policy, now>>
      PROVE  Goal
  <2>1. CASE lease[c].state = "expired"
    BY <1>2, <2>1 DEF Released
  <2>2. CASE lease[c].state # "expired"
    <3>1. lease[c].state \in Live
      BY <1>2, <2>2 DEF Coherent, Follows, Live
    <3> QED
      BY <1>2, <2>2, <3>1 DEF Released, Returns
  <2> QED
    BY <2>1, <2>2
<1>3. ASSUME NEW e \in Exec, Undo(e) PROVE Goal
  <2>1. CASE With(e, "admitted") # {}
    <3> DEFINE c == First(e, "admitted")
    <3>1. c \in Call /\ branch[c] = "admitted" /\ Released(c) /\ UNCHANGED <<policy, now>>
      BY <1>3, <2>1, FirstIn DEF Undo
    <3> HIDE DEF c
    <3> QED
      BY <3>1, <1>2
  <2>2. CASE With(e, "admitted") = {}
    BY <1>3, <2>2 DEF Undo
  <2> QED
    BY <2>1, <2>2
<1>4. ASSUME NEW e \in Exec, DispatchBranch(e) PROVE Goal
  <2> DEFINE c == First(e, "admitted")
  <2>1. /\ c \in Call /\ branch[c] = "admitted" /\ UNCHANGED <<policy, now>>
        /\ \/ lease[c].state = "active" /\ Dispatched(c)
           \/ UNCHANGED <<window, lease>>
    BY <1>4, FirstIn DEF DispatchBranch
  <2> HIDE DEF c
  <2> QED
    BY <2>1 DEF Marks
<1>5. ASSUME NEW e \in Exec, NEW c \in Call, Complete(e, c) PROVE Goal
  BY <1>5 DEF Complete, Settles
<1>6. ASSUME NEW e \in Exec, NEW c \in Call, Fail(e, c) PROVE Goal
  <2>1. branch[c] = "running"
    BY <1>6 DEF Fail, Coherent, CallFollows
  <2> QED
    BY <1>6, <1>2, <2>1 DEF Fail
<1>7. \/ UNCHANGED <<window, lease>>
      \/ \E e \in Exec : \/ \E ok \in BOOLEAN : AdmitBranch(e, ok)
                         \/ Undo(e) \/ DispatchBranch(e)
                         \/ \E c \in Call : Complete(e, c) \/ Fail(e, c)
  BY DEF Next, Caller, vars, db, Begin, PlanFails, RecordRateLimit, Invoke, Finish,
         NimRateLimited, Crash, CreateLimit, PatchLimit, CliRateLimit, Tick
<1> QED
  BY <1>1, <1>3, <1>4, <1>5, <1>6, <1>7

(* Taking a lease: expiring the stale ones gives their reservations back,  *)
(* the new one is added to the windows it is taken in.                     *)
LEMMA TakesBooked ==
    ASSUME TypeOK, TypeOK', Coherent, [Next]_vars, NEW w \in Window, Booked(w), NEW c \in Call, Takes(c)
    PROVE  Booked(w)'
<1> DEFINE S == Stale
           u == Unmapped(S)[w]
           v == window'[w]
           new == IF w \in NewWindows(c) THEN {c} ELSE {}
<1>1. lease \in [Call -> Leases] /\ Tokens \in [Call -> Nat]
  BY Types, QuotaAssumption
<1>2. lease[c] = NoLease
  BY DEF Takes, Coherent, Follows
<1>3. S \in SUBSET Call /\ (\A d \in S : lease[d].state \in Live) /\ c \notin S
  BY <1>2 DEF Stale, NoLease, Live
<1>4. ASSUME NEW d \in Call
      PROVE  /\ d = c => /\ lease'[d].state = "active" /\ lease'[d].windows = NewWindows(c)
                         /\ ~lease'[d].sent
             /\ d # c => lease'[d].windows = lease[d].windows /\ lease'[d].sent = lease[d].sent
             /\ d \in S => lease'[d].state = "expired"
             /\ d # c /\ d \notin S => lease'[d] = lease[d]
  <2>1. lease'[d] = IF d = c THEN [state |-> "active", limit |-> Effective(c), at |-> now,
                                   windows |-> NewWindows(c), sent |-> FALSE]
                    ELSE IF d \in S THEN [lease[d] EXCEPT !.state = "expired"]
                    ELSE lease[d]
    BY Rows DEF Takes
  <2>2. lease[d] \in Leases
    BY <1>1
  <2> HIDE DEF S
  <2>3. CASE d = c
    BY <2>1, <2>3, <1>3
  <2>4. CASE d # c /\ d \in S
    BY <2>1, <2>2, <2>4 DEF Leases
  <2>5. CASE d # c /\ d \notin S
    BY <2>1, <2>5
  <2> QED
    BY <2>3, <2>4, <2>5
<1>5. /\ In(w, {"active"})' = (In(w, {"active"}) \ S) \cup new
      /\ In(w, Live)' = (In(w, Live) \ S) \cup new
      /\ SentIn(w)' = SentIn(w)
      /\ Mine(w)' = Mine(w) \cup new
      /\ c \notin Mine(w)
  BY <1>2, <1>3, <1>4 DEF In, SentIn, Mine, Live, NoLease
<1>6. /\ In(w, {"active"}) \in SUBSET Call /\ In(w, Live) \in SUBSET Call /\ Mine(w) \in SUBSET Call
      /\ In(w, Live) \subseteq Mine(w) /\ In(w, {"active"}) \subseteq Mine(w)
      /\ In(w, {"dispatched"}) \in SUBSET Call
  BY DEF In, Mine
<1>7. /\ u.rreq = Cardinality(In(w, {"active"}) \ S)
      /\ u.creq = window[w].creq
      /\ u.rtok = Total(Tokens, In(w, Live) \ S)
      /\ u.ctok = window[w].ctok
      /\ u.utok = window[w].utok + Total(Tokens, In(w, {"dispatched"}) \cap S)
  BY <1>3, GiveBack
<1>8. u \in Columns /\ window[w] \in Columns
  BY <1>3, UnmappedTyped, Types
<1>9. /\ v.creq = u.creq /\ v.ctok = u.ctok /\ v.utok = u.utok
      /\ w \in NewWindows(c) => v.rreq = u.rreq + 1 /\ v.rtok = u.rtok + Tokens[c]
      /\ w \notin NewWindows(c) => v.rreq = u.rreq /\ v.rtok = u.rtok
  <2>1. v = IF w \in NewWindows(c) THEN [u EXCEPT !.rreq = @ + 1, !.rtok = @ + Tokens[c]] ELSE u
    BY DEF Takes, Acquired, NewWindows
  <2> HIDE DEF u, v
  <2> QED
    BY <2>1, <1>8 DEF Columns
<1>10. ASSUME NEW T \in SUBSET Call, c \notin T
       PROVE  /\ Cardinality(T \cup new) = Cardinality(T) + IF w \in NewWindows(c) THEN 1 ELSE 0
              /\ Total(Tokens, T \cup new) = Total(Tokens, T) + IF w \in NewWindows(c) THEN Tokens[c] ELSE 0
  <2>1. Cardinality(T) \in Nat /\ IsFiniteSet(T) /\ Total(Tokens, T) \in Nat
    BY Countable, UnitsFinite, QuotaAssumption
  <2>2. CASE w \in NewWindows(c)
    <3>1. Cardinality(T \cup {c}) = Cardinality(T) + 1
      BY <2>1, <1>10, FS_AddElement
    <3>2. T \cup {c} \in SUBSET Call /\ (T \cup {c}) \ {c} = T /\ (T \cup {c}) \cap {c} = {c}
      BY <1>10
    <3>3. Total(Tokens, T \cup {c}) = Total(Tokens, (T \cup {c}) \ {c}) + Total(Tokens, (T \cup {c}) \cap {c})
      BY <3>2, TotalSplit, QuotaAssumption
    <3>4. Total(Tokens, T \cup {c}) = Total(Tokens, T) + Total(Tokens, {c})
      BY <3>2, <3>3, Zenon
    <3>5. Total(Tokens, T \cup {c}) = Total(Tokens, T) + Tokens[c]
      BY <3>4, TotalOfOne, QuotaAssumption
    <3> QED
      BY <2>2, <3>1, <3>5
  <2>3. CASE w \notin NewWindows(c)
    <3>1. T \cup new = T
      BY <2>3
    <3> HIDE DEF new
    <3>2. Cardinality(T \cup new) = Cardinality(T) /\ Total(Tokens, T \cup new) = Total(Tokens, T)
      BY <3>1, Zenon
    <3> QED
      BY <3>2, <2>3, <2>1
  <2> QED
    BY <2>2, <2>3
<1>11. CostOf(c) = 0 /\ CostOf(c)' = 0
  BY <1>2, <1>4, CostFate DEF NoLease, Live
<1>12. Cost \in [Call -> Nat] /\ Cost' \in [Call -> Nat]
  BY CostTyped, CostTypedNext
<1>13. \A d \in Call : Cost[d] = CostOf(d) /\ Cost'[d] = CostOf(d)'
  BY DEF Cost
<1>14. Total(Cost', Mine(w)) = Total(Cost, Mine(w)) + Total(Tokens, In(w, {"dispatched"}) \cap S)
  <2> DEFINE M == Mine(w)
             L == Mine(w) \cap S
             D == In(w, {"dispatched"}) \cap S
             f == Cost
             g == Cost'
  <2>1. ASSUME NEW d \in M \ L PROVE g[d] = f[d]
    BY <1>4, <1>5, <1>6, <1>13, CostFate
  <2>2. ASSUME NEW d \in L PROVE f[d] = 0 /\ g[d] = Due(d)
    <3>1. /\ d \in Call /\ lease[d].state \in Live /\ lease'[d].state = "expired"
          /\ lease'[d].sent = lease[d].sent
      BY <1>3, <1>4
    <3> QED
      BY <3>1, <1>13, CostFate
  <2>3. /\ \A d \in L \ D : g[d] = 0
        /\ \A d \in D : g[d] = Tokens[d]
    BY <2>2 DEF Due, In, Mine
  <2>4. /\ M \in SUBSET Call /\ L \in SUBSET M /\ D \in SUBSET L
        /\ f \in [Call -> Nat] /\ g \in [Call -> Nat]
    BY <1>12 DEF Mine, In
  <2> HIDE DEF M, L, D, f, g
  <2>5. Charged(M, L, D, f, g)
    BY <2>1, <2>2, <2>3, <2>4 DEF Charged
  <2>6. Total(g, M) = Total(f, M) + Total(Tokens, D)
    BY <2>5, Charge
  <2> QED
    BY <2>6 DEF M, D, f, g
<1>16. Total(Cost', Mine(w)') = Total(Cost', Mine(w))
  <2>1. CASE w \in NewWindows(c)
    <3>1. Mine(w)' \in SUBSET Call /\ Mine(w)' \ {c} = Mine(w) /\ Mine(w)' \cap {c} = {c}
      BY <2>1, <1>5, <1>6
    <3>2. Total(Cost', Mine(w)') = Total(Cost', Mine(w)' \ {c}) + Total(Cost', Mine(w)' \cap {c})
      BY <3>1, <1>12, TotalSplit
    <3>3. Total(Cost', Mine(w)') = Total(Cost', Mine(w)) + Total(Cost', {c})
      BY <3>1, <3>2, Zenon
    <3>4. Total(Cost', {c}) = 0 /\ Total(Cost', Mine(w)) \in Nat
      BY <1>6, <1>11, <1>12, <1>13, TotalOfOne, UnitsFinite
    <3> QED
      BY <3>3, <3>4
  <2>2. CASE w \notin NewWindows(c)
    <3>1. Mine(w)' = Mine(w)
      BY <2>2, <1>5
    <3> QED
      BY <3>1, Zenon
  <2> QED
    BY <2>1, <2>2
<1>17. v.rreq = Cardinality(In(w, {"active"})')
  <2>1. c \notin In(w, {"active"}) \ S /\ In(w, {"active"}) \ S \in SUBSET Call
    BY <1>5, <1>6
  <2>2. Cardinality(In(w, {"active"})') = Cardinality((In(w, {"active"}) \ S) \cup new)
    BY <1>5, Zenon
  <2>3. Cardinality((In(w, {"active"}) \ S) \cup new)
            = Cardinality(In(w, {"active"}) \ S) + IF w \in NewWindows(c) THEN 1 ELSE 0
    BY <2>1, <1>10
  <2> HIDE DEF S, u, v, new
  <2>4. u.rreq \in Nat
    BY <1>8 DEF Columns
  <2> QED
    BY <2>2, <2>3, <2>4, <1>7, <1>9
<1>18. v.rtok = Total(Tokens, In(w, Live)')
  <2>1. c \notin In(w, Live) \ S /\ In(w, Live) \ S \in SUBSET Call
    BY <1>5, <1>6
  <2>2. Total(Tokens, In(w, Live)') = Total(Tokens, (In(w, Live) \ S) \cup new)
    BY <1>5, Zenon
  <2>3. Total(Tokens, (In(w, Live) \ S) \cup new)
            = Total(Tokens, In(w, Live) \ S) + IF w \in NewWindows(c) THEN Tokens[c] ELSE 0
    BY <2>1, <1>10
  <2> HIDE DEF S, u, v, new
  <2>4. u.rtok \in Nat
    BY <1>8 DEF Columns
  <2> QED
    BY <2>2, <2>3, <2>4, <1>7, <1>9
<1>19. v.creq = Cardinality(SentIn(w)')
  BY <1>5, <1>7, <1>9 DEF Booked
<1>20. v.ctok + v.utok = Total(Cost', Mine(w)')
  <2>1. window[w].ctok + window[w].utok = Total(Cost, Mine(w))
    BY DEF Booked
  <2>2. Total(Cost', Mine(w)') = Total(Cost, Mine(w)) + Total(Tokens, In(w, {"dispatched"}) \cap S)
    BY <1>14, <1>16
  <2>3. window[w].ctok \in Nat /\ window[w].utok \in Nat /\ Total(Tokens, In(w, {"dispatched"}) \cap S) \in Nat
    <3>1. In(w, {"dispatched"}) \cap S \in SUBSET Call
      BY <1>6
    <3> QED
      BY <3>1, <1>8, UnitsFinite, QuotaAssumption DEF Columns
  <2> HIDE DEF S, u, v
  <2> QED
    BY <2>1, <2>2, <2>3, <1>7, <1>9
<1> QED
  BY <1>17, <1>18, <1>19, <1>20 DEF Booked

(* Giving a lease back: its request goes unless it was sent, and what it   *)
(* was sent for becomes unverified use.                                    *)
LEMMA ReturnsBooked ==
    ASSUME TypeOK, TypeOK', Coherent, [Next]_vars, NEW w \in Window, Booked(w), NEW c \in Call, Returns(c)
    PROVE  Booked(w)'
<1> DEFINE S == {c}
           v == window'[w]
<1>1. lease \in [Call -> Leases] /\ Tokens \in [Call -> Nat] /\ window[w] \in Columns
  BY Types, QuotaAssumption
<1>2. S \in SUBSET Call /\ \A d \in S : lease[d].state \in Live
  BY DEF Returns
<1>3. ASSUME NEW d \in Call
      PROVE  /\ lease'[d].windows = lease[d].windows /\ lease'[d].sent = lease[d].sent
             /\ d = c => lease'[d].state = "released"
             /\ d # c => lease'[d] = lease[d]
  BY <1>1 DEF Returns, Leases
<1>4. /\ In(w, {"active"})' = In(w, {"active"}) \ S
      /\ In(w, Live)' = In(w, Live) \ S
      /\ SentIn(w)' = SentIn(w)
      /\ Mine(w)' = Mine(w)
  BY <1>3 DEF In, SentIn, Mine, Live
<1>5. /\ v.rreq = Cardinality(In(w, {"active"}) \ S)
      /\ v.creq = window[w].creq
      /\ v.rtok = Total(Tokens, In(w, Live) \ S)
      /\ v.ctok = window[w].ctok
      /\ v.utok = window[w].utok + Total(Tokens, In(w, {"dispatched"}) \cap S)
  BY <1>2, GiveBack DEF Returns
<1>6. Cost \in [Call -> Nat] /\ Cost' \in [Call -> Nat]
  BY CostTyped, CostTypedNext
<1>7. \A d \in Call : Cost[d] = CostOf(d) /\ Cost'[d] = CostOf(d)'
  BY DEF Cost
<1>8. Total(Cost', Mine(w)) = Total(Cost, Mine(w)) + Total(Tokens, In(w, {"dispatched"}) \cap S)
  <2> DEFINE M == Mine(w)
             L == Mine(w) \cap S
             D == In(w, {"dispatched"}) \cap S
             f == Cost
             g == Cost'
  <2>1. ASSUME NEW d \in M \ L PROVE g[d] = f[d]
    <3>1. d \in Call /\ lease'[d] = lease[d]
      BY <1>3 DEF Mine
    <3> QED
      BY <3>1, <1>7, CostFate
  <2>2. ASSUME NEW d \in L PROVE f[d] = 0 /\ g[d] = Due(d)
    <3>1. /\ d \in Call /\ lease[d].state \in Live /\ lease'[d].state = "released"
          /\ lease'[d].sent = lease[d].sent
      BY <1>2, <1>3
    <3> QED
      BY <3>1, <1>7, CostFate
  <2>3. /\ \A d \in L \ D : g[d] = 0
        /\ \A d \in D : g[d] = Tokens[d]
    BY <2>2 DEF Due, In, Mine
  <2>4. /\ M \in SUBSET Call /\ L \in SUBSET M /\ D \in SUBSET L
        /\ f \in [Call -> Nat] /\ g \in [Call -> Nat]
    BY <1>6 DEF Mine, In
  <2> HIDE DEF M, L, D, f, g
  <2>5. Charged(M, L, D, f, g)
    BY <2>1, <2>2, <2>3, <2>4 DEF Charged
  <2>6. Total(g, M) = Total(f, M) + Total(Tokens, D)
    BY <2>5, Charge
  <2> QED
    BY <2>6 DEF M, D, f, g
<1>9. window[w].ctok \in Nat /\ window[w].utok \in Nat /\ Total(Tokens, In(w, {"dispatched"}) \cap S) \in Nat
  <2>1. In(w, {"dispatched"}) \cap S \in SUBSET Call
    BY <1>2
  <2> QED
    BY <2>1, <1>1, UnitsFinite DEF Columns
<1> HIDE DEF S, v
<1>10. v.rreq = Cardinality(In(w, {"active"})') /\ v.rtok = Total(Tokens, In(w, Live)')
  BY <1>4, <1>5, Zenon
<1>11. v.creq = Cardinality(SentIn(w)')
  BY <1>4, <1>5 DEF Booked
<1>12. v.ctok + v.utok = Total(Cost', Mine(w)')
  <2>1. Total(Cost', Mine(w)') = Total(Cost', Mine(w))
    BY <1>4, Zenon
  <2>2. window[w].ctok + window[w].utok = Total(Cost, Mine(w))
    BY DEF Booked
  <2> QED
    BY <2>1, <2>2, <1>5, <1>8, <1>9
<1> QED
  BY <1>10, <1>11, <1>12 DEF Booked, v

(* Dispatching moves one request from reserved to counted. *)
LEMMA MarksBooked ==
    ASSUME TypeOK, TypeOK', Coherent, [Next]_vars, NEW w \in Window, Booked(w), NEW c \in Call, Marks(c)
    PROVE  /\ Booked(w)'
           /\ window'[w].creq + window'[w].rreq = window[w].creq + window[w].rreq
           /\ window'[w].creq >= window[w].creq
           /\ window'[w].ctok = window[w].ctok /\ window'[w].utok = window[w].utok
           /\ window'[w].rtok = window[w].rtok
<1> DEFINE v == window'[w]
<1>1. lease \in [Call -> Leases] /\ Tokens \in [Call -> Nat] /\ window[w] \in Columns
  BY Types, QuotaAssumption
<1>2. lease[c].state = "active" /\ ~lease[c].sent
  BY DEF Marks, Coherent, Follows
<1>3. ASSUME NEW d \in Call
      PROVE  /\ lease'[d].windows = lease[d].windows
             /\ d = c => lease'[d].state = "dispatched" /\ lease'[d].sent
             /\ d # c => lease'[d] = lease[d]
  BY <1>1 DEF Marks, Dispatched, Leases
<1>4. /\ In(w, {"active"})' = In(w, {"active"}) \ {c}
      /\ In(w, Live)' = In(w, Live)
      /\ SentIn(w)' = IF w \in lease[c].windows THEN SentIn(w) \cup {c} ELSE SentIn(w)
      /\ Mine(w)' = Mine(w)
      /\ w \in lease[c].windows <=> c \in In(w, {"active"})
      /\ c \notin SentIn(w)
  BY <1>2, <1>3 DEF In, SentIn, Mine, Live
<1>5. /\ window[w].creq \in Nat /\ window[w].rreq \in Nat
      /\ In(w, {"active"}) \in SUBSET Call /\ SentIn(w) \in SUBSET Call /\ Mine(w) \in SUBSET Call
  BY <1>1 DEF Columns, In, SentIn, Mine
<1>6. IsFiniteSet(In(w, {"active"})) /\ IsFiniteSet(SentIn(w))
      /\ Cardinality(In(w, {"active"})) \in Nat /\ Cardinality(SentIn(w)) \in Nat
  BY <1>5, Countable
<1>7. window[w].rreq = Cardinality(In(w, {"active"})) /\ window[w].creq = Cardinality(SentIn(w))
  BY DEF Booked
<1>8. Cardinality(In(w, {"active"}) \ {c})
          = IF w \in lease[c].windows THEN window[w].rreq - 1 ELSE window[w].rreq
  <2>1. Cardinality(In(w, {"active"}) \ {c})
            = IF c \in In(w, {"active"}) THEN Cardinality(In(w, {"active"})) - 1 ELSE Cardinality(In(w, {"active"}))
    BY <1>6, FS_RemoveElement
  <2> QED
    BY <2>1, <1>4, <1>7
<1>9. Cardinality(SentIn(w)') = IF w \in lease[c].windows THEN window[w].creq + 1 ELSE window[w].creq
  <2>1. Cardinality(SentIn(w) \cup {c}) = Cardinality(SentIn(w)) + 1
    BY <1>4, <1>6, FS_AddElement
  <2>2. CASE w \in lease[c].windows
    <3>1. Cardinality(SentIn(w)') = Cardinality(SentIn(w) \cup {c})
      BY <2>2, <1>4, Zenon
    <3> QED
      BY <2>1, <2>2, <3>1, <1>7
  <2>3. CASE w \notin lease[c].windows
    <3>1. Cardinality(SentIn(w)') = Cardinality(SentIn(w))
      BY <2>3, <1>4, Zenon
    <3> QED
      BY <2>3, <3>1, <1>7
  <2> QED
    BY <2>2, <2>3
<1>10. w \in lease[c].windows => window[w].rreq # 0 /\ Minus(window[w].rreq, 1) = window[w].rreq - 1
  <2>1. w \in lease[c].windows => window[w].rreq # 0
    BY <1>4, <1>6, <1>7, FS_EmptySet
  <2>2. w \in lease[c].windows => 1 <= window[w].rreq /\ 1 \in Nat
    BY <2>1, <1>5
  <2> QED
    BY <2>1, <2>2, <1>5, MinusTyped
<1>11. /\ v.ctok = window[w].ctok /\ v.utok = window[w].utok /\ v.rtok = window[w].rtok
       /\ w \in lease[c].windows => v.creq = window[w].creq + 1 /\ v.rreq = Minus(window[w].rreq, 1)
       /\ w \notin lease[c].windows => v.creq = window[w].creq /\ v.rreq = window[w].rreq
  BY <1>1 DEF Marks, Dispatched, Columns
<1> HIDE DEF v
<1>12. /\ v.rreq = Cardinality(In(w, {"active"}) \ {c}) /\ v.creq = Cardinality(SentIn(w)')
       /\ v.creq + v.rreq = window[w].creq + window[w].rreq /\ v.creq >= window[w].creq
  BY <1>5, <1>8, <1>9, <1>10, <1>11
<1>13. v.rreq = Cardinality(In(w, {"active"})')
  <2>1. Cardinality(In(w, {"active"})') = Cardinality(In(w, {"active"}) \ {c})
    BY <1>4, Zenon
  <2> QED
    BY <2>1, <1>12
<1>14. v.rtok = Total(Tokens, In(w, Live)')
  <2>1. Total(Tokens, In(w, Live)') = Total(Tokens, In(w, Live))
    BY <1>4, Zenon
  <2> QED
    BY <2>1, <1>11 DEF Booked
<1>15. v.ctok + v.utok = Total(Cost', Mine(w)')
  <2>1. \A d \in Call : Cost[d] = CostOf(d) /\ Cost'[d] = CostOf(d)'
    BY DEF Cost
  <2>2. ASSUME NEW d \in Mine(w) PROVE Cost'[d] = Cost[d]
    <3>1. d \in Call
      BY <1>5
    <3>2. CASE d # c
      BY <3>1, <3>2, <2>1, <1>3, CostFate
    <3>3. CASE d = c
      <4>1. CostOf(c) = 0 /\ CostOf(c)' = 0
        BY <1>2, <1>3, CostFate DEF Live
      <4> QED
        BY <3>3, <4>1, <2>1
    <3> QED
      BY <3>2, <3>3
  <2>3. Total(Cost', Mine(w)) = Total(Cost, Mine(w))
    BY <2>2, TotalSame
  <2>4. Total(Cost', Mine(w)') = Total(Cost', Mine(w))
    BY <1>4, Zenon
  <2> QED
    BY <2>3, <2>4, <1>11 DEF Booked
<1> QED
  BY <1>11, <1>12, <1>13, <1>14, <1>15 DEF Booked, v

(* Committing puts the use reported, or all that was reserved, in the      *)
(* place of the reservation.                                               *)
LEMMA SettlesBooked ==
    ASSUME TypeOK, TypeOK', Coherent, [Next]_vars, NEW w \in Window, Booked(w), NEW c \in Call, Settles(c)
    PROVE  /\ Booked(w)'
           /\ window'[w].creq = window[w].creq /\ window'[w].rreq = window[w].rreq
           /\ window'[w].ctok + window'[w].utok >= window[w].ctok + window[w].utok
           /\ window'[w].ctok + window'[w].utok + window'[w].rtok
                  <= window[w].ctok + window[w].utok + window[w].rtok
<1> DEFINE v == window'[w]
           use == IF call[c].known THEN call[c].used ELSE 0
           more == IF call[c].known THEN 0 ELSE Tokens[c]
<1>1. lease \in [Call -> Leases] /\ Tokens \in [Call -> Nat] /\ window[w] \in Columns /\ call \in [Call -> Calls]
  BY Types, QuotaAssumption
<1>2. lease[c].state = "dispatched" /\ lease[c].sent /\ call[c].used <= Tokens[c]
  BY DEF Settles, Coherent, Follows, CallFollows, Live
<1>3. ASSUME NEW d \in Call
      PROVE  /\ lease'[d].windows = lease[d].windows /\ lease'[d].sent = lease[d].sent
             /\ d = c => lease'[d].state = "committed"
             /\ d # c => lease'[d] = lease[d]
  BY <1>1 DEF Settles, Committed, Leases
<1>4. CostOf(c) = 0 /\ CostOf(c)' = use + more
  <2>1. PICK e \in Exec : c \in InPlan(e)
    BY QuotaAssumption
  <2>2. Fate(e, c)
    BY <2>1, Fates
  <2>3. lease'[c].state = "committed" /\ lease'[c].sent
    BY <1>2, <1>3
  <2>4. call'[c] = [call[c] EXCEPT !.st = "handled"]
    BY <2>2, <2>3, <1>1, <1>2 DEF Fate, Put, Expires, Admits, Blocks, Undoes, Sends, Breaks, Answers,
                                  Completes, Errs, Fails, Left, Leases
  <2>5. call'[c].known = call[c].known /\ call'[c].used = call[c].used
    BY <2>4, <1>1 DEF Calls
  <2>6. call[c].used \in Nat /\ Tokens[c] \in Nat
    BY <1>1 DEF Calls
  <2>7. CostOf(c)' = IF call[c].known THEN call[c].used ELSE Tokens[c]
    BY <2>3, <2>5 DEF CostOf
  <2>8. CostOf(c) = 0
    BY <1>2, CostFate DEF Live
  <2> QED
    BY <2>6, <2>7, <2>8
<1>5. use \in Nat /\ more \in Nat /\ use + more <= Tokens[c] /\ Tokens[c] \in Nat
  BY <1>1, <1>2 DEF Calls
<1>6. /\ v.creq = window[w].creq /\ v.rreq = window[w].rreq
      /\ w \in lease[c].windows => /\ v.rtok = Minus(window[w].rtok, Tokens[c])
                                   /\ v.ctok = window[w].ctok + use /\ v.utok = window[w].utok + more
      /\ w \notin lease[c].windows => v = window[w]
  <2>1. v = IF w \in lease[c].windows
            THEN [window[w] EXCEPT !.creq = @ + 0, !.rreq = @, !.rtok = Minus(@, Tokens[c]),
                                   !.ctok = @ + use, !.utok = @ + more]
            ELSE window[w]
    BY <1>2 DEF Settles, Committed
  <2> HIDE DEF v, use, more
  <2> QED
    BY <2>1, <1>1 DEF Columns
<1> HIDE DEF v, use, more
<1>7. /\ In(w, {"active"})' = In(w, {"active"})
      /\ In(w, Live)' = In(w, Live) \ {c}
      /\ SentIn(w)' = SentIn(w)
      /\ Mine(w)' = Mine(w)
      /\ w \in lease[c].windows <=> c \in In(w, Live)
      /\ w \in lease[c].windows <=> c \in Mine(w)
      /\ In(w, Live) \in SUBSET Call /\ Mine(w) \in SUBSET Call
  BY <1>2, <1>3 DEF In, SentIn, Mine, Live
<1>8. /\ window[w].rreq = Cardinality(In(w, {"active"})) /\ window[w].creq = Cardinality(SentIn(w))
      /\ window[w].rtok = Total(Tokens, In(w, Live))
      /\ window[w].ctok + window[w].utok = Total(Cost, Mine(w))
  BY DEF Booked
<1>9. v.rreq = Cardinality(In(w, {"active"})') /\ v.creq = Cardinality(SentIn(w)')
  <2>1. /\ Cardinality(In(w, {"active"})') = Cardinality(In(w, {"active"}))
        /\ Cardinality(SentIn(w)') = Cardinality(SentIn(w))
    BY <1>7, Zenon
  <2> QED
    BY <2>1, <1>6, <1>8
<1>10. Cost \in [Call -> Nat] /\ Cost' \in [Call -> Nat]
  BY CostTyped, CostTypedNext
<1>11. \A d \in Call : Cost[d] = CostOf(d) /\ Cost'[d] = CostOf(d)'
  BY DEF Cost
<1>12. CASE w \notin lease[c].windows
  <2>1. In(w, Live) \ {c} = In(w, Live)
    BY <1>7, <1>12
  <2>2. Total(Tokens, In(w, Live)') = Total(Tokens, In(w, Live))
    BY <2>1, <1>7, Zenon
  <2>3. ASSUME NEW d \in Mine(w) PROVE Cost'[d] = Cost[d]
    <3>1. d \in Call /\ d # c
      BY <1>7, <1>12
    <3> QED
      BY <3>1, <1>3, <1>11, CostFate
  <2>4. Total(Cost', Mine(w)) = Total(Cost, Mine(w))
    BY <2>3, TotalSame
  <2>5. Total(Cost', Mine(w)') = Total(Cost', Mine(w))
    BY <1>7, Zenon
  <2>6. v = window[w]
    BY <1>6, <1>12
  <2>7. v.rtok = Total(Tokens, In(w, Live)') /\ v.ctok + v.utok = Total(Cost', Mine(w)')
    BY <2>2, <2>4, <2>5, <2>6, <1>8
  <2>8. v.ctok \in Nat /\ v.utok \in Nat /\ v.rtok \in Nat
    BY <2>6, <1>1 DEF Columns
  <2> QED
    BY <2>6, <2>7, <2>8, <1>9 DEF Booked, v
<1>13. CASE w \in lease[c].windows
  <2>1. Total(Tokens, In(w, Live)) = Total(Tokens, In(w, Live) \ {c}) + Tokens[c]
    <3>1. In(w, Live) \cap {c} = {c} /\ {c} \in SUBSET Call
      BY <1>7, <1>13
    <3>2. Total(Tokens, In(w, Live)) = Total(Tokens, In(w, Live) \ {c}) + Total(Tokens, In(w, Live) \cap {c})
      BY <3>1, <1>1, <1>7, TotalSplit
    <3>3. Total(Tokens, In(w, Live) \cap {c}) = Total(Tokens, {c})
      BY <3>1, Zenon
    <3> QED
      BY <3>2, <3>3, <1>1, TotalOfOne
  <2>2. Total(Tokens, In(w, Live) \ {c}) \in Nat
    <3>1. In(w, Live) \ {c} \in SUBSET Call
      BY <1>7
    <3> QED
      BY <3>1, <1>1, UnitsFinite
  <2>3. Total(Tokens, In(w, Live)') = Total(Tokens, In(w, Live) \ {c})
    BY <1>7, Zenon
  <2>4. window[w].rtok \in Nat /\ window[w].ctok \in Nat /\ window[w].utok \in Nat
    BY <1>1 DEF Columns
  <2>5. v.rtok = window[w].rtok - Tokens[c]
    <3>1. Tokens[c] <= window[w].rtok
      BY <2>1, <2>2, <1>5, <1>8
    <3> QED
      BY <3>1, <2>4, <1>5, <1>6, <1>13, MinusTyped
  <2>6. Total(Cost', Mine(w)) = Total(Cost, Mine(w)) + use + more
    <3>1. {c} \in SUBSET Call /\ Mine(w) \cap {c} = {c} /\ Mine(w) \ {c} \in SUBSET Call
      BY <1>7, <1>13
    <3>2. /\ Total(Cost', Mine(w)) = Total(Cost', Mine(w) \ {c}) + Total(Cost', Mine(w) \cap {c})
          /\ Total(Cost, Mine(w)) = Total(Cost, Mine(w) \ {c}) + Total(Cost, Mine(w) \cap {c})
      BY <3>1, <1>7, <1>10, TotalSplit
    <3>3. /\ Total(Cost', Mine(w) \cap {c}) = Total(Cost', {c})
          /\ Total(Cost, Mine(w) \cap {c}) = Total(Cost, {c})
      BY <3>1, Zenon
    <3>4. Total(Cost', {c}) = use + more /\ Total(Cost, {c}) = 0
      BY <1>4, <1>10, <1>11, TotalOfOne
    <3>5. ASSUME NEW d \in Mine(w) \ {c} PROVE Cost'[d] = Cost[d]
      <4>1. d \in Call /\ d # c
        BY <3>1
      <4> QED
        BY <4>1, <1>3, <1>11, CostFate
    <3>6. Total(Cost', Mine(w) \ {c}) = Total(Cost, Mine(w) \ {c})
      BY <3>5, TotalSame
    <3>7. Total(Cost, Mine(w) \ {c}) \in Nat
      BY <3>1, <1>10, UnitsFinite
    <3> QED
      BY <3>2, <3>3, <3>4, <3>6, <3>7, <1>5
  <2>7. Total(Cost', Mine(w)') = Total(Cost', Mine(w))
    BY <1>7, Zenon
  <2>8. v.ctok = window[w].ctok + use /\ v.utok = window[w].utok + more
    BY <1>6, <1>13
  <2>9. v.rtok = Total(Tokens, In(w, Live)')
    BY <2>1, <2>2, <2>3, <2>5, <1>5, <1>8
  <2>10. v.ctok + v.utok = Total(Cost', Mine(w)')
    <3>1. v.ctok + v.utok = (window[w].ctok + window[w].utok) + use + more
      BY <2>4, <2>8, <1>5
    <3> QED
      BY <3>1, <2>6, <2>7, <1>8
  <2>11. /\ v.ctok + v.utok >= window[w].ctok + window[w].utok
         /\ v.ctok + v.utok + v.rtok <= window[w].ctok + window[w].utok + window[w].rtok
    BY <2>4, <2>5, <2>8, <1>5
  <2> QED
    BY <2>9, <2>10, <2>11, <1>6, <1>9 DEF Booked, v
<1> QED
  BY <1>12, <1>13

(* Every step keeps the ledger. *)
LEMMA LedgerStep ==
    ASSUME TypeOK, TypeOK', Coherent, Ledger, [Next]_vars
    PROVE  Ledger'
<1> SUFFICES ASSUME NEW w \in Window PROVE Booked(w)'
  BY DEF Ledger, Window, Key, Time
<1>1. Booked(w)
  BY DEF Ledger
<1>2. CASE UNCHANGED <<window, lease>>
  <2>1. ASSUME NEW d \in Mine(w) PROVE Cost'[d] = Cost[d]
    BY <1>2, CostFate DEF Cost, Mine
  <2>2. Total(Cost', Mine(w)) = Total(Cost, Mine(w))
    BY <2>1, TotalSame
  <2>3. /\ In(w, {"active"})' = In(w, {"active"}) /\ In(w, Live)' = In(w, Live)
        /\ SentIn(w)' = SentIn(w) /\ Mine(w)' = Mine(w) /\ window' = window
    BY <1>2 DEF In, SentIn, Mine
  <2>4. /\ Cardinality(In(w, {"active"})') = Cardinality(In(w, {"active"}))
        /\ Total(Tokens, In(w, Live)') = Total(Tokens, In(w, Live))
        /\ Cardinality(SentIn(w)') = Cardinality(SentIn(w))
        /\ Total(Cost', Mine(w)') = Total(Cost', Mine(w))
    BY <2>3, Zenon
  <2> QED
    BY <2>2, <2>3, <2>4, <1>1 DEF Booked
<1> QED
  BY <1>1, <1>2, Transactions, TakesBooked, MarksBooked, SettlesBooked, ReturnsBooked

(* The second part of the inductive invariant. *)
Accounts == Agreement /\ Ledger

(* The columns of every window always are the sums over the leases mapped  *)
(* to it.                                                                  *)
LEMMA AlwaysAccounts == Spec => []Accounts
<1>1. Init => Accounts
  <2> SUFFICES ASSUME Init PROVE Ledger
    BY AgreementStart DEF Accounts
  <2> SUFFICES ASSUME NEW w \in Window PROVE Booked(w)
    BY DEF Ledger
  <2>1. /\ In(w, {"active"}) = {} /\ In(w, Live) = {} /\ SentIn(w) = {} /\ Mine(w) = {}
        /\ window[w] = Empty
    BY DEF Init, NoLease, In, SentIn, Mine
  <2>2. /\ Cardinality(In(w, {"active"})) = 0 /\ Cardinality(SentIn(w)) = 0
        /\ Total(Tokens, In(w, Live)) = 0 /\ Total(Cost, Mine(w)) = 0
    BY <2>1, FS_EmptySet, TotalOfNone, Zenon
  <2> QED
    BY <2>1, <2>2 DEF Booked, Empty
<1>2. Accounts /\ [Next]_vars => Accounts'
  <2> SUFFICES ASSUME Accounts, [Next]_vars PROVE Accounts'
    OBVIOUS
  <2>1. Agreement'
    BY AgreementStep DEF Accounts
  <2> QED
    BY <2>1, LedgerStep DEF Accounts, Agreement
<1> QED
  BY <1>1, <1>2, PTL DEF Spec

(* Every window adds up to its leases: expire, acquire, dispatch, commit   *)
(* and release each move exactly the reservation of the leases they touch, *)
(* and Minus never stops at zero with a reservation left.                  *)
THEOREM LedgerIsExact == Spec => []LedgerMatchesLeases
<1>1. Accounts => LedgerMatchesLeases
  <2> SUFFICES ASSUME Accounts, NEW w \in Window
               PROVE  LET mine == {c \in Call : w \in lease[c].windows}
                          in(S) == {c \in mine : lease[c].state \in S}
                      IN  /\ window[w].rreq = Cardinality(in({"active"}))
                          /\ window[w].creq = Cardinality({c \in mine : lease[c].sent})
                          /\ window[w].rtok = TokensOf(in(Live))
    BY DEF LedgerMatchesLeases
  <2> DEFINE mine == {c \in Call : w \in lease[c].windows}
             in(S) == {c \in mine : lease[c].state \in S}
             sent == {c \in mine : lease[c].sent}
  <2>1. in({"active"}) = In(w, {"active"}) /\ in(Live) = In(w, Live) /\ sent = SentIn(w)
    BY DEF In, SentIn
  <2>2. in(Live) \in SUBSET Call
    OBVIOUS
  <2>3. TokensOf(in(Live)) = Total(Tokens, in(Live))
    BY <2>2, TokensTyped
  <2> HIDE DEF mine, in, sent
  <2>4. /\ Cardinality(in({"active"})) = Cardinality(In(w, {"active"}))
        /\ Cardinality(sent) = Cardinality(SentIn(w))
        /\ TokensOf(in(Live)) = Total(Tokens, In(w, Live))
    BY <2>1, <2>3, Zenon
  <2>5. Booked(w)
    BY DEF Accounts, Ledger
  <2>6. /\ window[w].rreq = Cardinality(in({"active"})) /\ window[w].creq = Cardinality(sent)
        /\ window[w].rtok = TokensOf(in(Live))
    BY <2>4, <2>5 DEF Booked
  <2> QED
    BY <2>6 DEF in, mine, sent
<1> QED
  BY <1>1, AlwaysAccounts, PTL

(* A call used no more than it reserved, and nothing before it was sent:   *)
(* while its lease lives the reservation covers it, afterwards the charge. *)
THEOREM SpendIsCovered == Spec => []SpendNeverLost
<1>1. Accounts => SpendNeverLost
  <2> SUFFICES ASSUME Accounts, NEW w \in Window
               PROVE  Cardinality(UNION {{c} \X (1..call[c].used) : c \in {d \in Call : w \in lease[d].windows}})
                          <= window[w].ctok + window[w].utok + window[w].rtok
    BY DEF SpendNeverLost
  <2> DEFINE Used == [c \in Call |-> call[c].used]
             L == In(w, Live)
             M == Mine(w)
  <2>1. TypeOK /\ Coherent /\ Booked(w)
    BY DEF Accounts, Agreement, Ledger
  <2>2. /\ Used \in [Call -> Nat] /\ Tokens \in [Call -> Nat] /\ Cost \in [Call -> Nat]
        /\ \A c \in Call : Used[c] = call[c].used /\ Cost[c] = CostOf(c)
    BY <2>1, CostTyped, QuotaAssumption, Types DEF Cost, Calls
  <2>3. L \in SUBSET Call /\ M \in SUBSET Call /\ L \subseteq M /\ M \ L \in SUBSET Call /\ M \cap L = L
    BY DEF In, Mine
  <2>4. Cardinality(UNION {{c} \X (1..call[c].used) : c \in {d \in Call : w \in lease[d].windows}}) = Total(Used, M)
    <3>1. {d \in Call : w \in lease[d].windows} = M
      BY DEF Mine
    <3>2. UNION {{c} \X (1..call[c].used) : c \in M} = Units(Used, M)
      BY <2>3 DEF Units
    <3> HIDE DEF M
    <3> QED
      BY <3>1, <3>2, Zenon DEF Total
  <2>5. ASSUME NEW c \in L PROVE Used[c] <= Tokens[c]
    BY <2>1, <2>2, <2>3 DEF Coherent, CallFollows
  <2>6. ASSUME NEW c \in M \ L PROVE Used[c] <= Cost[c]
    <3>1. c \in Call /\ lease[c].state \notin Live
      BY <2>3 DEF In, Mine
    <3>2. /\ Follows(c) /\ CallFollows(c) /\ lease[c] \in Leases
          /\ call[c].used \in Nat /\ Tokens[c] \in Nat
      BY <2>1, <2>2, <3>1, Types DEF Coherent, Calls
    <3>3. CASE lease[c].sent
      <4>1. lease[c].state \in {"committed", "released", "expired"}
        BY <3>1, <3>2, <3>3 DEF Follows, Leases
      <4>2. call[c].used <= CostOf(c)
        BY <3>2, <3>3, <4>1 DEF CostOf, CallFollows
      <4> QED
        BY <4>2, <3>1, <2>2
    <3>4. CASE ~lease[c].sent
      <4>1. call[c].used = 0
        BY <3>2, <3>4 DEF CallFollows
      <4>2. Cost[c] \in Nat /\ Used[c] = 0
        BY <4>1, <3>1, <2>2
      <4> QED
        BY <4>2
    <3> QED
      BY <3>3, <3>4
  <2> HIDE DEF Used, L, M
  <2>7. Total(Used, M) = Total(Used, M \ L) + Total(Used, L)
    <3>1. Total(Used, M) = Total(Used, M \ L) + Total(Used, M \cap L)
      BY <2>2, <2>3, TotalSplit
    <3> QED
      BY <3>1, <2>3, Zenon
  <2>8. Total(Used, L) <= Total(Tokens, L)
    BY <2>2, <2>3, <2>5, TotalAtMost
  <2>9. Total(Used, M \ L) <= Total(Cost, M \ L)
    BY <2>2, <2>3, <2>6, TotalAtMost
  <2>10. Total(Cost, M \ L) <= Total(Cost, M)
    <3>1. \A c \in M \ L : Cost[c] <= Cost[c]
      BY <2>2, <2>3
    <3>2. M \ L \subseteq M
      OBVIOUS
    <3> QED
      BY <3>1, <3>2, <2>2, <2>3, TotalAtMost
  <2>11. /\ Total(Used, M \ L) \in Nat /\ Total(Used, L) \in Nat /\ Total(Tokens, L) \in Nat
         /\ Total(Cost, M \ L) \in Nat /\ Total(Cost, M) \in Nat
    BY <2>2, <2>3, UnitsFinite
  <2>12. window[w].ctok + window[w].utok = Total(Cost, M) /\ window[w].rtok = Total(Tokens, L)
    BY <2>1 DEF Booked, L, M
  <2> QED
    BY <2>4, <2>7, <2>8, <2>9, <2>10, <2>11, <2>12
<1> QED
  BY <1>1, AlwaysAccounts, PTL

(* Taking a lease changes no column but those it reserves in: the stale    *)
(* leases' go down, and what they were sent for is counted.                *)
LEMMA TakesColumns ==
    ASSUME TypeOK, Coherent, NEW w \in Window, Booked(w), NEW c \in Call, Takes(c)
    PROVE  LET u == Unmapped(Stale)[w]
               v == window'[w]
           IN  /\ u \in Columns
               /\ v.creq = window[w].creq /\ v.ctok = window[w].ctok
               /\ v.utok = u.utok /\ v.utok >= window[w].utok
               /\ u.creq = window[w].creq /\ u.ctok = window[w].ctok /\ u.rreq <= window[w].rreq
               /\ u.rtok + u.utok <= window[w].rtok + window[w].utok
               /\ w \in NewWindows(c) => v.rreq = u.rreq + 1 /\ v.rtok = u.rtok + Tokens[c]
               /\ w \notin NewWindows(c) => v.rreq = u.rreq /\ v.rtok = u.rtok
<1> DEFINE u == Unmapped(Stale)[w]
           v == window'[w]
           d == Total(Tokens, In(w, {"dispatched"}) \cap Stale)
<1>1. Stale \in SUBSET Call /\ \A b \in Stale : lease[b].state \in Live
  BY DEF Stale
<1>2. u \in Columns /\ window[w] \in Columns
  BY <1>1, UnmappedTyped, Types
<1>3. /\ u.creq = window[w].creq /\ u.ctok = window[w].ctok /\ u.utok = window[w].utok + d
      /\ u.rreq <= window[w].rreq /\ u.rtok + u.utok <= window[w].rtok + window[w].utok
  BY <1>1, GiveBack
<1>4. d \in Nat
  <2>1. In(w, {"dispatched"}) \cap Stale \in SUBSET Call
    BY <1>1
  <2> QED
    BY <2>1, UnitsFinite, QuotaAssumption
<1>5. v = IF w \in NewWindows(c) THEN [u EXCEPT !.rreq = @ + 1, !.rtok = @ + Tokens[c]] ELSE u
  BY DEF Takes, Acquired, NewWindows
<1> HIDE DEF u, v, d
<1>6. /\ v.creq = u.creq /\ v.ctok = u.ctok /\ v.utok = u.utok
      /\ w \in NewWindows(c) => v.rreq = u.rreq + 1 /\ v.rtok = u.rtok + Tokens[c]
      /\ w \notin NewWindows(c) => v.rreq = u.rreq /\ v.rtok = u.rtok
  BY <1>2, <1>5 DEF Columns
<1>7. u.utok >= window[w].utok
  BY <1>2, <1>3, <1>4 DEF Columns
<1> QED
  BY <1>2, <1>3, <1>6, <1>7 DEF u, v

(* Counted use only grows, and a settled lease stays as it was settled:    *)
(* expiry and release convert what was sent, release skips the leases that *)
(* expired, and commit and dispatch refuse what is settled.                *)
THEOREM UsageIsKept == Spec => UsageNeverForgotten
<1> DEFINE Grows(w) == /\ window'[w].creq >= window[w].creq
                       /\ window'[w].ctok + window'[w].utok >= window[w].ctok + window[w].utok
           Stays(c) == lease[c].state \in {"committed", "released", "expired"} => lease'[c] = lease[c]
<1>1. ASSUME Accounts, [Next]_vars, NEW w \in Window PROVE Grows(w)
  <2>1. TypeOK /\ Coherent /\ Booked(w)
    BY <1>1 DEF Accounts, Agreement, Ledger
  <2>2. window[w] \in Columns
    BY <2>1, Types
  <2>3. /\ window[w].creq \in Nat /\ window[w].ctok \in Nat /\ window[w].utok \in Nat
    BY <2>2 DEF Columns
  <2>4. TypeOK'
    BY <1>1, AgreementStep DEF Accounts, Agreement
  <2>5. CASE UNCHANGED <<window, lease>>
    BY <2>3, <2>5
  <2>6. ASSUME NEW c \in Call, Takes(c) PROVE Grows(w)
    <3>1. /\ window'[w].creq = window[w].creq /\ window'[w].ctok = window[w].ctok
          /\ window'[w].utok = Unmapped(Stale)[w].utok /\ window'[w].utok >= window[w].utok
          /\ Unmapped(Stale)[w] \in Columns
      BY <2>1, <2>6, TakesColumns
    <3>2. Unmapped(Stale)[w].utok \in Nat
      BY <3>1 DEF Columns
    <3> QED
      BY <2>3, <3>1, <3>2
  <2>7. ASSUME NEW c \in Call, Marks(c) PROVE Grows(w)
    BY <1>1, <2>1, <2>3, <2>4, <2>7, MarksBooked
  <2>8. ASSUME NEW c \in Call, Settles(c) PROVE Grows(w)
    BY <1>1, <2>1, <2>3, <2>4, <2>8, SettlesBooked
  <2>9. ASSUME NEW c \in Call, Returns(c) PROVE Grows(w)
    <3> DEFINE d == Total(Tokens, In(w, {"dispatched"}) \cap {c})
    <3>1. {c} \in SUBSET Call /\ \A b \in {c} : lease[b].state \in Live
      BY <2>9 DEF Returns
    <3>2. /\ window'[w].creq = window[w].creq /\ window'[w].ctok = window[w].ctok
          /\ window'[w].utok = window[w].utok + d
      BY <2>1, <2>9, <3>1, GiveBack DEF Returns
    <3>3. d \in Nat
      <4>1. In(w, {"dispatched"}) \cap {c} \in SUBSET Call
        BY <3>1
      <4> QED
        BY <4>1, UnitsFinite, QuotaAssumption
    <3> HIDE DEF d
    <3> QED
      BY <2>3, <3>2, <3>3
  <2> HIDE DEF Grows
  <2> QED
    BY <1>1, <2>1, <2>5, <2>6, <2>7, <2>8, <2>9, Transactions
<1>2. ASSUME Accounts, [Next]_vars, NEW c \in Call PROVE Stays(c)
  <2>1. PICK e \in Exec : c \in InPlan(e)
    BY QuotaAssumption
  <2>2. TypeOK /\ Follows(c) /\ CallFollows(c)
    BY <1>2 DEF Accounts, Agreement, Coherent
  <2>3. Fate(e, c)
    BY <1>2, <2>1, <2>2, Fates
  <2>4. Expires(c) \/ Admits(e, c) \/ Completes(e, c) \/ Sends(e, c)
            => lease[c].state \in Live \cup {"none"}
    BY <2>2 DEF Expires, Stale, Admits, Completes, Sends, Follows, NoLease, Live
  <2>5. Undoes(e, c) \/ Fails(e, c) => lease[c].state \in Live \/ lease'[c] = lease[c]
    BY <2>2 DEF Undoes, Fails, Put, Left, Follows, CallFollows, Live
  <2> QED
    BY <2>3, <2>4, <2>5 DEF Fate, Put, Blocks, Breaks, Answers, Errs, Live
<1>3. Accounts /\ [Next]_vars => [/\ \A w \in Window : Grows(w)
                                  /\ \A c \in Call : Stays(c)]_vars
  BY <1>1, <1>2
<1> QED
  BY <1>3, AlwaysAccounts, PTL DEF Spec, UsageNeverForgotten

-----------------------------------------------------------------------------
(* Limits.                                                                 *)

(* A lease reserves in windows of the policy it was admitted by, and that  *)
(* policy exists: no one deletes a policy.                                 *)
Policed(c) == \A w \in lease[c].windows : w.limit = lease[c].limit /\ policy[w.limit].present

Bounded(w) ==
    policy[w.limit].limited =>
        /\ window[w].creq + window[w].rreq <= MaxRequests[w.kind]
        /\ window[w].ctok + window[w].utok + window[w].rtok <= MaxTokens[w.kind]

InForce(k) == {c \in Call : /\ lease[c].limit = k /\ lease[c].windows # {}
                            /\ lease[c].state \in Live
                            /\ lease[c].at + TTL[c] > now}

Limits == /\ \A c \in Call : Policed(c)
          /\ \A w \in Window : Bounded(w)
          /\ \A k \in Key : policy[k].limited => Cardinality(InForce(k)) <= MaxConcurrency

(* A policy keeps its limits; one that appears does so while no lease does *)
(* anything.                                                               *)
LEMMA PolicyFate ==
    ASSUME TypeOK, [Next]_vars, NEW k \in Key
    PROVE  /\ policy[k].present => policy'[k].present /\ policy'[k].limited = policy[k].limited
           /\ ~policy[k].present => policy'[k] = policy[k] \/ UNCHANGED <<window, lease, now>>
<1> DEFINE Goal == /\ policy[k].present => policy'[k].present /\ policy'[k].limited = policy[k].limited
                   /\ ~policy[k].present => policy'[k] = policy[k] \/ UNCHANGED <<window, lease, now>>
<1>1. policy \in [Key -> Policy]
  BY Types
<1>2. ASSUME NEW h \in Key, NEW r, RateLimited(h, r), UNCHANGED <<window, lease, now>> PROVE Goal
  <2>1. CASE policy[h].present
    BY <1>1, <1>2, <2>1 DEF RateLimited, Policy
  <2>2. CASE ~policy[h].present
    <3>1. h # k => policy'[k] = policy[k]
      BY <1>1, <1>2, <2>2 DEF RateLimited
    <3> QED
      BY <3>1, <1>2, <2>2
  <2> QED
    BY <2>1, <2>2
<1>3. ASSUME NEW e \in Exec, NEW c \in Call, RecordRateLimit(e, c) PROVE Goal
  <2>1. PICK r \in RetryAfter : RateLimited(ModelOf[c], r)
    BY <1>3 DEF RecordRateLimit
  <2>2. ModelOf[c] \in Key /\ UNCHANGED <<window, lease, now>>
    BY <1>3, QuotaAssumption DEF RecordRateLimit, Key
  <2> QED
    BY <2>1, <2>2, <1>2
<1>4. ASSUME CliRateLimit PROVE Goal
  <2>1. AnyModel \in Key /\ RateLimited(AnyModel, 1) /\ UNCHANGED <<window, lease, now>>
    BY <1>4 DEF CliRateLimit, Key
  <2> QED
    BY <2>1, <1>2
<1>5. ASSUME NEW h \in Key, CreateLimit(h) PROVE Goal
  <2>1. ~policy[h].present /\ UNCHANGED <<window, lease, now>> /\ (h # k => policy'[k] = policy[k])
    BY <1>1, <1>5 DEF CreateLimit
  <2> QED
    BY <2>1
<1>6. ASSUME NEW h \in Key, PatchLimit(h) PROVE Goal
  <2>1. /\ policy'[k].present = policy[k].present /\ policy'[k].limited = policy[k].limited
        /\ UNCHANGED <<window, lease, now>>
    BY <1>1, <1>6 DEF PatchLimit, Policy
  <2> QED
    BY <2>1
<1>8. ASSUME NEW c \in Call, NimRateLimited(c) PROVE Goal
  <2>1. PICK r \in RetryAfter : RateLimited(ModelOf[c], r)
    BY <1>8 DEF NimRateLimited
  <2>2. ModelOf[c] \in Key /\ UNCHANGED <<window, lease, now>>
    BY <1>8, QuotaAssumption DEF NimRateLimited, Key
  <2> QED
    BY <2>1, <2>2, <1>2
<1>7. \/ UNCHANGED policy
      \/ \E e \in Exec, c \in Call : RecordRateLimit(e, c)
      \/ \E c \in Call : NimRateLimited(c)
      \/ CliRateLimit
      \/ \E h \in Key : CreateLimit(h) \/ PatchLimit(h)
  BY DEF Next, Caller, vars, db, AdmitBranch, Begin, Undo, DispatchBranch, PlanFails, Finish, Complete,
         Fail, Invoke, Crash, Tick
<1> QED
  BY <1>3, <1>4, <1>5, <1>6, <1>7, <1>8

(* A window of a policy that does not exist yet has nothing in it. *)
LEMMA NothingBooked ==
    ASSUME TypeOK, NEW w \in Window, Booked(w), \A c \in Call : Policed(c), ~policy[w.limit].present
    PROVE  /\ window[w].creq + window[w].rreq = 0
           /\ window[w].ctok + window[w].utok + window[w].rtok = 0
<1>1. Mine(w) = {} /\ In(w, {"active"}) = {} /\ In(w, Live) = {} /\ SentIn(w) = {}
  BY DEF Mine, In, SentIn, Policed
<1>2. /\ Cardinality(In(w, {"active"})) = 0 /\ Cardinality(SentIn(w)) = 0
      /\ Total(Tokens, In(w, Live)) = 0 /\ Total(Cost, Mine(w)) = 0
  BY <1>1, FS_EmptySet, TotalOfNone, Zenon
<1> QED
  BY <1>2 DEF Booked

(* What a step does to the windows and the times of the leases. *)
LEMMA LeaseFate ==
    ASSUME TypeOK, NEW c \in Call, NEW d \in Call, Takes(c) \/ Marks(c) \/ Settles(c) \/ Returns(c)
    PROVE  /\ d # c \/ ~Takes(c) =>
                 /\ lease'[d].windows = lease[d].windows /\ lease'[d].limit = lease[d].limit
                 /\ lease'[d].at = lease[d].at
                 /\ lease'[d].state \in Live => lease[d].state \in Live
           /\ d = c /\ Takes(c) =>
                 lease'[d].windows = NewWindows(c) /\ lease'[d].limit = Effective(c)
<1>1. lease \in [Call -> Leases] /\ lease[d] \in Leases
  BY Types
<1>2. CASE Takes(c)
  <2>1. lease'[d] = IF d = c THEN [state |-> "active", limit |-> Effective(c), at |-> now,
                                   windows |-> NewWindows(c), sent |-> FALSE]
                    ELSE IF d \in Stale THEN [lease[d] EXCEPT !.state = "expired"]
                    ELSE lease[d]
    BY <1>2, Rows DEF Takes
  <2>2. CASE d = c
    BY <1>2, <2>1, <2>2
  <2>3. CASE d # c /\ d \in Stale
    BY <2>1, <2>3, <1>1 DEF Leases, Live
  <2>4. CASE d # c /\ d \notin Stale
    BY <2>1, <2>4
  <2> QED
    BY <2>2, <2>3, <2>4
<1>3. CASE Marks(c) /\ ~Takes(c)
  BY <1>1, <1>3 DEF Marks, Dispatched, Leases, Live
<1>4. CASE Settles(c) /\ ~Takes(c)
  BY <1>1, <1>4 DEF Settles, Committed, Leases, Live
<1>5. CASE Returns(c) /\ ~Takes(c)
  BY <1>1, <1>5 DEF Returns, Leases, Live
<1> QED
  BY <1>2, <1>3, <1>4, <1>5

(* A lease keeps counting against a policy that is present.                *)
LEMMA PolicedStep ==
    ASSUME TypeOK, Coherent, \A c \in Call : Policed(c), [Next]_vars, NEW c \in Call
    PROVE  Policed(c)'
<1>1. \A k \in Key : policy[k].present => policy'[k].present
  BY PolicyFate
<1>2. \A w \in lease[c].windows : w.limit = lease[c].limit /\ policy[w.limit].present /\ w.limit \in Key
  <2>1. lease[c].windows \subseteq Window
    BY Types DEF Leases
  <2> QED
    BY <2>1, WindowIsOfPolicy DEF Policed
<1> DEFINE Kept  == lease'[c].windows = lease[c].windows /\ lease'[c].limit = lease[c].limit
           Taken == lease'[c].windows = NewWindows(c) /\ lease'[c].limit = Effective(c)
<1>3. CASE Kept
  BY <1>1, <1>2, <1>3 DEF Policed
<1>4. CASE Taken
  <2>1. ASSUME NEW w \in NewWindows(c) PROVE w.limit = Effective(c) /\ policy[w.limit].present /\ w.limit \in Key
    <3>1. w.limit = Effective(c) /\ w \in Window
      BY NewWindowsTyped
    <3>2. Effective(c) # None
      BY DEF NewWindows
    <3> QED
      BY <3>1, <3>2, EffectiveTyped, WindowIsOfPolicy
  <2> QED
    BY <2>1, <1>1, <1>4 DEF Policed
<1>5. Kept \/ Taken
  BY Transactions, LeaseFate
<1> QED
  BY <1>3, <1>4, <1>5

(* Usage and reservations together stay within the limits of the window.   *)
LEMMA BoundedStep ==
    ASSUME Accounts, Limits, [Next]_vars, NEW w \in Window
    PROVE  Bounded(w)'
<1>1. TypeOK /\ TypeOK' /\ Coherent /\ Booked(w)
  BY TypeStep DEF Accounts, Agreement, Ledger
<1>2. Bounded(w) /\ \A c \in Call : Policed(c)
  BY DEF Limits
<1>3. w.limit \in Key /\ MaxRequests[w.kind] \in Nat /\ MaxTokens[w.kind] \in Nat
  BY WindowIsOfPolicy, QuotaAssumption
<1> DEFINE requests == window[w].creq + window[w].rreq
           tokens == window[w].ctok + window[w].utok + window[w].rtok
           limit == policy[w.limit]
           Fits == /\ window'[w].creq + window'[w].rreq <= MaxRequests[w.kind]
                   /\ window'[w].ctok + window'[w].utok + window'[w].rtok <= MaxTokens[w.kind]
<1>4. SUFFICES ASSUME policy'[w.limit].limited PROVE Fits
  BY DEF Bounded
<1>5. /\ window[w].creq \in Nat /\ window[w].rreq \in Nat /\ window[w].ctok \in Nat
      /\ window[w].utok \in Nat /\ window[w].rtok \in Nat
  BY <1>1, Types DEF Columns
<1>6. CASE UNCHANGED window
  <2>1. limit.limited => requests <= MaxRequests[w.kind] /\ tokens <= MaxTokens[w.kind]
    BY <1>2 DEF Bounded
  <2>2. ~limit.present => requests = 0 /\ tokens = 0
    BY <1>1, <1>2, NothingBooked
  <2>3. limit.limited \/ ~limit.present
    BY <1>1, <1>3, <1>4, PolicyFate
  <2> QED
    BY <2>1, <2>2, <2>3, <1>3, <1>6
<1>7. ASSUME NEW c \in Call, Takes(c), UNCHANGED <<policy, now>> PROVE Fits
  <2> DEFINE u == Unmapped(Stale)[w]
             v == window'[w]
  <2>1. /\ u \in Columns
        /\ v.creq = window[w].creq /\ v.ctok = window[w].ctok /\ v.utok = u.utok
        /\ u.creq = window[w].creq /\ u.ctok = window[w].ctok /\ u.rreq <= window[w].rreq
        /\ u.rtok + u.utok <= window[w].rtok + window[w].utok
        /\ w \in NewWindows(c) => v.rreq = u.rreq + 1 /\ v.rtok = u.rtok + Tokens[c]
        /\ w \notin NewWindows(c) => v.rreq = u.rreq /\ v.rtok = u.rtok
    BY <1>1, <1>7, TakesColumns
  <2>2. limit.limited /\ requests <= MaxRequests[w.kind] /\ tokens <= MaxTokens[w.kind]
    BY <1>2, <1>4, <1>7 DEF Bounded
  <2>3. u.rreq \in Nat /\ u.rtok \in Nat /\ u.utok \in Nat /\ Tokens[c] \in Nat
    BY <2>1, QuotaAssumption DEF Columns
  <2>4. CASE w \in NewWindows(c)
    <3>1. w.limit = Effective(c) /\ Effective(c) # None /\ policy[Effective(c)].enabled /\ w \in Bounds(Effective(c), now)
      BY <2>4, <1>1, NewWindowsTyped DEF NewWindows
    <3>2. Within(w, Unmapped(Stale), Tokens[c])
      BY <1>7, <2>2, <3>1 DEF Takes, Allowed
    <3>3. u.creq + u.rreq + 1 <= MaxRequests[w.kind] /\ u.ctok + u.utok + u.rtok + Tokens[c] <= MaxTokens[w.kind]
      BY <3>2 DEF Within
    <3> HIDE DEF u, v
    <3> QED
      BY <2>1, <2>3, <2>4, <3>3, <1>5 DEF v
  <2>5. CASE w \notin NewWindows(c)
    <3>1. v.rreq = u.rreq /\ v.rtok = u.rtok
      BY <2>1, <2>5
    <3> HIDE DEF u, v
    <3>2. v.creq + v.rreq <= requests /\ v.ctok + v.utok + v.rtok <= tokens
      BY <2>1, <2>3, <3>1, <1>5
    <3>3. /\ v.creq \in Nat /\ v.rreq \in Nat /\ v.ctok \in Nat /\ v.utok \in Nat /\ v.rtok \in Nat
      BY <2>1, <2>3, <3>1, <1>5
    <3> QED
      BY <2>2, <3>2, <3>3, <1>3, <1>5 DEF v
  <2> QED
    BY <2>4, <2>5
<1>8. ASSUME NEW c \in Call, Marks(c), UNCHANGED policy PROVE Fits
  <2>1. /\ window'[w].creq + window'[w].rreq = requests
        /\ window'[w].ctok = window[w].ctok /\ window'[w].utok = window[w].utok
        /\ window'[w].rtok = window[w].rtok
    BY <1>1, <1>8, MarksBooked
  <2> QED
    BY <2>1, <1>2, <1>4, <1>8 DEF Bounded
<1>9. ASSUME NEW c \in Call, Settles(c), UNCHANGED policy PROVE Fits
  <2>1. /\ window'[w].creq = window[w].creq /\ window'[w].rreq = window[w].rreq
        /\ window'[w].ctok + window'[w].utok + window'[w].rtok <= tokens
    BY <1>1, <1>9, SettlesBooked
  <2>2. window'[w].ctok \in Nat /\ window'[w].utok \in Nat /\ window'[w].rtok \in Nat
    <3>1. window'[w] \in Columns
      BY <1>1 DEF TypeOK, Columns
    <3> QED
      BY <3>1 DEF Columns
  <2> QED
    BY <2>1, <2>2, <1>2, <1>3, <1>4, <1>5, <1>9 DEF Bounded
<1>10. ASSUME NEW c \in Call, Returns(c), UNCHANGED policy PROVE Fits
  <2> DEFINE u == Unmapped({c})[w]
  <2>1. {c} \in SUBSET Call /\ \A d \in {c} : lease[d].state \in Live
    BY <1>10 DEF Returns
  <2>2. /\ u.creq = window[w].creq /\ u.ctok = window[w].ctok
        /\ u.rreq <= window[w].rreq /\ u.rtok + u.utok <= window[w].rtok + window[w].utok
    BY <1>1, <2>1, GiveBack
  <2>3. u \in Columns
    BY <1>1, <2>1, UnmappedTyped
  <2>4. window'[w] = u
    BY <1>10 DEF Returns
  <2> HIDE DEF u
  <2>5. u.rreq \in Nat /\ u.rtok \in Nat /\ u.utok \in Nat
    BY <2>3 DEF Columns
  <2>6. requests <= MaxRequests[w.kind] /\ tokens <= MaxTokens[w.kind]
    BY <1>2, <1>4, <1>10 DEF Bounded
  <2>7. u.creq + u.rreq <= requests /\ u.ctok + u.utok + u.rtok <= tokens
    BY <2>2, <2>5, <1>5
  <2> QED
    BY <2>2, <2>4, <2>5, <2>6, <2>7, <1>3, <1>5
<1> HIDE DEF Fits
<1> QED
  BY <1>1, <1>6, <1>7, <1>8, <1>9, <1>10, Transactions

(* The leases in force under a policy stay within its concurrency.         *)
LEMMA InForceStep ==
    ASSUME Accounts, Limits, [Next]_vars, NEW k \in Key, policy'[k].limited
    PROVE  Cardinality(InForce(k)') <= MaxConcurrency
<1>1. TypeOK /\ Coherent /\ MaxConcurrency \in Nat /\ TTL \in [Call -> Nat \ {0}]
  BY QuotaAssumption DEF Accounts, Agreement
<1>2. (policy[k].limited => Cardinality(InForce(k)) <= MaxConcurrency) /\ \A c \in Call : Policed(c)
  BY DEF Limits
<1>3. /\ InForce(k) \in SUBSET Call /\ IsFiniteSet(InForce(k)) /\ Cardinality(InForce(k)) \in Nat
      /\ InForce(k)' \in SUBSET Call
  <2>1. InForce(k) \in SUBSET Call /\ InForce(k)' \in SUBSET Call
    BY DEF InForce
  <2> QED
    BY <2>1, Countable
<1>4. ~policy[k].present => InForce(k) = {}
  BY <1>2 DEF InForce, Policed
<1>5. policy[k].limited \/ ~policy[k].present
  BY <1>1, PolicyFate
<1>6. Cardinality(InForce(k)) <= MaxConcurrency
  BY <1>1, <1>2, <1>4, <1>5, FS_EmptySet
<1>7. ASSUME InForce(k)' \subseteq InForce(k) PROVE Cardinality(InForce(k)') <= MaxConcurrency
  <2>1. Cardinality(InForce(k)') <= Cardinality(InForce(k)) /\ Cardinality(InForce(k)') \in Nat
    BY <1>3, <1>7, FS_Subset, Countable
  <2> QED
    BY <2>1, <1>1, <1>3, <1>6
<1>8. now \in Nat /\ (now' = now \/ now' = now + 1)
  <2>1. now \in Nat
    BY <1>1, Types, QuotaAssumption DEF Time
  <2>2. now' = now \/ now' = now + 1
    BY DEF Next, Caller, vars, db, AdmitBranch, Begin, Undo, DispatchBranch, PlanFails, Finish, Complete,
           RecordRateLimit, Fail, Invoke, NimRateLimited, Crash, CreateLimit, PatchLimit, CliRateLimit, Tick
  <2> QED
    BY <2>1, <2>2
<1>9. \A c \in Call : lease[c].at \in Nat /\ TTL[c] \in Nat
  BY <1>1, Types, QuotaAssumption DEF Leases, Time
<1>10. CASE UNCHANGED lease
  BY <1>7, <1>8, <1>9, <1>10 DEF InForce
<1>11. ASSUME NEW c \in Call, Takes(c) \/ Marks(c) \/ Settles(c) \/ Returns(c), UNCHANGED <<policy, now>>
       PROVE  Cardinality(InForce(k)') <= MaxConcurrency
  <2>1. ASSUME NEW d \in InForce(k)', d # c \/ ~Takes(c) PROVE d \in InForce(k)
    BY <1>1, <1>3, <1>11, <2>1, LeaseFate DEF InForce
  <2>2. CASE c \in InForce(k)' /\ Takes(c)
    <3>1. NewWindows(c) # {} /\ Effective(c) = k
      BY <1>1, <2>2, LeaseFate DEF InForce
    <3>2. k # None /\ policy[k].enabled /\ policy[k].limited
      BY <3>1, <1>11 DEF NewWindows
    <3>3. ActiveCount(k) < MaxConcurrency
      BY <2>2, <3>1, <3>2 DEF Takes, Allowed
    <3> DEFINE A == {d \in Call : lease[d].limit = k /\ lease[d].state \in Live /\ lease[d].at + TTL[d] > now}
    <3>4. A \in SUBSET Call /\ InForce(k) \subseteq A /\ ActiveCount(k) = Cardinality(A)
      BY DEF InForce, ActiveCount
    <3> HIDE DEF A
    <3>5. IsFiniteSet(A) /\ Cardinality(A) \in Nat
      BY <3>4, Countable
    <3>6. InForce(k)' \subseteq A \cup {c}
      BY <2>1, <3>4
    <3>7. IsFiniteSet(A \cup {c}) /\ Cardinality(A \cup {c}) <= Cardinality(A) + 1
      BY <3>5, FS_AddElement
    <3>8. /\ Cardinality(InForce(k)') <= Cardinality(A \cup {c})
          /\ Cardinality(InForce(k)') \in Nat /\ Cardinality(A \cup {c}) \in Nat
      BY <1>3, <3>6, <3>7, FS_Subset, FS_CardinalityType
    <3> QED
      BY <3>3, <3>4, <3>5, <3>7, <3>8, <1>1
  <2>3. CASE ~(c \in InForce(k)' /\ Takes(c))
    BY <2>1, <2>3, <1>7
  <2> QED
    BY <2>2, <2>3
<1> QED
  BY <1>1, <1>10, <1>11, Transactions

(* The operator's limits hold in every window, and for the leases in force: *)
(* an acquire checks them after the stale leases have been given back, in  *)
(* the transaction that reserves, and nothing else adds to a window more   *)
(* than it takes out.                                                      *)
THEOREM LimitsAreKept == Spec => []UsageWithinLimits
<1>1. Init => Limits
  <2> SUFFICES ASSUME Init PROVE Limits
    OBVIOUS
  <2>1. \A c \in Call : Policed(c)
    BY DEF Init, NoLease, Policed
  <2>2. ASSUME NEW w \in Window PROVE Bounded(w)
    <3>1. MaxRequests[w.kind] \in Nat /\ MaxTokens[w.kind] \in Nat
      BY WindowIsOfPolicy, QuotaAssumption
    <3> QED
      BY <3>1 DEF Init, Empty, Bounded
  <2>3. ASSUME NEW k \in Key PROVE Cardinality(InForce(k)) <= MaxConcurrency
    <3>1. InForce(k) = {}
      BY DEF Init, NoLease, InForce, Live
    <3> QED
      BY <3>1, FS_EmptySet, QuotaAssumption
  <2> QED
    BY <2>1, <2>2, <2>3 DEF Limits
<1>2. Accounts /\ Limits /\ [Next]_vars => Limits'
  <2> SUFFICES ASSUME Accounts, Limits, [Next]_vars PROVE Limits'
    OBVIOUS
  <2>1. \A c \in Call : Policed(c)'
    BY PolicedStep DEF Accounts, Agreement, Limits
  <2>2. \A w \in Window : Bounded(w)'
    BY BoundedStep
  <2>3. \A k \in Key : policy'[k].limited => Cardinality(InForce(k)') <= MaxConcurrency
    BY InForceStep
  <2>4. Window' = Window /\ Key' = Key
    BY DEF Window, Key, Time
  <2> QED
    BY <2>1, <2>2, <2>3, <2>4 DEF Limits
<1>3. Limits => UsageWithinLimits
  BY DEF Limits, Bounded, InForce, UsageWithinLimits
<1> QED
  BY <1>1, <1>2, <1>3, AlwaysAccounts, PTL DEF Spec
=============================================================================
