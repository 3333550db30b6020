---------------------------- MODULE RunnersProofs ----------------------------
(***************************************************************************)
(* What every service that keeps the promises of Runners gives to those    *)
(* who lease, for any number of models, requests and runners.              *)
(***************************************************************************)
EXTENDS Runners, TLAPS

LEMMA InitInv == Init => PoolInv
BY DEF Init, PoolInv, TypeOK, RightModel, LeasedRuns, OffersApart, OffersRun

LEMMA StepInv == PoolInv /\ [Next]_vars => PoolInv'
<1> SUFFICES ASSUME PoolInv, [Next]_vars PROVE PoolInv'
  OBVIOUS
<1> USE DEF PoolInv
<1>1. ASSUME NEW m \in Model, LoadStarts(m) PROVE PoolInv'
  BY <1>1 DEF LoadStarts, TypeOK, RightModel, LeasedRuns, OffersApart, OffersRun
<1>2. CASE LoadFails
  BY <1>2 DEF LoadFails, TypeOK, RightModel, LeasedRuns, OffersApart, OffersRun
<1>3. ASSUME NEW q \in Request, NEW r \in Runner, LoadDone(q, r) PROVE PoolInv'
  <2> USE <1>3 DEF LoadDone
  <2>1. TypeOK'
    BY DEF TypeOK
  <2>2. RightModel' /\ OffersApart'
    BY DEF TypeOK, RightModel, OffersApart, Used, Offered, Leased
  <2>3. LeasedRuns' /\ OffersRun'
    BY DEF TypeOK, LeasedRuns, OffersRun
  <2> QED BY <2>1, <2>2, <2>3
<1>4. ASSUME NEW q \in Request, NEW m \in Model, Lease(q, m) PROVE PoolInv'
  <2> USE <1>4 DEF Lease
  <2>1. TypeOK'
    BY DEF TypeOK
  <2>2. RightModel' /\ OffersApart'
    BY DEF TypeOK, RightModel, OffersApart
  <2>3. LeasedRuns' /\ OffersRun'
    BY DEF TypeOK, LeasedRuns, OffersRun
  <2> QED BY <2>1, <2>2, <2>3
<1>5. ASSUME NEW q \in Request, Return(q) PROVE PoolInv'
  <2> USE <1>5 DEF Return, KeepUsed
  <2>1. TypeOK'
    BY DEF TypeOK
  <2>2. RightModel' /\ OffersApart'
    BY DEF TypeOK, RightModel, OffersApart
  <2>3. LeasedRuns' /\ OffersRun'
    BY DEF TypeOK, LeasedRuns, OffersRun, Used, Offered, Leased
  <2> QED BY <2>1, <2>2, <2>3
<1>6. ASSUME NEW m \in Model, Withdraw(m) PROVE PoolInv'
  <2> USE <1>6 DEF Withdraw, KeepUsed
  <2>1. TypeOK'
    BY DEF TypeOK
  <2>2. RightModel' /\ OffersApart'
    BY DEF TypeOK, RightModel, OffersApart
  <2>3. LeasedRuns' /\ OffersRun'
    BY DEF TypeOK, LeasedRuns, OffersRun, Used, Offered, Leased
  <2> QED BY <2>1, <2>2, <2>3
<1>7. ASSUME NEW r \in Runner, Exit(r) PROVE PoolInv'
  BY <1>7 DEF Exit, TypeOK, RightModel, LeasedRuns, OffersApart, OffersRun
<1>8. CASE ShutDown
  <2> USE <1>8 DEF ShutDown, KeepUsed
  <2>1. TypeOK'
    BY DEF TypeOK
  <2>2. RightModel' /\ OffersApart' /\ OffersRun'
    BY DEF TypeOK, RightModel, OffersApart, OffersRun
  <2>3. LeasedRuns'
    BY DEF TypeOK, LeasedRuns, Used, Offered, Leased
  <2> QED BY <2>1, <2>2, <2>3
<1>9. CASE UNCHANGED vars
  BY <1>9 DEF vars, TypeOK, RightModel, LeasedRuns, OffersApart, OffersRun
<1> QED BY <1>1, <1>2, <1>3, <1>4, <1>5, <1>6, <1>7, <1>8, <1>9 DEF Next

LEMMA Invariance == Spec => []PoolInv
BY InitInv, StepInv, PTL DEF Spec

\* A request only ever uses a runner of the model it asked for.
THEOREM LeasesRightModel == Spec => []RightModel
<1>1. PoolInv => RightModel
  BY DEF PoolInv
<1> QED BY Invariance, <1>1, PTL

\* A runner that a request uses runs until it exits by itself or the daemon goes down.
THEOREM LeasedAlwaysRuns == Spec => []LeasedRuns
<1>1. PoolInv => LeasedRuns
  BY DEF PoolInv
<1> QED BY Invariance, <1>1, PTL
=============================================================================
