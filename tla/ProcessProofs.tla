--------------------------- MODULE ProcessProofs ----------------------------
(***************************************************************************)
(* What is proved of the runner's process: a load, the context of its      *)
(* requests, and the cache of its projections.                             *)
(***************************************************************************)
EXTENDS Runner, FiniteSetTheorems, WellFoundedInduction, TLAPS

-----------------------------------------------------------------------------
(* The load of a model *)

\* What each launch starts, and which may be.
Launches ==
    /\ launch \in {"none", "failed"} => at = "none"
    /\ launch = "configured" => exe = "configured" /\ device = setup.device
    /\ launch = "cpu" => device = "cpu" /\ exe = IF Onnx THEN "plain" ELSE "configured"
    /\ launch = "cpu" => setup.device \in {"auto", "cpu"}
    /\ launch # "none" /\ Onnx /\ device = "cpu" => ~Dynamic
    /\ launch # "none" /\ setup.device # "auto" => device = setup.device

\* Where a model is, and what the process announced.
Loading ==
    /\ mem = IF at \in {"metal warm", "cuda warm", "init", "ready"} THEN {want} ELSE {}
    /\ said # None => launch = "serving" /\ said = want
    /\ launch = "serving" => at = "ready" /\ said = want

\* Where a load goes: by name, where it was asked; with ONNX Runtime, to the CPU of the
\* daemon's own executable alone.
Aimed ==
    /\ at = "init" => ~Onnx
    /\ at \in {"metal", "metal warm", "cuda", "cuda warm", "onnx"} => Onnx
    /\ at \in {"metal", "metal warm", "cuda", "cuda warm"} => want \in Gpu
    /\ at = "load" /\ Onnx => want = "cpu"
    /\ at \in {"load", "ready"} /\ Onnx /\ want = "cpu" => ~Dynamic
    /\ at \notin {"none", "started", "onnx"} /\ device # "auto" => want = device

\* What has been tried when the last launch is over.
Tried ==
    /\ launch = "configured" /\ at = "none" /\ setup.device = "auto" =>
          ~Onnx \/ runner_launch.dynamic \/ "cpu" \in tried \/ killed
    /\ AutoReachesCpu

LoadInv == LoadTypeOK /\ Launches /\ Loading /\ Aimed /\ Tried

LEMMA LoadStarts == LoadInit => LoadInv
  BY LoadAssumption DEF LoadInit, SetupType, LoadInv, LoadTypeOK, Launches, Loading, Aimed, Tried, AutoReachesCpu, Dynamic, Onnx

LEMMA SpawnKeeps == ASSUME LoadInv, Spawn PROVE LoadInv'
  BY LoadAssumption DEF Spawn, StartsConfigured, StartsOnCpu, plan, SetupType, runner_launch,
      LoadInv, LoadTypeOK, Launches, Loading, Aimed, Tried, AutoReachesCpu, Dynamic, Onnx

LEMMA RetryKeeps == ASSUME LoadInv, Retry PROVE LoadInv'
  BY LoadAssumption DEF Retry, StartsOnCpu, plan, SetupType, runner_launch,
      LoadInv, LoadTypeOK, Launches, Loading, Aimed, Tried, AutoReachesCpu, Dynamic, Onnx

LEMMA KilledKeeps == ASSUME LoadInv, Killed PROVE LoadInv'
  BY LoadAssumption DEF Killed, Ends, SetupType, runner_launch,
      LoadInv, LoadTypeOK, Launches, Loading, Aimed, Tried, AutoReachesCpu, Dynamic, Onnx

LEMMA StartOnnxKeeps == ASSUME LoadInv, StartOnnx PROVE LoadInv'
  BY LoadAssumption DEF StartOnnx, Goes, GivesUp, Ends, SetupType, runner_launch,
      LoadInv, LoadTypeOK, Launches, Loading, Aimed, Tried, AutoReachesCpu, Dynamic, Onnx

LEMMA ChooseOnnxKeeps == ASSUME LoadInv, ChooseOnnx PROVE LoadInv'
  BY LoadAssumption DEF ChooseOnnx, Goes, GivesUp, Ends, onnx_device, providers_present, SetupType, runner_launch,
      LoadInv, LoadTypeOK, Launches, Loading, Aimed, Tried, AutoReachesCpu, Dynamic, Onnx

LEMMA AutoGpuFound == ASSUME LoadTypeOK PROVE auto_gpu \subseteq Gpu
  BY LoadAssumption DEF LoadTypeOK, SetupType, auto_gpu, Found

LEMMA StartLlamaKeeps == ASSUME LoadInv, StartLlama PROVE LoadInv'
<1>1. at = "started" /\ ~Onnx /\ mem' = {}
      /\ UNCHANGED <<setup, launch, exe, device, tried, killed, said>>
  BY DEF StartLlama, Goes, GivesUp, Ends, LoadInv, Loading
<1>2. \/ at' = "load" /\ want' \in Gpu \cup {"cpu"} /\ (device # "auto" => want' = device)
      \/ at' = "none" /\ want' = want /\ device \in Gpu
  BY AutoGpuFound, LoadAssumption DEF StartLlama, Goes, GivesUp, Ends, LoadInv, LoadTypeOK
<1> QED
  BY <1>1, <1>2, LoadAssumption
  DEF LoadInv, LoadTypeOK, Launches, Loading, Aimed, Tried, AutoReachesCpu, Dynamic, Onnx,
      runner_launch

LEMMA LoadWorksKeeps == ASSUME LoadInv, LoadWorks PROVE LoadInv'
  BY LoadAssumption DEF LoadWorks, Loads, AfterLoad, SetupType, runner_launch,
      LoadInv, LoadTypeOK, Launches, Loading, Aimed, Tried, AutoReachesCpu, Dynamic, Onnx

LEMMA LoadFailsKeeps == ASSUME LoadInv, LoadFails PROVE LoadInv'
  BY LoadAssumption DEF LoadFails, FallsBack, ToOnnx, ToCpu, GivesUp, Ends, onnx_device, SetupType, runner_launch,
      LoadInv, LoadTypeOK, Launches, Loading, Aimed, Tried, AutoReachesCpu, Dynamic, Onnx

LEMMA WarmUpKeptKeeps == ASSUME LoadInv, WarmUpKept PROVE LoadInv'
  BY LoadAssumption DEF WarmUpKept, SetupType, runner_launch,
      LoadInv, LoadTypeOK, Launches, Loading, Aimed, Tried, AutoReachesCpu, Dynamic, Onnx

LEMMA WarmUpFailsKeeps == ASSUME LoadInv, WarmUpFails PROVE LoadInv'
  BY LoadAssumption DEF WarmUpFails, FallsBack, ToOnnx, ToCpu, GivesUp, Ends, onnx_device, Dropped, SetupType, runner_launch,
      LoadInv, LoadTypeOK, Launches, Loading, Aimed, Tried, AutoReachesCpu, Dynamic, Onnx

LEMMA AnnounceKeeps == ASSUME LoadInv, Announce PROVE LoadInv'
  BY LoadAssumption DEF Announce, SetupType, runner_launch,
      LoadInv, LoadTypeOK, Launches, Loading, Aimed, Tried, AutoReachesCpu, Dynamic, Onnx

LEMMA LoadSteps == LoadInv /\ [LoadNext]_loadVars => LoadInv'
<1> SUFFICES ASSUME LoadInv, [LoadNext]_loadVars PROVE LoadInv'
  OBVIOUS
<1>1. CASE UNCHANGED loadVars
  <2>1. LoadTypeOK'
    BY <1>1 DEF loadVars, LoadInv, LoadTypeOK
  <2>2. Onnx' = Onnx /\ Dynamic' = Dynamic /\ runner_launch' = runner_launch
    BY <1>1 DEF loadVars, Dynamic, Onnx, runner_launch
  <2>3. Launches' /\ Loading' /\ Aimed'
    BY <1>1, <2>2 DEF loadVars, LoadInv, Launches, Loading, Aimed
  <2>4. Tried'
    BY <1>1, <2>2 DEF loadVars, LoadInv, Tried, AutoReachesCpu
  <2> QED BY <2>1, <2>3, <2>4 DEF LoadInv
<1> QED
  BY <1>1, SpawnKeeps, RetryKeeps, KilledKeeps, StartOnnxKeeps, ChooseOnnxKeeps,
     StartLlamaKeeps, LoadWorksKeeps, LoadFailsKeeps, WarmUpKeptKeeps, WarmUpFailsKeeps,
     AnnounceKeeps
  DEF LoadNext

\* LoadInv holds in every reachable state of a runner, for any GPUs and installs.
THEOREM LoadInvariance == Spec => []LoadInv
<1>1. Init => LoadInv
  BY LoadStarts DEF Init
<1>2. LoadInv /\ [Next]_vars => LoadInv'
  BY LoadSteps DEF Next, vars
<1> QED BY <1>1, <1>2, PTL DEF Spec

\* Every variable of a load keeps its type.
THEOREM LoadTyped == Spec => []LoadTypeOK
<1>1. LoadInv => LoadTypeOK
  BY DEF LoadInv
<1> QED BY <1>1, LoadInvariance, PTL

\* A device asked for by name is the one that serves, and the CPU never means the GPU
\* pack's ONNX Runtime.
THEOREM DeviceKept == Spec => []RunsWhereAsked
<1>1. LoadInv => RunsWhereAsked
  BY LoadAssumption
  DEF LoadInv, LoadTypeOK, Launches, Loading, Aimed, RunsWhereAsked, SetupType
<1> QED BY <1>1, LoadInvariance, PTL

\* One model is in memory at a time, through every fallback and the second launch.
THEOREM OneModelAtATime == Spec => []OneModel
<1>1. ASSUME LoadInv PROVE OneModel
  <2>1. mem = {want} \/ mem = {}
    BY <1>1 DEF LoadInv, Loading
  <2>2. Cardinality({want}) = 1 /\ Cardinality({}) = 0
    BY FS_EmptySet, FS_Singleton, Zenon
  <2>3. launch = "serving" => mem = {said}
    BY <1>1 DEF LoadInv, Loading
  <2> QED BY <2>1, <2>2, <2>3 DEF OneModel
<1> QED BY <1>1, LoadInvariance, PTL

\* A load on auto that fails has failed on the CPU, but for a crash of the one runner
\* that holds both devices.
THEOREM AutoEndsOnCpu == Spec => []AutoReachesCpu
<1>1. LoadInv => AutoReachesCpu
  BY DEF LoadInv, Tried
<1> QED BY <1>1, LoadInvariance, PTL
-----------------------------------------------------------------------------
(* The context and its requests *)

\* A bounded set of numbers that is not empty has a greatest member.
LEMMA MaxIs ==
  ASSUME NEW n \in Nat, NEW S \in SUBSET (0..n), S # {}
  PROVE  Max(S) \in S /\ \A k \in S : k <= Max(S)
<1> DEFINE T == {n - k : k \in S}
<1>1. T \subseteq Nat /\ T # {}
  <2>1. \A k \in S : k \in Nat /\ n - k \in Nat
    OBVIOUS
  <2> QED BY <2>1, Zenon
<1>2. PICK x \in T : \A y \in T : ~(<<y, x>> \in OpToRel(<, Nat))
  <2> HIDE DEF T
  <2> QED BY <1>1, NatLessThanWellFounded, WFMin
<1>3. \A y \in T : y >= x
  <2> HIDE DEF T
  <2>1. \A y \in T : x \in Nat /\ y \in Nat
    BY <1>1, <1>2
  <2>2. ASSUME NEW y \in T PROVE y >= x
    <3>1. x \in Nat /\ y \in Nat /\ ~(<<y, x>> \in OpToRel(<, Nat))
      BY <1>2, <2>1
    <3> QED BY <3>1 DEF OpToRel
  <2> QED BY <2>2
<1>4. PICK m \in S : x = n - m
  OBVIOUS
<1>5. \A k \in S : m >= k
  BY <1>3, <1>4
<1> QED BY <1>5 DEF Max

LEMMA AgreementsAre ==
  ASSUME NEW s \in Seq(Token), NEW t \in Seq(Token)
  PROVE  Agreements(s, t) \in SUBSET (0..Len(t)) /\ 0 \in Agreements(s, t)
  BY DEF Agreements

LEMMA AgreementsFit ==
  ASSUME NEW s, NEW t, NEW k \in Agreements(s, t)
  PROVE  k <= Len(s) /\ k <= Len(t)
  BY DEF Agreements

LEMMA SplitPointIs ==
  ASSUME NEW ids \in Seq(Token), Len(ids) # 0, NEW reference \in Seq(Token)
  PROVE  split_point(ids, reference) \in 0..(Len(ids) - 1)
<1>1. Len(ids) \in Nat \ {0}
  OBVIOUS
<1>2. Max(Agreements(ids, reference)) \in Nat
  <2>1. Agreements(ids, reference) \in SUBSET (0..Len(reference)) /\ Agreements(ids, reference) # {}
    BY AgreementsAre
  <2>2. Max(Agreements(ids, reference)) \in Agreements(ids, reference)
    <3> DEFINE S == Agreements(ids, reference)
    <3>1. Len(reference) \in Nat /\ S \in SUBSET (0..Len(reference)) /\ S # {}
      BY <2>1
    <3>2. Max(S) \in S
      <4> HIDE DEF S
      <4> QED BY <3>1, MaxIs
    <3> QED BY <3>2
  <2> QED BY <2>1, <2>2
<1> QED BY <1>1, <1>2 DEF split_point, Smaller

\* What a request is made of.
LEMMA RequestIs ==
  ASSUME NEW r \in Request
  PROVE  /\ r.kind \in Kind /\ r.reference \in Seq(Token) /\ r.head \in Nat
         /\ r.blocks \in Seq(Nat)
         /\ Len(r.rows) \in Nat
  BY LlamaAssumption DEF RequestOK, RequestType

LEMMA FirstRow == ASSUME NEW r \in Request PROVE 1 \in 1..Len(r.rows)
<1>1. r.rows # <<>> /\ r \in RequestType
  BY LlamaAssumption DEF RequestOK
<1> DEFINE R == [ids : Seq(Token) \ {<<>>}, single : BOOLEAN, blocks : Seq(Nat)]
<1>2. r.rows \in Seq(R)
  BY <1>1 DEF RequestType
<1> HIDE DEF R
<1> QED BY <1>1, <1>2

LEMMA RowIs ==
  ASSUME NEW r \in Request, NEW i \in 1..Len(r.rows)
  PROVE  /\ r.rows[i].ids \in Seq(Token) /\ Len(r.rows[i].ids) \in Nat \ {0}
         /\ r.rows[i].single \in BOOLEAN /\ r.rows[i].blocks \in Seq(Nat)
<1> DEFINE R == [ids : Seq(Token) \ {<<>>}, single : BOOLEAN, blocks : Seq(Nat)]
<1>1. r.rows \in Seq(R)
  BY LlamaAssumption DEF RequestOK, RequestType
<1>2. r.rows[i] \in R
  <2> HIDE DEF R
  <2> QED BY <1>1
<1>3. r.rows[i].ids \in Seq(Token) /\ r.rows[i].ids # <<>>
  BY <1>2
<1> QED BY <1>2, <1>3

\* What is assumed of each kind.
LEMMA JevIs ==
  ASSUME NEW r \in Request, r.kind = "jev"
  PROVE  /\ \A j \in 1..Len(r.blocks) : r.blocks[j] <= Len(r.reference)
         /\ \A i \in 1..Len(r.rows) :
               /\ Len(r.reference) \in Agreements(r.rows[i].ids, r.reference)
               /\ r.rows[i].blocks # <<>>
               /\ \A j \in 1..Len(Plan(r, i)) :
                     Plan(r, i)[j] \in Begins(Plan(r, i), j)..Len(r.rows[i].ids)
  BY LlamaAssumption, Zenon DEF RequestOK

LEMMA WinnowIs ==
  ASSUME NEW r \in Request, r.kind = "winnow"
  PROVE  /\ r.head \in 1..Len(r.reference)
         /\ \A i \in 1..Len(r.rows) :
               /\ r.head \in Agreements(r.rows[i].ids, r.reference)
               /\ Len(r.rows[i].ids) \notin Agreements(r.rows[i].ids, r.reference)
<1>1. RequestOK(r)
  BY LlamaAssumption
<1>2. r.head \in 1..Len(r.reference)
  BY <1>1, r.kind \in {"d1", "winnow"} DEF RequestOK
<1> QED BY <1>1, <1>2, Zenon DEF RequestOK

LEMMA D1Is ==
  ASSUME NEW r \in Request, r.kind = "d1"
  PROVE  /\ r.head \in 1..Len(r.reference)
         /\ \A i \in 1..Len(r.rows) : r.head < Len(r.rows[i].ids)
<1>1. RequestOK(r)
  BY LlamaAssumption
<1>2. r.head \in 1..Len(r.reference)
  BY <1>1, r.kind \in {"d1", "winnow"} DEF RequestOK
<1> QED BY <1>1, <1>2, Zenon DEF RequestOK

\* What the rows of an image request share begins with the images.
LEMMA SharedIs ==
  ASSUME NEW r \in Request, r.kind = "winnow"
  PROVE  /\ Shared(r) \in r.head..Len(r.reference)
         /\ \A i \in 1..Len(r.rows) : Shared(r) \in Agreements(r.rows[i].ids, r.reference)
<1> DEFINE S == {k \in 0..Len(r.reference) :
                   \A i \in 1..Len(r.rows) : k \in Agreements(r.rows[i].ids, r.reference)}
<1>1. Len(r.reference) \in Nat /\ S \in SUBSET (0..Len(r.reference))
  BY RequestIs
<1>2. r.head \in 1..Len(r.reference) /\ r.head \in S
  <2>1. r.head \in 1..Len(r.reference)
    BY WinnowIs
  <2>2. \A i \in 1..Len(r.rows) : r.head \in Agreements(r.rows[i].ids, r.reference)
    BY WinnowIs
  <2>3. r.head \in 0..Len(r.reference)
    BY <1>1, <2>1
  <2> QED BY <2>1, <2>2, <2>3, Zenon
<1>3. Max(S) \in S /\ \A k \in S : k <= Max(S)
  <2> HIDE DEF S
  <2> QED BY <1>1, <1>2, MaxIs
<1>4. Shared(r) = Max(S)
  BY DEF Shared
<1>5. Max(S) \in 0..Len(r.reference) /\ r.head <= Max(S)
      /\ \A i \in 1..Len(r.rows) : Max(S) \in Agreements(r.rows[i].ids, r.reference)
  BY <1>2, <1>3, Zenon
<1> QED BY <1>1, <1>2, <1>4, <1>5

\* A row a request may be at: row 0 is what every row shares, where the kind has it.
RowOf(r, i) == i \in 0..Len(r.rows) /\ (i = 0 => r.kind \in {"winnow", "jev"})

\* The passes of a row end within it, and one whose output is read has a token of its own.
PlanFits(r, i) ==
    /\ PlanOf(r, i) \in Seq(Nat)
    /\ \A j \in 1..Len(PlanOf(r, i)) :
          /\ PlanOf(r, i)[j] <= Len(IdsOf(r, i))
          /\ Outputs(r, i, j) => Begins(PlanOf(r, i), j) <= PlanOf(r, i)[j]
    /\ i = 0 => Len(PlanOf(r, i)) = Common(r)
    /\ i > 0 => Common(r) < Len(PlanOf(r, i))

LEMMA JoinIs ==
  ASSUME NEW s \in Seq(Nat), NEW t \in Seq(Nat), t # <<>>
  PROVE  /\ s \o t \in Seq(Nat) /\ Len(s) < Len(s \o t) /\ Len(s) \in Nat
         /\ \A j \in 1..Len(s) : (s \o t)[j] = s[j]
  OBVIOUS

LEMMA OnePass ==
  ASSUME NEW n \in Nat \ {0}
  PROVE  /\ <<n>> \in Seq(Nat) /\ Len(<<n>>) = 1
         /\ \A j \in 1..1 : <<n>>[j] <= n /\ Begins(<<n>>, j) <= <<n>>[j]
  BY DEF Begins

LEMMA TwoPasses ==
  ASSUME NEW p \in Nat, NEW n \in Nat, p < n
  PROVE  /\ <<p, n>> \in Seq(Nat) /\ Len(<<p, n>>) = 2
         /\ \A j \in 1..2 : <<p, n>>[j] <= n
         /\ Begins(<<p, n>>, 2) <= <<p, n>>[2]
  BY DEF Begins

LEMMA RowIsThere ==
  ASSUME NEW r \in Request, NEW i \in Nat, RowOf(r, i), i # 0
  PROVE  i \in 1..Len(r.rows) /\ PlanOf(r, i) = Plan(r, i) /\ IdsOf(r, i) = r.rows[i].ids
  BY RequestIs DEF RowOf, PlanOf, IdsOf

LEMMA IdsAre ==
  ASSUME NEW r \in Request, NEW i \in Nat, RowOf(r, i)
  PROVE  IdsOf(r, i) \in Seq(Token) /\ Len(IdsOf(r, i)) \in Nat
<1>1. CASE i = 0
  BY <1>1, RequestIs DEF IdsOf
<1>2. CASE i # 0
  BY <1>2, RowIsThere, RowIs
<1> QED BY <1>1, <1>2

LEMMA PlanIs ==
  ASSUME NEW r \in Request, NEW i \in Nat, RowOf(r, i)
  PROVE  PlanFits(r, i)
<1>1. CASE i = 0 /\ r.kind = "winnow"
  <2>1. Shared(r) \in Nat /\ r.head \in Nat /\ r.head <= Shared(r) /\ Shared(r) <= Len(r.reference)
        /\ Len(r.reference) \in Nat
    BY <1>1, SharedIs, RequestIs
  <2>2. PlanOf(r, i) = <<r.head, Shared(r)>> /\ IdsOf(r, i) = r.reference
    BY <1>1 DEF PlanOf, IdsOf
  <2>3. /\ PlanOf(r, i) \in Seq(Nat) /\ Len(PlanOf(r, i)) = 2
        /\ \A j \in 1..2 : PlanOf(r, i)[j] <= Len(r.reference)
    BY <2>1, <2>2
  <2> QED BY <1>1, <2>2, <2>3 DEF PlanFits, Outputs, Common
<1>2. CASE i = 0 /\ r.kind = "jev"
  BY <1>2, RequestIs, JevIs DEF PlanFits, IdsOf, PlanOf, Outputs, Common
<1>3. ASSUME i # 0, r.kind = "winnow" PROVE PlanFits(r, i)
  <2>1. i \in 1..Len(r.rows) /\ Len(r.rows[i].ids) \in Nat
    BY <1>3, RowIsThere, RowIs
  <2>2. Shared(r) \in Nat /\ r.head \in Nat /\ r.head <= Shared(r)
    BY <1>3, SharedIs, RequestIs
  <2>3. Shared(r) \in Agreements(r.rows[i].ids, r.reference)
    BY <1>3, <2>1, SharedIs
  <2>4. Shared(r) <= Len(r.rows[i].ids)
    BY <2>1, <2>3 DEF Agreements
  <2>5. Shared(r) # Len(r.rows[i].ids)
    BY <1>3, <2>1, <2>3, WinnowIs
  <2>6. PlanOf(r, i) = <<r.head, Shared(r), Len(r.rows[i].ids)>> /\ IdsOf(r, i) = r.rows[i].ids
    BY <1>3, RowIsThere DEF Plan
  <2>7. \A j \in 1..3 : Outputs(r, i, j) => j = 3
    BY <1>3, <2>6 DEF Outputs
  <2>8. Common(r) = 2
    BY <1>3 DEF Common
  <2>9. \A j \in 1..3 : /\ PlanOf(r, i)[j] <= Len(r.rows[i].ids)
                        /\ j = 3 => Begins(PlanOf(r, i), j) <= PlanOf(r, i)[j]
    BY <2>1, <2>2, <2>4, <2>5, <2>6 DEF Begins
  <2> QED BY <1>3, <2>1, <2>2, <2>6, <2>7, <2>8, <2>9 DEF PlanFits
<1>4. ASSUME i # 0, r.kind = "jev" PROVE PlanFits(r, i)
  <2>1. i \in 1..Len(r.rows) /\ Len(r.rows[i].ids) \in Nat /\ r.rows[i].blocks \in Seq(Nat)
    BY <1>4, RowIsThere, RowIs
  <2>2. Plan(r, i) = r.blocks \o r.rows[i].blocks
    BY <1>4 DEF Plan
  <2>3. r.rows[i].blocks # <<>> /\ r.blocks \in Seq(Nat)
    BY <1>4, <2>1, JevIs, RequestIs
  <2>4. Plan(r, i) \in Seq(Nat) /\ Len(r.blocks) < Len(Plan(r, i))
    BY <2>1, <2>2, <2>3, JoinIs
  <2>5. \A j \in 1..Len(Plan(r, i)) :
           Plan(r, i)[j] \in Begins(Plan(r, i), j)..Len(r.rows[i].ids)
    BY <1>4, <2>1, JevIs
  <2>6. \A j \in 1..Len(Plan(r, i)) : Begins(Plan(r, i), j) \in Nat
    BY <2>4 DEF Begins
  <2>7. Common(r) = Len(r.blocks) /\ PlanOf(r, i) = Plan(r, i) /\ IdsOf(r, i) = r.rows[i].ids
    BY <1>4, RowIsThere DEF Common
  <2> QED BY <1>4, <2>1, <2>4, <2>5, <2>6, <2>7 DEF PlanFits
<1>5. ASSUME i # 0, r.kind = "d1" PROVE PlanFits(r, i)
  <2>1. i \in 1..Len(r.rows) /\ Len(r.rows[i].ids) \in Nat /\ r.head \in Nat
    BY <1>5, RowIsThere, RowIs, RequestIs
  <2>2. r.head < Len(r.rows[i].ids)
    BY <1>5, <2>1, D1Is
  <2>3. PlanOf(r, i) = <<r.head, Len(r.rows[i].ids)>> /\ IdsOf(r, i) = r.rows[i].ids
    BY <1>5, RowIsThere DEF Plan
  <2>4. Common(r) = 0 /\ \A j \in 1..2 : Outputs(r, i, j) => j = 2
    BY <1>5, <2>3 DEF Outputs, Common
  <2> QED BY <1>5, <2>1, <2>2, <2>3, <2>4, TwoPasses DEF PlanFits
<1>6. ASSUME i # 0, r.kind \in {"prefix", "cold"} PROVE PlanFits(r, i)
  <2> DEFINE p == IF r.kind = "prefix" THEN split_point(r.rows[i].ids, r.reference) ELSE 0
             n == Len(r.rows[i].ids)
  <2>1. i \in 1..Len(r.rows) /\ n \in Nat \ {0} /\ r.rows[i].ids \in Seq(Token)
    BY <1>6, RowIsThere, RowIs
  <2>2. p \in 0..(n - 1)
    BY <2>1, SplitPointIs, RequestIs
  <2>3. PlanOf(r, i) = (IF p = 0 THEN <<n>> ELSE <<p, n>>) /\ IdsOf(r, i) = r.rows[i].ids
    BY <1>6, RowIsThere DEF Plan
  <2>4. Common(r) = 0
    BY <1>6 DEF Common
  <2> HIDE DEF p, n
  <2>5. CASE p = 0
    <3>1. PlanOf(r, i) = <<n>>
      BY <2>3, <2>5
    <3>2. /\ <<n>> \in Seq(Nat) /\ Len(<<n>>) = 1
          /\ \A j \in 1..1 : <<n>>[j] <= n /\ Begins(<<n>>, j) <= <<n>>[j]
      BY <2>1, OnePass
    <3>3. Len(IdsOf(r, i)) = n
      BY <2>3 DEF n
    <3> QED BY <1>6, <2>4, <3>1, <3>2, <3>3 DEF PlanFits
  <2>6. CASE p # 0
    <3>1. PlanOf(r, i) = <<p, n>>
      BY <2>3, <2>6
    <3>2. \A j \in 1..2 : Outputs(r, i, j) => j = 2
      BY <1>6, <3>1 DEF Outputs
    <3>3. p \in Nat /\ p < n /\ n \in Nat
      BY <2>1, <2>2
    <3> QED BY <1>6, <2>3, <2>4, <3>1, <3>2, <3>3, TwoPasses DEF PlanFits, n
  <2> QED BY <2>5, <2>6
<1>7. r.kind \in Kind /\ (i = 0 => r.kind \in {"winnow", "jev"})
  BY RequestIs DEF RowOf
<1> QED BY <1>1, <1>2, <1>3, <1>4, <1>5, <1>6, <1>7 DEF Kind

\* A pass computes the cells of its positions, and a row's passes follow one another.
LEMMA CellsAre ==
  ASSUME NEW ids, NEW from, NEW to
  PROVE  \A c \in Cells(ids, from, to) : c.pos \in from..to
  BY DEF Cells

LEMMA CellsTyped ==
  ASSUME NEW ids \in Seq(Token), NEW from \in Nat \ {0}, NEW to \in Nat, to <= Len(ids)
  PROVE  Cells(ids, from, to) \subseteq Cell
<1>1. \A k \in from..to : k \in 1..Len(ids) /\ ids[k] \in Token /\ k \in Nat
  OBVIOUS
<1> QED BY <1>1 DEF Cells, Cell

LEMMA CellsAgree ==
  ASSUME NEW s, NEW t, NEW from \in Nat \ {0}, NEW to \in Nat, \A k \in 1..to : s[k] = t[k]
  PROVE  Cells(s, from, to) = Cells(t, from, to)
<1>1. \A k \in from..to : s[k] = t[k]
  OBVIOUS
<1> QED BY <1>1, Zenon DEF Cells

LEMMA BeginsIs ==
  ASSUME NEW ends \in Seq(Nat), NEW j \in 1..Len(ends)
  PROVE  Begins(ends, j) \in Nat \ {0} /\ ends[j] \in Nat
  BY DEF Begins

\* The cells of one pass of a row.
PassOf(r, i, j) == Cells(IdsOf(r, i), Begins(PlanOf(r, i), j), PlanOf(r, i)[j])

LEMMA PassTyped ==
  ASSUME NEW r \in Request, NEW i \in Nat, RowOf(r, i), NEW j \in 1..Len(PlanOf(r, i))
  PROVE  PassOf(r, i, j) \subseteq Cell
<1>1. PlanOf(r, i) \in Seq(Nat) /\ PlanOf(r, i)[j] <= Len(IdsOf(r, i))
  BY PlanIs DEF PlanFits
<1> QED BY <1>1, BeginsIs, IdsAre, CellsTyped DEF PassOf

LEMMA PlannedNone == ASSUME NEW r, NEW i PROVE Planned(r, i, 0) = {}
  BY DEF Planned

LEMMA PlannedNext ==
  ASSUME NEW r, NEW i, NEW m \in Nat \ {0}
  PROVE  Planned(r, i, m) = Planned(r, i, m - 1) \cup PassOf(r, i, m)
<1>1. 1..m = (1..(m - 1)) \cup {m}
  OBVIOUS
<1>2. \A n : Planned(r, i, n) = UNION {PassOf(r, i, j) : j \in 1..n}
  BY DEF Planned, PassOf
<1> HIDE DEF PassOf
<1>3. UNION {PassOf(r, i, j) : j \in 1..m}
        = (UNION {PassOf(r, i, j) : j \in 1..(m - 1)}) \cup PassOf(r, i, m)
  BY <1>1, Zenon
<1> QED BY <1>2, <1>3

LEMMA PlannedTyped ==
  ASSUME NEW r \in Request, NEW i \in Nat, RowOf(r, i), NEW m \in 0..Len(PlanOf(r, i))
  PROVE  Planned(r, i, m) \subseteq Cell
<1>1. \A j \in 1..m : PassOf(r, i, j) \subseteq Cell
  <2>1. Len(PlanOf(r, i)) \in Nat
    BY PlanIs DEF PlanFits
  <2> QED BY <2>1, PassTyped
<1>2. Planned(r, i, m) = UNION {PassOf(r, i, j) : j \in 1..m}
  BY DEF Planned, PassOf
<1> QED BY <1>1, <1>2, Zenon

\* What every row shares begins each row, and is in each row's own passes.
LEMMA SharedBegins ==
  ASSUME NEW r \in Request, r.kind \in {"winnow", "jev"}, NEW i \in 1..Len(r.rows)
  PROVE  \A j \in 1..Common(r) :
            /\ PlanOf(r, i)[j] = PlanOf(r, 0)[j]
            /\ \A k \in 1..PlanOf(r, 0)[j] : r.rows[i].ids[k] = r.reference[k]
<1>1. i \in Nat /\ RowOf(r, i) /\ i # 0 /\ RowOf(r, 0)
  BY RequestIs DEF RowOf
<1>2. PlanOf(r, i) = Plan(r, i) /\ IdsOf(r, i) = r.rows[i].ids /\ IdsOf(r, 0) = r.reference
  BY <1>1, RowIsThere DEF IdsOf
<1>3. PlanOf(r, 0) \in Seq(Nat) /\ Len(PlanOf(r, 0)) = Common(r) /\ Common(r) \in Nat
  BY <1>1, PlanIs DEF PlanFits
<1>4. ASSUME NEW j \in 1..Common(r)
      PROVE  /\ PlanOf(r, i)[j] = PlanOf(r, 0)[j]
             /\ \A k \in 1..PlanOf(r, 0)[j] : r.rows[i].ids[k] = r.reference[k]
  <2>1. CASE r.kind = "winnow"
    <3>1. PlanOf(r, 0) = <<r.head, Shared(r)>> /\ Common(r) = 2
          /\ PlanOf(r, i) = <<r.head, Shared(r), Len(r.rows[i].ids)>>
      BY <2>1, <1>2 DEF PlanOf, Common, Plan
    <3>2. Shared(r) \in Nat /\ r.head \in Nat /\ r.head <= Shared(r)
      BY <2>1, SharedIs, RequestIs
    <3>3. \A k \in 1..Shared(r) : r.rows[i].ids[k] = r.reference[k]
      BY <2>1, SharedIs DEF Agreements
    <3>4. PlanOf(r, 0)[j] \in Nat /\ PlanOf(r, 0)[j] <= Shared(r)
      BY <3>1, <3>2
    <3>5. PlanOf(r, i)[j] = PlanOf(r, 0)[j]
      BY <3>1
    <3> QED BY <3>2, <3>3, <3>4, <3>5
  <2>2. CASE r.kind = "jev"
    <3>1. PlanOf(r, 0) = r.blocks /\ PlanOf(r, i) = r.blocks \o r.rows[i].blocks
          /\ Common(r) = Len(r.blocks)
      BY <2>2, <1>2 DEF PlanOf, Common, Plan
    <3>2. r.blocks \in Seq(Nat) /\ r.rows[i].blocks \in Seq(Nat) /\ r.rows[i].blocks # <<>>
      BY <2>2, RequestIs, RowIs, JevIs
    <3>3. \A k \in 1..Len(r.reference) : r.rows[i].ids[k] = r.reference[k]
      BY <2>2, JevIs DEF Agreements
    <3>0. j \in 1..Len(r.blocks)
      BY <3>1
    <3>4. r.blocks[j] \in Nat /\ r.blocks[j] <= Len(r.reference) /\ Len(r.reference) \in Nat
      <4>1. r.blocks[j] \in Nat
        BY <3>0, <3>2
      <4>2. r.blocks[j] <= Len(r.reference)
        BY <2>2, <3>0, JevIs
      <4> QED BY <4>1, <4>2, RequestIs
    <3>5. (r.blocks \o r.rows[i].blocks)[j] = r.blocks[j]
      BY <3>0, <3>2, JoinIs
    <3> QED BY <3>1, <3>3, <3>4, <3>5
  <2> QED BY <2>1, <2>2
<1> QED BY <1>4

LEMMA SharedPlanned ==
  ASSUME NEW r \in Request, r.kind \in {"winnow", "jev"}, NEW i \in 1..Len(r.rows)
  PROVE  Planned(r, i, Common(r)) = Planned(r, 0, Common(r))
<1>1. i \in Nat /\ RowOf(r, i) /\ i # 0 /\ RowOf(r, 0)
  BY RequestIs DEF RowOf
<1>2. IdsOf(r, i) = r.rows[i].ids /\ IdsOf(r, 0) = r.reference
  BY <1>1, RowIsThere DEF IdsOf
<1>3. PlanOf(r, 0) \in Seq(Nat) /\ Len(PlanOf(r, 0)) = Common(r) /\ Common(r) \in Nat
  BY <1>1, PlanIs DEF PlanFits
<1>4. \A j \in 1..Common(r) : /\ PlanOf(r, i)[j] = PlanOf(r, 0)[j]
                              /\ \A k \in 1..PlanOf(r, 0)[j] : r.rows[i].ids[k] = r.reference[k]
  BY SharedBegins
<1>5. ASSUME NEW j \in 1..Common(r) PROVE PassOf(r, i, j) = PassOf(r, 0, j)
  <2>1. Begins(PlanOf(r, i), j) = Begins(PlanOf(r, 0), j)
    BY <1>3, <1>4 DEF Begins
  <2>2. Begins(PlanOf(r, 0), j) \in Nat \ {0} /\ PlanOf(r, 0)[j] \in Nat
    BY <1>3, BeginsIs
  <2>3. Cells(r.rows[i].ids, Begins(PlanOf(r, 0), j), PlanOf(r, 0)[j])
          = Cells(r.reference, Begins(PlanOf(r, 0), j), PlanOf(r, 0)[j])
    <3> DEFINE e == PlanOf(r, 0)[j]  b == Begins(PlanOf(r, 0), j)
               s == r.rows[i].ids  t == r.reference
    <3>1. b \in Nat \ {0} /\ e \in Nat /\ \A k \in 1..e : s[k] = t[k]
      BY <1>4, <2>2
    <3>2. Cells(s, b, e) = Cells(t, b, e)
      <4> HIDE DEF e, b, s, t
      <4> QED BY <3>1, CellsAgree
    <3> QED BY <3>2
  <2> QED BY <1>2, <1>4, <2>1, <2>3 DEF PassOf
<1>6. \A m \in {i, 0} :
         Planned(r, m, Common(r)) = UNION {PassOf(r, m, j) : j \in 1..Common(r)}
  BY DEF Planned, PassOf
<1> QED BY <1>5, <1>6, Zenon

\* Cut back to what is shared, a row of an image request leaves what is shared.
LEMMA SharedAlone ==
  ASSUME NEW r \in Request, r.kind = "winnow"
  PROVE  /\ \A c \in Planned(r, 0, 2) : c.pos <= Shared(r)
         /\ UpTo(Planned(r, 0, 2), Shared(r)) = Planned(r, 0, 2)
<1>1. Shared(r) \in Nat /\ r.head \in Nat \ {0} /\ r.head <= Shared(r)
  BY SharedIs, WinnowIs, RequestIs
<1>2. PlanOf(r, 0) = <<r.head, Shared(r)>>
  BY DEF PlanOf
<1>3. PassOf(r, 0, 1) = Cells(IdsOf(r, 0), 1, r.head)
      /\ PassOf(r, 0, 2) = Cells(IdsOf(r, 0), r.head + 1, Shared(r))
  BY <1>2 DEF PassOf, Begins
<1>4. Planned(r, 0, 2) = PassOf(r, 0, 1) \cup PassOf(r, 0, 2)
  <2>1. Planned(r, 0, 1) = Planned(r, 0, 0) \cup PassOf(r, 0, 1)
    BY PlannedNext
  <2>2. Planned(r, 0, 2) = Planned(r, 0, 1) \cup PassOf(r, 0, 2)
    BY PlannedNext
  <2> QED BY <2>1, <2>2, PlannedNone
<1>5. \A c \in Planned(r, 0, 2) : c.pos <= Shared(r)
  <2>1. \A c \in PassOf(r, 0, 1) : c.pos \in 1..r.head
    BY <1>3, CellsAre, Zenon
  <2>2. \A c \in PassOf(r, 0, 2) : c.pos \in (r.head + 1)..Shared(r)
    BY <1>3, CellsAre, Zenon
  <2> QED BY <1>1, <1>4, <2>1, <2>2
<1> QED BY <1>5 DEF UpTo

LEMMA CutPlanned ==
  ASSUME NEW r \in Request, r.kind = "winnow", NEW i \in 1..Len(r.rows)
  PROVE  UpTo(Planned(r, i, 3), Shared(r)) = Planned(r, 0, 2)
<1>1. Shared(r) \in Nat /\ i \in Nat /\ i # 0 /\ RowOf(r, i) /\ Len(r.rows[i].ids) \in Nat
  BY SharedIs, RequestIs, RowIs DEF RowOf
<1>2. PlanOf(r, i) = <<r.head, Shared(r), Len(r.rows[i].ids)>>
  BY <1>1, RowIsThere DEF Plan
<1>3. PassOf(r, i, 3) = Cells(IdsOf(r, i), Shared(r) + 1, Len(r.rows[i].ids))
  BY <1>2 DEF PassOf, Begins
<1>4. Planned(r, i, 3) = Planned(r, 0, 2) \cup PassOf(r, i, 3)
  <2>1. Planned(r, i, 3) = Planned(r, i, 2) \cup PassOf(r, i, 3)
    BY PlannedNext
  <2>2. Common(r) = 2
    BY DEF Common
  <2> QED BY <2>1, <2>2, SharedPlanned
<1>5. \A c \in PassOf(r, i, 3) : ~(c.pos <= Shared(r))
  <2>1. \A c \in PassOf(r, i, 3) : c.pos \in (Shared(r) + 1)..Len(r.rows[i].ids)
    BY <1>3, CellsAre, Zenon
  <2> QED BY <1>1, <2>1
<1> QED BY <1>4, <1>5, SharedAlone DEF UpTo

AtPasses == work.at = "passes"
AtStart == work.at = "start"

\* The request at hand is one the context takes, and the passes every row shares come
\* before those of a row.
Working ==
    /\ AtPasses =>
          /\ RowOf(work.req, work.row)
          /\ work.done \in 0..Len(PlanOf(work.req, work.row))
          /\ work.row > 0 => work.done >= Common(work.req)
    /\ AtStart => work.row > 0

\* The prefix the context names is the first pass of the row at hand, or unknown.
PrefixOf ==
    /\ AtPasses /\ prefix # Unknown =>
          /\ Text(work.req) /\ work.row > 0 /\ work.done > 0
          /\ Len(Plan(work.req, work.row)) = 2
          /\ prefix = SubSeq(work.req.rows[work.row].ids, 1, Plan(work.req, work.row)[1])
    /\ AtStart /\ work.req.kind \in {"winnow", "jev"} => prefix = Unknown

\* The cache holds the passes done of the row at hand, and those every row shares.
Filled ==
    /\ AtPasses => cache[SeqOf(work.req, work.row)] = Planned(work.req, work.row, work.done)
    /\ work.at # "idle" /\ work.req.kind = "jev" /\ work.row > 0 =>
          cache[0] = Planned(work.req, 0, Common(work.req))
    /\ AtStart /\ work.req.kind = "winnow" =>
          UpTo(cache[0], Shared(work.req)) = Planned(work.req, 0, 2)

LlamaInv == LlamaTypeOK /\ Working /\ PrefixOf /\ PrefixTrue /\ Filled /\ FixedPlan

LEMMA LlamaStarts == ASSUME LlamaInit PROVE LlamaInv
<1>1. work.at = "idle" /\ prefix = Unknown
  BY DEF LlamaInit, Idle
<1>2. LlamaTypeOK
  BY DEF LlamaInit, LlamaTypeOK
<1> QED
  BY <1>1, <1>2
  DEF LlamaInv, Working, PrefixOf, PrefixTrue, Filled, FixedPlan, AtPasses, AtStart

\* A step that leaves no request in work.
LEMMA EndsWork ==
  ASSUME LlamaTypeOK', work' = Idle, PrefixTrue'
  PROVE  LlamaInv'
  BY DEF LlamaInv, Idle, Working, PrefixOf, Filled, FixedPlan, AtPasses, AtStart

LEMMA BusyAt ==
  ASSUME LlamaTypeOK, work # Idle
  PROVE  /\ work \in Busy /\ work.req \in Request /\ work.row \in Nat /\ work.done \in Nat
         /\ work.at \in {"start", "passes"}
  BY DEF LlamaTypeOK, Busy

LEMMA AtToStart ==
  ASSUME NEW r \in Request, NEW row \in Nat, At(r, "start", row)
  PROVE  /\ work' \in Busy /\ work'.at = "start" /\ work'.req = r /\ work'.row = row
         /\ work'.done = 0
  BY DEF At, Busy

LEMMA AtToPasses ==
  ASSUME NEW r \in Request, NEW row \in Nat, At(r, "passes", row)
  PROVE  /\ work' \in Busy /\ work'.at = "passes" /\ work'.req = r /\ work'.row = row
         /\ work'.done = 0
  BY DEF At, Busy

LEMMA ToPasses ==
  ASSUME work \in Busy, NEW m \in Nat, Passes(m)
  PROVE  /\ work' \in Busy /\ work'.at = "passes" /\ work'.req = work.req
         /\ work'.row = work.row /\ work'.done = m
  BY DEF Passes, Busy

LEMMA ToNextRow ==
  ASSUME work \in Busy, NextRow
  PROVE  /\ work' \in Busy /\ work'.at = "start" /\ work'.req = work.req
         /\ work'.row = work.row + 1 /\ work'.done = 0
<1>1. work.row \in Nat /\ work.req \in Request
  BY DEF Busy
<1>2. work' = [at |-> "start", req |-> work.req, row |-> work.row + 1, done |-> 0]
  BY DEF NextRow, Busy
<1> QED BY <1>1, <1>2 DEF Busy

LEMMA BeginRowsKeeps == ASSUME LlamaInv, NEW r \in Request, BeginRows(r) PROVE LlamaInv'
<1>1. work' \in Busy /\ work'.at = "start" /\ work'.req = r /\ work'.row = 1
  BY AtToStart DEF BeginRows
<1>2. r.kind \in {"prefix", "cold", "d1"} /\ UNCHANGED <<kinds, cache, prefix, logits, poisoned>>
  BY DEF BeginRows, CacheKept
<1> QED
  BY <1>1, <1>2
  DEF LlamaInv, LlamaTypeOK, Working, PrefixOf, PrefixTrue, Filled, FixedPlan, AtPasses, AtStart

LEMMA ClearedIs ==
  ASSUME Cleared
  PROVE  /\ cache' \in [{0, 1} -> SUBSET Cell] /\ cache'[0] = {} /\ cache'[1] = {}
         /\ prefix' = Unknown
  BY DEF Cleared

LEMMA BeginSharedKeeps == ASSUME LlamaInv, NEW r \in Request, BeginShared(r) PROVE LlamaInv'
<1>1. work' \in Busy /\ work'.at = "passes" /\ work'.req = r /\ work'.row = 0 /\ work'.done = 0
  BY AtToPasses DEF BeginShared
<1>2. r.kind \in {"winnow", "jev"} /\ UNCHANGED <<kinds, logits, poisoned>>
  BY DEF BeginShared
<1>3. /\ cache' \in [{0, 1} -> SUBSET Cell] /\ cache'[0] = {} /\ cache'[1] = {}
      /\ prefix' = Unknown
  BY ClearedIs DEF BeginShared
<1>4. RowOf(r, 0)
  BY <1>2, RequestIs DEF RowOf
<1>5. 0 \in 0..Len(PlanOf(r, 0)) /\ Planned(r, 0, 0) = {} /\ SeqOf(r, 0) \in {0, 1}
  BY <1>4, PlanIs, PlannedNone DEF PlanFits, SeqOf
<1>6. LlamaTypeOK'
  BY <1>1, <1>2, <1>3 DEF LlamaInv, LlamaTypeOK
<1>7. Working' /\ PrefixOf' /\ PrefixTrue'
  BY <1>1, <1>3, <1>4, <1>5 DEF Working, PrefixOf, PrefixTrue, AtPasses, AtStart
<1>8. cache'[SeqOf(work'.req, work'.row)] = Planned(work'.req, work'.row, work'.done)
  BY <1>1, <1>3, <1>5, Zenon
<1>9. Filled'
  BY <1>1, <1>8 DEF Filled, AtPasses, AtStart
<1>10. FixedPlan'
  BY <1>1 DEF FixedPlan
<1> QED BY <1>6, <1>7, <1>9, <1>10 DEF LlamaInv

\* A row begins at one in work, with a plan of its own.
LEMMA RowBegins ==
  ASSUME LlamaInv, HasRow
  PROVE  /\ work \in Busy /\ work.req \in Request /\ work.row \in Nat /\ work.row # 0
         /\ work.row \in 1..Len(work.req.rows) /\ RowOf(work.req, work.row)
         /\ PlanOf(work.req, work.row) = Plan(work.req, work.row)
         /\ IdsOf(work.req, work.row) = work.req.rows[work.row].ids
         /\ work.at = "start"
<1>1. work.at = "start" /\ work # Idle
  BY DEF HasRow, Idle
<1>2. work \in Busy /\ work.req \in Request /\ work.row \in Nat
  BY <1>1, BusyAt DEF LlamaInv
<1>3. work.row \in 1..Len(work.req.rows) /\ work.row # 0
  BY <1>1, <1>2 DEF HasRow, LlamaInv, Working, AtStart
<1>4. RowOf(work.req, work.row)
  BY <1>2, <1>3, RequestIs DEF RowOf
<1> QED BY <1>1, <1>2, <1>3, <1>4, RowIsThere

LEMMA KindsDiffer ==
  ASSUME NEW r, Text(r) \/ r.kind = "d1"
  PROVE  r.kind \notin {"winnow", "jev"} /\ Common(r) = 0
  BY DEF Text, Common

\* A text row, or one with images, that begins in an empty context.
LEMMA FreshKeeps ==
  ASSUME LlamaInv, HasRow, Text(work.req) \/ work.req.kind = "d1", Cleared, Passes(0),
         UNCHANGED <<kinds, logits, poisoned>>
  PROVE  LlamaInv'
<1> DEFINE r == work.req  i == work.row
<1>1. /\ work \in Busy /\ r \in Request /\ i \in Nat /\ i # 0 /\ RowOf(r, i)
      /\ PlanOf(r, i) = Plan(r, i)
  BY RowBegins
<1>2. work' \in Busy /\ work'.at = "passes" /\ work'.req = r /\ work'.row = i /\ work'.done = 0
  BY <1>1, ToPasses
<1>3. r.kind \notin {"winnow", "jev"} /\ Common(r) = 0
  BY KindsDiffer
<1>4. 0 < Len(Plan(r, i)) /\ Len(Plan(r, i)) \in Nat /\ Planned(r, i, 0) = {} /\ SeqOf(r, i) = 0
  BY <1>1, <1>3, PlanIs, PlannedNone DEF PlanFits, SeqOf
<1>5. /\ cache' \in [{0, 1} -> SUBSET Cell] /\ cache'[0] = {} /\ prefix' = Unknown
  BY ClearedIs
<1> HIDE DEF r, i
<1>6. LlamaTypeOK'
  BY <1>2, <1>5 DEF LlamaInv, LlamaTypeOK
<1>7. Working' /\ PrefixOf' /\ PrefixTrue'
  BY <1>1, <1>2, <1>3, <1>4, <1>5 DEF Working, PrefixOf, PrefixTrue, AtPasses, AtStart
<1>8. cache'[SeqOf(work'.req, work'.row)] = Planned(work'.req, work'.row, work'.done)
  BY <1>2, <1>4, <1>5, Zenon
<1>9. Filled' /\ FixedPlan'
  BY <1>2, <1>3, <1>4, <1>8 DEF Filled, FixedPlan, AtPasses, AtStart
<1> QED BY <1>6, <1>7, <1>9 DEF LlamaInv

LEMMA PrefixIs ==
  ASSUME NEW s \in Seq(Token), NEW p \in Nat, p <= Len(s)
  PROVE  /\ SubSeq(s, 1, p) \in Seq(Token) /\ Len(SubSeq(s, 1, p)) = p
         /\ \A k \in 1..p : SubSeq(s, 1, p)[k] = s[k]
  OBVIOUS

LEMMA CutIs ==
  ASSUME LlamaTypeOK, NEW p, CutTo(p)
  PROVE  /\ cache' \in [{0, 1} -> SUBSET Cell] /\ cache'[0] = UpTo(cache[0], p)
         /\ cache'[1] = cache[1] /\ prefix' = prefix
  BY DEF LlamaTypeOK, CutTo, UpTo

\* A text row whose first pass the context holds already, cut back to it.
LEMMA HeldKeeps ==
  ASSUME LlamaInv, HasRow, Text(work.req), HoldsPrefix(work.req, work.row),
         CutTo(Plan(work.req, work.row)[1]), Passes(1), UNCHANGED <<kinds, logits, poisoned>>
  PROVE  LlamaInv'
<1> DEFINE r == work.req  i == work.row  ids == r.rows[i].ids  p == Plan(r, i)[1]
<1>1. /\ work \in Busy /\ r \in Request /\ i \in Nat /\ i # 0 /\ RowOf(r, i)
      /\ PlanOf(r, i) = Plan(r, i) /\ IdsOf(r, i) = ids
  BY RowBegins
<1>2. work' \in Busy /\ work'.at = "passes" /\ work'.req = r /\ work'.row = i /\ work'.done = 1
  BY <1>1, ToPasses
<1>3. r.kind \notin {"winnow", "jev"} /\ Common(r) = 0
  BY KindsDiffer
<1>4. Len(Plan(r, i)) = 2 /\ prefix = SubSeq(ids, 1, p)
  BY DEF HoldsPrefix
<1>5. Plan(r, i) \in Seq(Nat) /\ p <= Len(ids) /\ p \in Nat /\ ids \in Seq(Token)
  <2>1. Plan(r, i) \in Seq(Nat) /\ ids \in Seq(Token) /\ 1 \in 1..Len(Plan(r, i))
    BY <1>1, <1>4, PlanIs, IdsAre DEF PlanFits
  <2>2. p <= Len(ids)
    BY <1>1, <2>1, PlanIs DEF PlanFits
  <2> QED BY <2>1, <2>2
<1>6. prefix \in Seq(Token) /\ Len(prefix) = p /\ prefix # Unknown
      /\ \A k \in 1..p : prefix[k] = ids[k]
  <2> HIDE DEF ids, p
  <2>1. prefix \in Seq(Token) /\ Len(prefix) = p /\ \A k \in 1..p : prefix[k] = ids[k]
    BY <1>4, <1>5, PrefixIs
  <2> QED BY <2>1, LlamaAssumption
<1>7. cache' \in [{0, 1} -> SUBSET Cell] /\ cache'[0] = UpTo(cache[0], p) /\ prefix' = prefix
  BY CutIs DEF LlamaInv
<1>8. UpTo(cache[0], p) = Cells(prefix, 1, p)
  BY <1>6 DEF LlamaInv, PrefixTrue
<1>9. Planned(r, i, 1) = Cells(ids, 1, p)
  <2>1. Planned(r, i, 1) = Planned(r, i, 0) \cup PassOf(r, i, 1)
    BY PlannedNext
  <2>2. PassOf(r, i, 1) = Cells(ids, 1, p)
    BY <1>1 DEF PassOf, Begins
  <2> QED BY <2>1, <2>2, PlannedNone
<1>10. Cells(prefix, 1, p) = Cells(ids, 1, p)
  <2> HIDE DEF ids, p
  <2> QED BY <1>5, <1>6, CellsAgree
<1>11. SeqOf(r, i) = 0
  BY <1>3 DEF SeqOf
<1>12. UpTo(cache'[0], p) = UpTo(cache[0], p)
  BY <1>7 DEF UpTo
<1>13. cache'[SeqOf(work'.req, work'.row)] = Planned(work'.req, work'.row, work'.done)
  BY <1>2, <1>7, <1>8, <1>9, <1>10, <1>11, Zenon
<1>14. Text(r)
  OBVIOUS
<1> HIDE DEF r, i, ids, p
<1>15. LlamaTypeOK'
  BY <1>2, <1>7 DEF LlamaInv, LlamaTypeOK
<1>16. Working'
  <2>1. RowOf(work'.req, work'.row) /\ Common(work'.req) = 0
        /\ Len(PlanOf(work'.req, work'.row)) = 2
    BY <1>1, <1>2, <1>3, <1>4
  <2> QED BY <1>2, <2>1 DEF Working, AtPasses, AtStart
<1>17. PrefixOf'
  BY <1>1, <1>2, <1>3, <1>4, <1>7, <1>14 DEF PrefixOf, AtPasses, AtStart, ids, p
<1>18. PrefixTrue'
  BY <1>6, <1>7, <1>8, <1>12 DEF PrefixTrue
<1>19. Filled' /\ FixedPlan'
  BY <1>2, <1>3, <1>4, <1>13 DEF Filled, FixedPlan, AtPasses, AtStart
<1> QED BY <1>15, <1>16, <1>17, <1>18, <1>19 DEF LlamaInv

\* A text row with one candidate needs no pass.
LEMMA SkipKeeps ==
  ASSUME LlamaInv, HasRow, Text(work.req), CacheKept, NextRow, UNCHANGED <<kinds, logits, poisoned>>
  PROVE  LlamaInv'
<1>1. work \in Busy /\ work.row \in Nat
  BY RowBegins
<1>2. work' \in Busy /\ work'.at = "start" /\ work'.req = work.req /\ work'.row = work.row + 1
  BY <1>1, ToNextRow
<1>3. work.req.kind \notin {"winnow", "jev"}
  BY KindsDiffer
<1>4. kinds' = kinds /\ cache' = cache /\ prefix' = prefix /\ logits' = logits
      /\ poisoned' = poisoned
  BY DEF CacheKept
<1>5. LlamaTypeOK' /\ PrefixTrue'
  BY <1>2, <1>4 DEF LlamaInv, LlamaTypeOK, PrefixTrue
<1>6. Working' /\ PrefixOf' /\ Filled' /\ FixedPlan'
  BY <1>1, <1>2, <1>3, <1>4 DEF Working, PrefixOf, Filled, FixedPlan, AtPasses, AtStart
<1> QED BY <1>5, <1>6 DEF LlamaInv

LEMMA StartTextKeeps == ASSUME LlamaInv, StartText PROVE LlamaInv'
  BY SkipKeeps, HeldKeeps, FreshKeeps DEF StartText

LEMMA StartD1Keeps == ASSUME LlamaInv, StartD1 PROVE LlamaInv'
  BY FreshKeeps DEF StartD1

\* A row of an image request begins where the shared passes end.
LEMMA StartWinnowKeeps == ASSUME LlamaInv, StartWinnow PROVE LlamaInv'
<1> DEFINE r == work.req  i == work.row
<1>1. /\ work \in Busy /\ r \in Request /\ i \in Nat /\ i # 0 /\ RowOf(r, i)
      /\ i \in 1..Len(r.rows) /\ work.at = "start" /\ PlanOf(r, i) = Plan(r, i)
  BY RowBegins DEF StartWinnow
<1>2. work' \in Busy /\ work'.at = "passes" /\ work'.req = r /\ work'.row = i /\ work'.done = 2
  BY <1>1, ToPasses DEF StartWinnow
<1>3. r.kind = "winnow" /\ Common(r) = 2 /\ SeqOf(r, i) = 0
      /\ UNCHANGED <<kinds, logits, poisoned>>
  BY DEF StartWinnow, Common, SeqOf
<1>4. /\ cache' \in [{0, 1} -> SUBSET Cell] /\ cache'[0] = UpTo(cache[0], Shared(r))
      /\ prefix' = prefix
  BY CutIs DEF LlamaInv, StartWinnow
<1>5. UpTo(cache[0], Shared(r)) = Planned(r, 0, 2) /\ prefix = Unknown
  BY <1>1, <1>3 DEF LlamaInv, Filled, PrefixOf, AtStart
<1>6. Planned(r, i, 2) = Planned(r, 0, 2)
  BY <1>1, <1>3, SharedPlanned
<1>7. cache'[SeqOf(work'.req, work'.row)] = Planned(work'.req, work'.row, work'.done)
  BY <1>2, <1>3, <1>4, <1>5, <1>6, Zenon
<1>8. 2 < Len(Plan(r, i)) /\ Len(Plan(r, i)) \in Nat
  BY <1>1, <1>3, PlanIs DEF PlanFits
<1> HIDE DEF r, i
<1>9. LlamaTypeOK'
  BY <1>2, <1>3, <1>4 DEF LlamaInv, LlamaTypeOK
<1>10. Working' /\ PrefixOf' /\ PrefixTrue'
  BY <1>1, <1>2, <1>3, <1>4, <1>5, <1>8 DEF Working, PrefixOf, PrefixTrue, AtPasses, AtStart
<1>11. Filled'
  BY <1>2, <1>3, <1>7 DEF Filled, AtPasses, AtStart
<1>12. FixedPlan'
  <2>1. work'.done # Len(Plan(work'.req, work'.row)) /\ work'.req.kind # "jev"
    <3>1. Len(Plan(work'.req, work'.row)) = Len(Plan(r, i))
      BY <1>2, Zenon
    <3>2. Len(Plan(r, i)) # 2
      <4> DEFINE n == Len(Plan(r, i))
      <4>1. n \in Nat /\ 2 < n
        BY <1>8
      <4>2. n # 2
        <5> HIDE DEF n
        <5> QED BY <4>1
      <4> QED BY <4>2
    <3> QED BY <1>2, <1>3, <3>1, <3>2, Zenon
  <2> QED BY <2>1 DEF FixedPlan
<1> QED BY <1>9, <1>10, <1>11, <1>12 DEF LlamaInv

\* A row of a jev-style request begins with a copy of the shared blocks.
LEMMA StartJevKeeps == ASSUME LlamaInv, StartJev PROVE LlamaInv'
<1> DEFINE r == work.req  i == work.row
<1>1. /\ work \in Busy /\ r \in Request /\ i \in Nat /\ i # 0 /\ RowOf(r, i)
      /\ i \in 1..Len(r.rows) /\ work.at = "start" /\ PlanOf(r, i) = Plan(r, i)
  BY RowBegins DEF StartJev
<1>2. r.kind = "jev" /\ SeqOf(r, i) = 1 /\ UNCHANGED <<kinds, prefix, logits, poisoned>>
  BY <1>1 DEF StartJev, SeqOf
<1>3. Common(r) \in Nat /\ Common(r) < Len(Plan(r, i)) /\ Len(Plan(r, i)) \in Nat
  BY <1>1, <1>2, PlanIs, RequestIs DEF PlanFits, Common
<1>4. /\ work' \in Busy /\ work'.at = "passes" /\ work'.req = r /\ work'.row = i
      /\ work'.done = Common(r)
  BY <1>1, <1>3, ToPasses DEF StartJev
<1>5. cache' \in [{0, 1} -> SUBSET Cell] /\ cache'[0] = cache[0] /\ cache'[1] = cache[0]
  BY DEF StartJev, LlamaInv, LlamaTypeOK
<1>6. cache[0] = Planned(r, 0, Common(r)) /\ prefix = Unknown
  BY <1>1, <1>2 DEF LlamaInv, Filled, PrefixOf, AtStart
<1>7. Planned(r, i, Common(r)) = Planned(r, 0, Common(r))
  BY <1>1, <1>2, SharedPlanned
<1>8. cache'[SeqOf(work'.req, work'.row)] = Planned(work'.req, work'.row, work'.done)
  BY <1>2, <1>4, <1>5, <1>6, <1>7, Zenon
<1> HIDE DEF r, i
<1>9. LlamaTypeOK'
  BY <1>2, <1>4, <1>5 DEF LlamaInv, LlamaTypeOK
<1>10. Working' /\ PrefixOf' /\ PrefixTrue'
  BY <1>1, <1>2, <1>3, <1>4, <1>6 DEF Working, PrefixOf, PrefixTrue, AtPasses, AtStart
<1>11. Filled' /\ FixedPlan'
  BY <1>2, <1>3, <1>4, <1>5, <1>6, <1>8 DEF Filled, FixedPlan, AtPasses, AtStart
<1> QED BY <1>9, <1>10, <1>11 DEF LlamaInv

\* A row whose passes are not over, and the cells of its next pass.
LEMMA PassingIs ==
  ASSUME LlamaInv, work.at = "passes"
  PROVE  /\ work \in Busy /\ work.req \in Request /\ work.row \in Nat /\ work.done \in Nat
         /\ RowOf(work.req, work.row) /\ work.done <= Len(PlanOf(work.req, work.row))
         /\ Len(PlanOf(work.req, work.row)) \in Nat /\ PlanFits(work.req, work.row)
         /\ cache[SeqOf(work.req, work.row)] = Planned(work.req, work.row, work.done)
         /\ cache \in [{0, 1} -> SUBSET Cell] /\ SeqOf(work.req, work.row) \in {0, 1}
<1>1. work \in Busy /\ work.req \in Request /\ work.row \in Nat /\ work.done \in Nat
  BY BusyAt DEF LlamaInv, Idle
<1>2. RowOf(work.req, work.row) /\ work.done \in 0..Len(PlanOf(work.req, work.row))
  BY DEF LlamaInv, Working, AtPasses
<1>3. PlanFits(work.req, work.row)
  BY <1>1, <1>2, PlanIs
<1>4. Len(PlanOf(work.req, work.row)) \in Nat
  BY <1>3 DEF PlanFits
<1>5. SeqOf(work.req, work.row) \in {0, 1}
  BY DEF SeqOf
<1> QED BY <1>1, <1>2, <1>3, <1>4, <1>5 DEF LlamaInv, LlamaTypeOK, Filled, AtPasses

\* Only the first of two passes of a text row is not its last.
LEMMA TextPlan ==
  ASSUME NEW r, NEW i, Text(r)
  PROVE  \E p, n : Plan(r, i) \in {<<n>>, <<p, n>>}
<1> DEFINE p == IF r.kind = "prefix" THEN split_point(r.rows[i].ids, r.reference) ELSE 0
           n == Len(r.rows[i].ids)
<1>1. Plan(r, i) = IF p = 0 THEN <<n>> ELSE <<p, n>>
  BY DEF Plan, Text
<1>2. Plan(r, i) \in {<<n>>, <<p, n>>}
  <2> HIDE DEF p, n
  <2> QED BY <1>1
<1> QED BY <1>2

LEMMA FirstOfTwo ==
  ASSUME NEW r, NEW i, Text(r), NEW m \in Nat \ {0}, m < Len(Plan(r, i))
  PROVE  m = 1 /\ Len(Plan(r, i)) = 2
<1>1. PICK p, n : Plan(r, i) \in {<<n>>, <<p, n>>}
  BY TextPlan
<1> DEFINE l == Len(Plan(r, i))
<1>2. l \in {1, 2} /\ m < l
  BY <1>1
<1>3. m = 1 /\ l = 2
  <2> HIDE DEF l
  <2> QED BY <1>2
<1> QED BY <1>3

LEMMA PassKeeps == ASSUME LlamaInv, Pass PROVE LlamaInv'
<1> DEFINE r == work.req  i == work.row  m == work.done + 1  s == SeqOf(r, i)
           ends == PlanOf(r, i)  new == PassOf(r, i, m)
<1>1. /\ work.at = "passes" /\ work \in Busy /\ r \in Request /\ i \in Nat /\ work.done \in Nat
      /\ RowOf(r, i) /\ PlanFits(r, i) /\ Len(ends) \in Nat /\ s \in {0, 1}
      /\ cache \in [{0, 1} -> SUBSET Cell] /\ cache[s] = Planned(r, i, work.done)
  BY PassingIs DEF Pass, InPass
<1>2. m \in Nat \ {0} /\ m - 1 = work.done /\ m \in 1..Len(ends)
  BY <1>1 DEF Pass, InPass
<1>3. /\ cache' = [cache EXCEPT ![s] = @ \cup new]
      /\ logits' = IF new = {} THEN logits
                   ELSE IF Outputs(r, i, m) THEN cache[s] \cup new ELSE Unknown
      /\ prefix' = IF Text(r) /\ m < Len(ends) THEN SubSeq(IdsOf(r, i), 1, ends[m]) ELSE prefix
      /\ Passes(m) /\ UNCHANGED <<kinds, poisoned>>
  BY Zenon DEF Pass, PassOf
<1>4. work' \in Busy /\ work'.at = "passes" /\ work'.req = r /\ work'.row = i /\ work'.done = m
  BY <1>1, <1>2, <1>3, ToPasses
<1>5. new \subseteq Cell
  BY <1>1, <1>2, PassTyped
<1>6. Planned(r, i, m) = cache[s] \cup new
  BY <1>1, <1>2, PlannedNext
<1>7. /\ cache' \in [{0, 1} -> SUBSET Cell] /\ cache'[s] = Planned(r, i, m)
      /\ \A q \in {0, 1} : q # s => cache'[q] = cache[q]
  BY <1>1, <1>3, <1>5, <1>6
<1>8. Begins(ends, m) \in Nat \ {0} /\ ends[m] \in Nat /\ ends \in Seq(Nat)
      /\ IdsOf(r, i) \in Seq(Token) /\ ends[m] <= Len(IdsOf(r, i))
  BY <1>1, <1>2, BeginsIs, IdsAre DEF PlanFits
<1>9. i # 0 => ends = Plan(r, i) /\ IdsOf(r, i) = r.rows[i].ids
  BY <1>1, RowIsThere
<1>10. i > 0 => work.done >= Common(r)
  BY <1>1 DEF LlamaInv, Working, AtPasses
<1>11. Outputs(r, i, m) => new # {}
  <2> SUFFICES ASSUME Outputs(r, i, m) PROVE new # {}
    OBVIOUS
  <2>1. Begins(ends, m) <= ends[m]
    BY <1>1, <1>2 DEF PlanFits
  <2>2. ends[m] \in Begins(ends, m)..ends[m]
    BY <1>8, <2>1
  <2> QED BY <2>2 DEF PassOf, Cells
<1>12. prefix \in Seq(Token) \cup {Unknown} /\ (logits = Unknown \/ logits \subseteq Cell)
       /\ kinds \subseteq Kind /\ poisoned \in BOOLEAN
  BY DEF LlamaInv, LlamaTypeOK
<1>13. SubSeq(IdsOf(r, i), 1, ends[m]) \in Seq(Token)
       /\ Len(SubSeq(IdsOf(r, i), 1, ends[m])) = ends[m]
       /\ \A k \in 1..ends[m] : SubSeq(IdsOf(r, i), 1, ends[m])[k] = IdsOf(r, i)[k]
  BY <1>8, PrefixIs
<1>14. LlamaTypeOK'
  <2>1. prefix' \in Seq(Token) \cup {Unknown}
    BY <1>3, <1>12, <1>13
  <2>2. logits' = Unknown \/ logits' \subseteq Cell
    BY <1>1, <1>3, <1>5, <1>12
  <2> HIDE DEF r, i, m, s, new
  <2> QED BY <1>3, <1>4, <1>7, <1>12, <2>1, <2>2 DEF LlamaTypeOK
<1>15. Working'
  <2>1. m \in 0..Len(ends) /\ (i > 0 => m >= Common(r))
    BY <1>1, <1>2, <1>10, RequestIs DEF Common
  <2> HIDE DEF m
  <2> QED BY <1>1, <1>4, <2>1 DEF Working, AtPasses, AtStart
<1>16. Text(r) => i > 0 /\ Common(r) = 0 /\ s = 0
  <2>1. Text(r) => r.kind \notin {"winnow", "jev"} /\ Common(r) = 0
    BY KindsDiffer
  <2> QED BY <1>1, <2>1 DEF RowOf, SeqOf
<1>17. Text(r) /\ m < Len(ends) => m = 1 /\ Len(ends) = 2
  <2>1. Text(r) => ends = Plan(r, i)
    BY <1>1, <1>9, <1>16
  <2> HIDE DEF r, i, m, ends
  <2> QED BY <1>2, <2>1, FirstOfTwo
<1>18. PrefixOf'
  <2>1. prefix' # Unknown /\ prefix' # prefix =>
           Text(r) /\ i > 0 /\ m > 0 /\ Len(ends) = 2 /\ prefix' = SubSeq(IdsOf(r, i), 1, ends[1])
    <3>1. prefix' # prefix => Text(r) /\ m < Len(ends) /\ prefix' = SubSeq(IdsOf(r, i), 1, ends[m])
      BY <1>3
    <3> QED BY <1>2, <1>16, <1>17, <3>1
  <2>2. prefix' # Unknown /\ prefix' = prefix =>
           Text(r) /\ i > 0 /\ m > 0 /\ Len(ends) = 2 /\ prefix' = SubSeq(IdsOf(r, i), 1, ends[1])
    BY <1>1, <1>2, <1>9 DEF LlamaInv, PrefixOf, AtPasses
  <2>3. prefix' # Unknown => Text(r) /\ i > 0 /\ m > 0 /\ Len(Plan(r, i)) = 2
                             /\ prefix' = SubSeq(r.rows[i].ids, 1, Plan(r, i)[1])
    BY <1>9, <2>1, <2>2
  <2> HIDE DEF r, i, m
  <2> QED BY <1>4, <2>3 DEF PrefixOf, AtPasses, AtStart
<1>19. PrefixTrue'
  <2>1. CASE Text(r) /\ m < Len(ends)
    <3> DEFINE p == ends[m]  new1 == SubSeq(IdsOf(r, i), 1, p)
    <3>1. prefix' = new1 /\ Len(new1) = p
      BY <1>3, <1>13, <2>1
    <3>2. m = 1 /\ s = 0
      BY <1>16, <1>17, <2>1
    <3>3. cache'[0] = Planned(r, i, 1)
      BY <1>7, <3>2
    <3>4. Planned(r, i, 1) = Cells(IdsOf(r, i), 1, p)
      <4>1. Planned(r, i, 1) = Planned(r, i, 0) \cup PassOf(r, i, 1)
        BY PlannedNext
      <4>2. PassOf(r, i, 1) = Cells(IdsOf(r, i), 1, p)
        BY <3>2 DEF PassOf, Begins
      <4> QED BY <4>1, <4>2, PlannedNone
    <3>5. Cells(new1, 1, p) = Cells(IdsOf(r, i), 1, p)
      <4>1. p \in Nat /\ \A k \in 1..p : new1[k] = IdsOf(r, i)[k]
        BY <1>8, <1>13
      <4> HIDE DEF new1, p
      <4> QED BY <4>1, CellsAgree
    <3>6. UpTo(Cells(IdsOf(r, i), 1, p), p) = Cells(IdsOf(r, i), 1, p)
      <4>1. \A c \in Cells(IdsOf(r, i), 1, p) : c.pos \in 1..p
        BY CellsAre
      <4> QED BY <1>8, <4>1 DEF UpTo
    <3> HIDE DEF new1, p
    <3> QED BY <3>1, <3>3, <3>4, <3>5, <3>6 DEF PrefixTrue
  <2>2. CASE ~(Text(r) /\ m < Len(ends)) /\ prefix # Unknown
    <3>1. prefix' = prefix
      BY <1>3, <2>2
    <3>2. Text(r) /\ i > 0 /\ work.done > 0 /\ Len(ends) = 2 /\ prefix = SubSeq(IdsOf(r, i), 1, ends[1])
      BY <1>1, <1>9, <2>2 DEF LlamaInv, PrefixOf, AtPasses
    <3>3. m = 2 /\ s = 0
      BY <1>1, <1>2, <1>16, <3>2
    <3>4. ends[1] \in Nat /\ Len(prefix) = ends[1]
      <4>1. 1 \in 1..Len(ends) /\ ends[1] \in Nat /\ ends[1] <= Len(IdsOf(r, i))
        BY <1>1, <1>8, <3>2 DEF PlanFits
      <4> QED BY <1>8, <3>2, <4>1, PrefixIs
    <3>5. Begins(ends, m) = ends[1] + 1
      BY <3>3 DEF Begins
    <3>6. \A c \in new : c.pos \in Begins(ends, m)..ends[m]
      BY CellsAre DEF PassOf
    <3>7. \A c \in new : ~(c.pos <= Len(prefix))
      BY <1>8, <3>4, <3>5, <3>6
    <3>8. cache'[0] = cache[0] \cup new
      BY <1>6, <1>7, <3>3
    <3>9. UpTo(cache'[0], Len(prefix)) = UpTo(cache[0], Len(prefix))
      BY <3>7, <3>8 DEF UpTo
    <3> QED BY <3>1, <3>9 DEF LlamaInv, PrefixTrue
  <2>3. CASE ~(Text(r) /\ m < Len(ends)) /\ prefix = Unknown
    BY <1>3, <2>3 DEF PrefixTrue
  <2> QED BY <2>1, <2>2, <2>3
<1>20. Filled'
  <2>1. cache'[SeqOf(work'.req, work'.row)] = Planned(work'.req, work'.row, work'.done)
    BY <1>4, <1>7, Zenon
  <2>2. r.kind = "jev" /\ i > 0 => cache'[0] = Planned(r, 0, Common(r))
    <3>1. r.kind = "jev" /\ i > 0 => s = 1 /\ cache[0] = Planned(r, 0, Common(r))
      BY <1>1 DEF LlamaInv, Filled, SeqOf
    <3> QED BY <1>7, <3>1
  <2> HIDE DEF r, i, m
  <2> QED BY <1>4, <2>1, <2>2 DEF Filled, AtPasses, AtStart
<1>21. FixedPlan'
  <2>1. i > 0 /\ (m = Len(ends) \/ r.kind = "jev") => logits' = Planned(r, i, m)
    <3>1. i > 0 /\ (m = Len(ends) \/ r.kind = "jev") => Outputs(r, i, m)
      BY DEF Outputs
    <3> QED BY <1>3, <1>6, <1>11, <3>1
  <2>2. i > 0 => ends = Plan(r, i)
    BY <1>9
  <2> HIDE DEF r, i, m
  <2> QED BY <1>4, <2>1, <2>2 DEF FixedPlan
<1> QED BY <1>14, <1>15, <1>18, <1>19, <1>20, <1>21 DEF LlamaInv

\* What an error leaves is a context whose prefix is forgotten.
LEMMA FailsKeeps ==
  ASSUME LlamaInv, NEW cells \in [{0, 1} -> SUBSET Cell], Fails(cells),
         logits' = Unknown \/ UNCHANGED logits
  PROVE  LlamaInv'
<1>1. prefix' = Unknown /\ cache' \in [{0, 1} -> SUBSET Cell] /\ work' = Idle
      /\ UNCHANGED <<kinds, poisoned>>
  BY ClearedIs DEF Fails
<1>2. LlamaTypeOK'
  BY <1>1 DEF LlamaInv, LlamaTypeOK
<1>3. PrefixTrue'
  BY <1>1 DEF PrefixTrue
<1> QED BY <1>1, <1>2, <1>3, EndsWork

LEMMA PassFailsKeeps == ASSUME LlamaInv, PassFails PROVE LlamaInv'
<1> DEFINE r == work.req  i == work.row  m == work.done + 1  s == SeqOf(r, i)
           ends == PlanOf(r, i)  new == PassOf(r, i, m)
<1>1. /\ work \in Busy /\ r \in Request /\ i \in Nat /\ work.done \in Nat
      /\ RowOf(r, i) /\ Len(ends) \in Nat /\ s \in {0, 1}
      /\ cache \in [{0, 1} -> SUBSET Cell]
  BY PassingIs DEF PassFails, InPass
<1>2. m \in 1..Len(ends)
  BY <1>1 DEF PassFails, InPass
<1>3. new \subseteq Cell
  BY <1>1, <1>2, PassTyped
<1>4. logits' = Unknown
      /\ \E c \in new : Fails([cache EXCEPT ![s] = @ \cup UpTo(new, c.pos - 1)])
  BY Zenon DEF PassFails, PassOf
<1>5. PICK c \in new : Fails([cache EXCEPT ![s] = @ \cup UpTo(new, c.pos - 1)])
  BY <1>4
<1>6. [cache EXCEPT ![s] = @ \cup UpTo(new, c.pos - 1)] \in [{0, 1} -> SUBSET Cell]
  <2>1. UpTo(new, c.pos - 1) \subseteq Cell
    BY <1>3 DEF UpTo
  <2> HIDE DEF new, s
  <2> QED BY <1>1, <2>1
<1> QED BY <1>4, <1>5, <1>6, FailsKeeps

LEMMA StartFailsKeeps == ASSUME LlamaInv, StartFails PROVE LlamaInv'
<1>1. cache \in [{0, 1} -> SUBSET Cell]
  BY DEF LlamaInv, LlamaTypeOK
<1> QED BY <1>1, FailsKeeps DEF StartFails

LEMMA AnswerFailsKeeps == ASSUME LlamaInv, AnswerFails PROVE LlamaInv'
<1>1. cache \in [{0, 1} -> SUBSET Cell]
  BY DEF LlamaInv, LlamaTypeOK
<1>2. [cache EXCEPT ![1] = {}] \in [{0, 1} -> SUBSET Cell]
  BY <1>1
<1> QED BY <1>1, <1>2, FailsKeeps DEF AnswerFails

\* The row's own passes leave the shared ones to the next row.
LEMMA RowDoneKeeps == ASSUME LlamaInv, RowDone PROVE LlamaInv'
<1> DEFINE r == work.req  i == work.row
<1>1. /\ work.at = "passes" /\ work \in Busy /\ r \in Request /\ i \in Nat /\ RowOf(r, i)
      /\ PlanFits(r, i) /\ cache[SeqOf(r, i)] = Planned(r, i, work.done)
      /\ cache \in [{0, 1} -> SUBSET Cell] /\ work.done = Len(PlanOf(r, i))
  BY PassingIs DEF RowDone
<1>2. work' \in Busy /\ work'.at = "start" /\ work'.req = r /\ work'.row = i + 1
  BY <1>1, ToNextRow DEF RowDone
<1>3. /\ cache' \in [{0, 1} -> SUBSET Cell] /\ cache'[0] = cache[0]
      /\ UNCHANGED <<kinds, prefix, logits, poisoned>>
  BY <1>1 DEF RowDone
<1>4. r.kind \in {"winnow", "jev"} => prefix = Unknown
  <2>1. prefix # Unknown => Text(r)
    BY <1>1 DEF LlamaInv, PrefixOf, AtPasses
  <2> QED BY <2>1, KindsDiffer
<1>5. r.kind = "jev" => cache[0] = Planned(r, 0, Common(r))
  <2>1. CASE i > 0
    BY <1>1, <2>1 DEF LlamaInv, Filled
  <2>2. CASE i = 0
    BY <1>1, <2>2 DEF PlanFits, SeqOf
  <2> QED BY <1>1, <2>1, <2>2
<1>6. r.kind = "winnow" => UpTo(cache[0], Shared(r)) = Planned(r, 0, 2)
  <2> SUFFICES ASSUME r.kind = "winnow" PROVE UpTo(cache[0], Shared(r)) = Planned(r, 0, 2)
    OBVIOUS
  <2>1. SeqOf(r, i) = 0 /\ cache[0] = Planned(r, i, Len(PlanOf(r, i)))
    BY <1>1 DEF SeqOf
  <2>2. CASE i = 0
    <3>1. PlanOf(r, 0) = <<r.head, Shared(r)>>
      BY DEF PlanOf
    <3>2. Len(PlanOf(r, 0)) = 2
      BY <3>1
    <3> QED BY <1>1, <2>1, <2>2, <3>2, SharedAlone
  <2>3. CASE i # 0
    <3>1. PlanOf(r, i) = <<r.head, Shared(r), Len(r.rows[i].ids)>> /\ i \in 1..Len(r.rows)
      BY <1>1, <2>3, RowIsThere DEF Plan
    <3>2. Len(PlanOf(r, i)) = 3
      BY <3>1
    <3> QED BY <1>1, <2>1, <3>1, <3>2, CutPlanned
  <2> QED BY <2>2, <2>3
<1> HIDE DEF r, i
<1>7. LlamaTypeOK' /\ PrefixTrue'
  BY <1>2, <1>3 DEF LlamaInv, LlamaTypeOK, PrefixTrue
<1>8. Working' /\ PrefixOf' /\ FixedPlan'
  BY <1>1, <1>2, <1>3, <1>4 DEF Working, PrefixOf, FixedPlan, AtPasses, AtStart
<1>9. Filled'
  BY <1>2, <1>3, <1>5, <1>6 DEF Filled, AtPasses, AtStart
<1> QED BY <1>7, <1>8, <1>9 DEF LlamaInv

LEMMA FinishKeeps == ASSUME LlamaInv, Finish PROVE LlamaInv'
<1>1. work' = Idle /\ UNCHANGED <<kinds, logits, poisoned>>
      /\ (Cleared \/ UNCHANGED <<cache, prefix>>)
  BY DEF Finish, CacheKept
<1>2. LlamaTypeOK'
  BY <1>1, ClearedIs DEF LlamaInv, LlamaTypeOK
<1>3. PrefixTrue'
  BY <1>1, ClearedIs DEF LlamaInv, PrefixTrue
<1> QED BY <1>1, <1>2, <1>3, EndsWork

LEMMA PanicsKeeps == ASSUME LlamaInv, Panics PROVE LlamaInv'
<1>1. work' = Idle /\ poisoned' = TRUE /\ UNCHANGED <<kinds, cache, prefix, logits>>
  BY DEF Panics
<1>2. LlamaTypeOK' /\ PrefixTrue'
  BY <1>1 DEF LlamaInv, LlamaTypeOK, PrefixTrue
<1> QED BY <1>1, <1>2, EndsWork

LEMMA LlamaLoadedKeeps == ASSUME LlamaInv, LlamaLoaded PROVE LlamaInv'
  BY DEF LlamaLoaded, LayoutKinds, Kind, LlamaInv, LlamaTypeOK, Working, PrefixOf, PrefixTrue, Filled,
      FixedPlan, AtPasses, AtStart

LEMMA LlamaStutters == ASSUME LlamaInv, UNCHANGED llamaVars PROVE LlamaInv'
  BY DEF llamaVars, LlamaInv, LlamaTypeOK, Working, PrefixOf, PrefixTrue, Filled, FixedPlan,
      AtPasses, AtStart

LEMMA LlamaSteps == LlamaInv /\ [LlamaLoaded \/ LlamaNext]_llamaVars => LlamaInv'
<1> SUFFICES ASSUME LlamaInv, [LlamaLoaded \/ LlamaNext]_llamaVars PROVE LlamaInv'
  OBVIOUS
<1>1. ASSUME NEW r \in Request, Refuse(r) \/ BeginRows(r) \/ BeginShared(r) PROVE LlamaInv'
  BY <1>1, BeginRowsKeeps, BeginSharedKeeps, LlamaStutters DEF Refuse
<1> QED
  BY <1>1, StartTextKeeps, StartD1Keeps, StartWinnowKeeps, StartJevKeeps, PassKeeps,
     PassFailsKeeps, StartFailsKeeps, RowDoneKeeps, AnswerFailsKeeps, FinishKeeps, PanicsKeeps,
     LlamaLoadedKeeps, LlamaStutters
  DEF LlamaNext

\* A position has one cell at most, and lies in the context.
Once(cells) ==
    /\ \A c \in cells : c.pos \in 1..NCtx
    /\ \A c, d \in cells : c.pos = d.pos => c = d

\* Where the passes done of a row end.
End(r, i, m) == IF m = 0 THEN 0 ELSE PlanOf(r, i)[m]

\* The second sequence is a jev-style model's.
Alone ==
    /\ kinds \in LayoutKinds \cup {{}}
    /\ kinds # {"jev"} => cache[1] = {}
    /\ work # Idle => work.req.kind \in kinds

\* The rows in work are no longer than the context.
Short ==
    /\ work # Idle /\ work.req.kind # "d1" => \A i \in 1..Len(work.req.rows) : ~TooLong(work.req, i)
    /\ AtPasses /\ work.row > 0 => ~TooLong(work.req, work.row)

\* The cells are where the passes done put them.
Placed ==
    /\ Once(cache[0] \cup cache[1])
    /\ AtPasses => \A c \in cache[0] \cup cache[1] : c.pos <= End(work.req, work.row, work.done)
    /\ work # Idle /\ work.req.kind = "jev" /\ work.row > 0 =>
          \A c \in cache[0] : c.pos <= End(work.req, 0, Common(work.req))

FitInv == Alone /\ Short /\ Placed

LEMMA OncePart == ASSUME NEW S, NEW T, Once(S), T \subseteq S PROVE Once(T)
  BY DEF Once

LEMMA OnceAdds ==
  ASSUME NEW S \in SUBSET Cell, NEW ids, NEW from \in Nat \ {0}, NEW to \in Nat, to <= NCtx,
         Once(S), \A c \in S : c.pos < from
  PROVE  Once(S \cup Cells(ids, from, to))
<1> DEFINE new == Cells(ids, from, to)
<1>1. \A c \in new : c.pos \in from..to
  BY CellsAre
<1>2. \A c, d \in new : c.pos = d.pos => c = d
  BY DEF Cells
<1>3. \A c \in S : c.pos \in Nat
  BY DEF Cell
<1>4. \A c \in new : c.pos \in 1..NCtx
  BY <1>1, LlamaAssumption
<1>5. \A c \in S : \A d \in new : c.pos # d.pos
  BY <1>1, <1>3
<1>6. Once(S \cup new)
  <2> HIDE DEF new
  <2> QED BY <1>2, <1>4, <1>5 DEF Once
<1> QED BY <1>6

\* Passes go on where the last one ended.
LEMMA PlanGrows ==
  ASSUME NEW r \in Request, NEW i \in Nat, RowOf(r, i), NEW j \in 1..Len(PlanOf(r, i))
  PROVE  Begins(PlanOf(r, i), j) <= PlanOf(r, i)[j] + 1
<1>1. PlanOf(r, i) \in Seq(Nat) /\ PlanOf(r, i)[j] \in Nat /\ Begins(PlanOf(r, i), j) \in Nat
      /\ j \in Nat /\ Len(PlanOf(r, i)) \in Nat
  BY PlanIs, BeginsIs DEF PlanFits
<1>2. CASE Outputs(r, i, j)
  BY <1>1, <1>2, PlanIs DEF PlanFits
<1>3. CASE j = 1
  BY <1>1, <1>3 DEF Begins
<1>4. CASE r.kind = "winnow" /\ j # 1 /\ ~Outputs(r, i, j)
  <2>1. j = 2 /\ PlanOf(r, i)[1] = r.head /\ PlanOf(r, i)[2] = Shared(r)
    <3>1. CASE i = 0
      <4>1. PlanOf(r, i) = <<r.head, Shared(r)>>
        BY <1>4, <3>1 DEF PlanOf
      <4> QED BY <1>1, <1>4, <4>1
    <3>2. CASE i # 0
      <4>1. PlanOf(r, i) = <<r.head, Shared(r), Len(r.rows[i].ids)>>
        BY <1>4, <3>2, RowIsThere DEF Plan
      <4>2. j # Len(PlanOf(r, i))
        BY <1>4, <3>2 DEF Outputs
      <4> QED BY <1>1, <1>4, <4>1, <4>2
    <3> QED BY <3>1, <3>2
  <2>2. Shared(r) \in Nat /\ r.head \in Nat /\ r.head <= Shared(r)
    BY <1>4, SharedIs, RequestIs
  <2> QED BY <2>1, <2>2 DEF Begins
<1>5. CASE r.kind = "jev" /\ ~Outputs(r, i, j)
  <2>1. i = 0 /\ PlanOf(r, i) = r.blocks
    BY <1>5 DEF Outputs, PlanOf
  <2>2. 1 \in 1..Len(r.rows)
    BY FirstRow
  <2>3. r.rows[1].blocks \in Seq(Nat) /\ r.rows[1].blocks # <<>> /\ r.blocks \in Seq(Nat)
    BY <1>5, <2>2, RowIs, JevIs, RequestIs
  <2>4. Plan(r, 1) = r.blocks \o r.rows[1].blocks
    BY <1>5 DEF Plan
  <2>5. /\ \A k \in 1..Len(r.blocks) : Plan(r, 1)[k] = r.blocks[k]
        /\ Len(r.blocks) < Len(Plan(r, 1)) /\ Plan(r, 1) \in Seq(Nat) /\ Len(r.blocks) \in Nat
    <3> DEFINE s == r.blocks  t == r.rows[1].blocks
    <3>1. /\ \A k \in 1..Len(s) : (s \o t)[k] = s[k]
          /\ Len(s) < Len(s \o t) /\ s \o t \in Seq(Nat) /\ Len(s) \in Nat
      <4>1. s \in Seq(Nat) /\ t \in Seq(Nat) /\ t # <<>>
        BY <2>3
      <4> HIDE DEF s, t
      <4> QED BY <4>1, JoinIs
    <3> QED BY <3>1, <2>4, Zenon
  <2>6. j \in 1..Len(Plan(r, 1)) /\ Plan(r, 1)[j] = r.blocks[j]
        /\ Begins(Plan(r, 1), j) = Begins(r.blocks, j)
    <3>1. j \in 1..Len(r.blocks) /\ Len(Plan(r, 1)) \in Nat
      BY <2>1, <2>5
    <3>2. j \in 1..Len(Plan(r, 1)) /\ Plan(r, 1)[j] = r.blocks[j]
      BY <3>1, <2>5
    <3>3. j # 1 => Plan(r, 1)[j - 1] = r.blocks[j - 1]
      BY <3>1, <2>5
    <3> QED BY <3>2, <3>3 DEF Begins
  <2>7. Plan(r, 1)[j] \in Begins(Plan(r, 1), j)..Len(r.rows[1].ids)
    BY <1>5, <2>2, <2>6, JevIs
  <2> QED BY <1>1, <2>1, <2>6, <2>7
<1>6. CASE r.kind \notin {"winnow", "jev"} /\ j # 1 /\ ~Outputs(r, i, j)
  <2>1. i # 0 /\ PlanOf(r, i) = Plan(r, i) /\ j # Len(PlanOf(r, i))
    BY <1>1, <1>6, RowIsThere DEF RowOf, Outputs
  <2>2. j < Len(Plan(r, i)) /\ j \in Nat \ {0}
    BY <1>1, <2>1
  <2>3. CASE Text(r)
    BY <1>6, <2>2, <2>3, FirstOfTwo
  <2>4. CASE r.kind = "d1"
    <3>1. Plan(r, i) = <<r.head, Len(r.rows[i].ids)>>
      BY <2>4 DEF Plan
    <3> QED BY <1>6, <2>2, <3>1
  <2> QED BY <1>6, <2>3, <2>4, RequestIs DEF Kind, Text
<1> QED BY <1>2, <1>3, <1>4, <1>5, <1>6

\* A request that is not too long fits.
LEMMA PlanInContext ==
  ASSUME NEW r \in Request, NEW i \in Nat, RowOf(r, i),
         r.kind # "d1" => \A k \in 1..Len(r.rows) : ~TooLong(r, k),
         i > 0 => ~TooLong(r, i), NEW j \in 1..Len(PlanOf(r, i))
  PROVE  PlanOf(r, i)[j] <= NCtx
<1>1. PlanOf(r, i)[j] \in Nat /\ PlanOf(r, i)[j] <= Len(IdsOf(r, i)) /\ Len(IdsOf(r, i)) \in Nat
  BY PlanIs, IdsAre DEF PlanFits
<1>2. \A k \in 1..Len(r.rows) : ~TooLong(r, k) => Len(r.rows[k].ids) <= NCtx
  BY RowIs, LlamaAssumption DEF TooLong
<1>3. CASE i # 0
  BY <1>1, <1>2, <1>3, RowIsThere, LlamaAssumption
<1>4. CASE i = 0
  <2>1. 1 \in 1..Len(r.rows) /\ r.kind \in {"winnow", "jev"}
    BY <1>4, FirstRow DEF RowOf
  <2>2. Len(r.rows[1].ids) <= NCtx /\ Len(r.rows[1].ids) \in Nat /\ Len(r.reference) \in Nat
    BY <1>2, <2>1, RowIs, RequestIs
  <2>3. CASE r.kind = "winnow"
    <3>1. PlanOf(r, i) = <<r.head, Shared(r)>>
      BY <1>4, <2>3 DEF PlanOf
    <3>2. Shared(r) \in Nat /\ r.head \in Nat /\ r.head <= Shared(r)
      BY <2>3, SharedIs, RequestIs
    <3>3. Shared(r) <= Len(r.rows[1].ids)
      BY <2>1, <2>2, <2>3, SharedIs, AgreementsFit
    <3>4. PlanOf(r, i)[j] <= Shared(r)
      BY <3>1, <3>2
    <3> QED BY <1>1, <2>2, <3>2, <3>3, <3>4, LlamaAssumption
  <2>4. CASE r.kind = "jev"
    <3>1. Len(r.reference) <= Len(r.rows[1].ids)
      BY <2>1, <2>2, <2>4, JevIs, AgreementsFit
    <3>2. IdsOf(r, i) = r.reference
      BY <1>4 DEF IdsOf
    <3> QED BY <1>1, <2>2, <3>1, <3>2, LlamaAssumption
  <2> QED BY <2>1, <2>3, <2>4
<1> QED BY <1>3, <1>4

LEMMA OnceNone == Once({})
  BY DEF Once

LEMMA FitStarts == ASSUME LlamaInit PROVE FitInv
<1>1. kinds = {} /\ cache[0] = {} /\ cache[1] = {} /\ work = Idle /\ work.at = "idle"
  BY DEF LlamaInit, Idle
<1> QED BY <1>1, OnceNone DEF FitInv, Alone, Short, Placed, AtPasses

\* A text or image request leaves the second sequence empty.
LEMMA OneSequence ==
  ASSUME FitInv, work # Idle, work.req.kind # "jev"
  PROVE  kinds # {"jev"} /\ cache[1] = {}
  BY DEF FitInv, Alone

LEMMA JevAlone == ASSUME FitInv, work # Idle, work.req.kind = "jev" PROVE kinds = {"jev"}
  BY DEF FitInv, Alone, LayoutKinds

\* Steps that leave no request in work.
LEMMA FitIdle ==
  ASSUME FitInv, work' = Idle, kinds' = kinds, kinds # {"jev"} => cache'[1] = {},
         Once(cache'[0] \cup cache'[1])
  PROVE  FitInv'
<1>1. work'.at = "idle"
  BY DEF Idle
<1>2. Once(cache[0] \cup cache[1])'
  BY DEF Once
<1> QED BY <1>1, <1>2 DEF FitInv, Alone, Short, Placed, AtPasses, Idle

\* Steps that leave a request in work: it is one taken already, or a new one.
LEMMA FitBusy ==
  ASSUME FitInv, work' \in Busy, kinds' = kinds, kinds # {"jev"} => cache'[1] = {},
         work'.req.kind \in kinds,
         work'.req.kind # "d1" => \A i \in 1..Len(work'.req.rows) : ~TooLong(work'.req, i),
         work'.at = "passes" /\ work'.row > 0 => ~TooLong(work'.req, work'.row),
         Once(cache'[0] \cup cache'[1]),
         work'.at = "passes" =>
            \A c \in cache'[0] \cup cache'[1] : c.pos <= End(work'.req, work'.row, work'.done),
         work'.req.kind = "jev" /\ work'.row > 0 =>
            \A c \in cache'[0] : c.pos <= End(work'.req, 0, Common(work'.req))
  PROVE  FitInv'
<1>1. Alone'
  BY DEF FitInv, Alone
<1>2. Short'
  BY DEF Short, AtPasses
<1>3. Once(cache[0] \cup cache[1])'
  BY DEF Once
<1>4. Placed'
  BY <1>3 DEF Placed, AtPasses
<1> QED BY <1>1, <1>2, <1>4 DEF FitInv

LEMMA BeginRowsFits ==
  ASSUME LlamaInv, FitInv, NEW r \in Request, BeginRows(r) PROVE FitInv'
<1>1. work' \in Busy /\ work'.at = "start" /\ work'.req = r /\ work'.row = 1
  BY AtToStart DEF BeginRows
<1>2. r.kind \in {"prefix", "cold", "d1"} /\ r.kind \in kinds /\ UNCHANGED <<kinds, cache>>
  BY DEF BeginRows, CacheKept, Accepts
<1>3. r.kind # "d1" => \A i \in 1..Len(r.rows) : ~TooLong(r, i)
  BY DEF BeginRows, Accepts, Refused
<1>4. Once(cache[0] \cup cache[1]) /\ (kinds # {"jev"} => cache[1] = {})
  BY DEF FitInv, Placed, Alone
<1> QED BY <1>1, <1>2, <1>3, <1>4, FitBusy

LEMMA BeginSharedFits ==
  ASSUME LlamaInv, FitInv, NEW r \in Request, BeginShared(r) PROVE FitInv'
<1>1. work' \in Busy /\ work'.at = "passes" /\ work'.req = r /\ work'.row = 0
  BY AtToPasses DEF BeginShared
<1>2. r.kind \in {"winnow", "jev"} /\ r.kind \in kinds /\ kinds' = kinds
      /\ cache'[0] = {} /\ cache'[1] = {}
  BY ClearedIs DEF BeginShared, Accepts
<1>3. \A i \in 1..Len(r.rows) : ~TooLong(r, i)
  BY <1>2 DEF BeginShared, Accepts, Refused
<1>4. Once(cache'[0] \cup cache'[1])
  BY <1>2, OnceNone
<1> QED BY <1>1, <1>2, <1>3, <1>4, FitBusy

\* What a request in work has been checked for.
LEMMA InWork ==
  ASSUME FitInv, work # Idle
  PROVE  /\ work.req.kind \in kinds
         /\ work.req.kind # "d1" => \A i \in 1..Len(work.req.rows) : ~TooLong(work.req, i)
         /\ Once(cache[0] \cup cache[1])
  BY DEF FitInv, Alone, Short, Placed

LEMMA FreshFits ==
  ASSUME LlamaInv, FitInv, HasRow, Text(work.req) \/ work.req.kind = "d1",
         ~TooLong(work.req, work.row), Cleared, Passes(0), UNCHANGED kinds
  PROVE  FitInv'
<1>1. work \in Busy /\ work # Idle /\ work.req.kind # "jev"
  BY RowBegins, KindsDiffer DEF Idle
<1>2. work' \in Busy /\ work'.at = "passes" /\ work'.req = work.req /\ work'.row = work.row
  BY <1>1, ToPasses
<1>3. cache'[0] = {} /\ cache'[1] = {} /\ Once(cache'[0] \cup cache'[1])
  BY ClearedIs, OnceNone
<1> QED BY <1>1, <1>2, <1>3, InWork, FitBusy

LEMMA CutFits ==
  ASSUME LlamaInv, FitInv, work # Idle, work.req.kind # "jev", NEW p \in Nat, CutTo(p)
  PROVE  /\ cache'[1] = {} /\ Once(cache'[0] \cup cache'[1])
         /\ \A c \in cache'[0] \cup cache'[1] : c.pos <= p
<1>1. cache'[0] = UpTo(cache[0], p) /\ cache'[1] = cache[1] /\ cache[1] = {}
  BY CutIs, OneSequence DEF LlamaInv
<1>2. UpTo(cache[0], p) \subseteq cache[0] \cup cache[1] /\ \A c \in UpTo(cache[0], p) : c.pos <= p
  BY DEF UpTo
<1> QED BY <1>1, <1>2, OncePart, InWork

LEMMA HeldFits ==
  ASSUME LlamaInv, FitInv, HasRow, Text(work.req), HoldsPrefix(work.req, work.row),
         CutTo(Plan(work.req, work.row)[1]), Passes(1), UNCHANGED kinds
  PROVE  FitInv'
<1> DEFINE r == work.req  i == work.row
<1>1. /\ work \in Busy /\ work # Idle /\ r.kind \notin {"jev", "d1"} /\ r \in Request
      /\ i \in 1..Len(r.rows) /\ i \in Nat /\ RowOf(r, i) /\ PlanOf(r, i) = Plan(r, i)
  BY RowBegins DEF Idle, Text
<1>2. work' \in Busy /\ work'.at = "passes" /\ work'.req = r /\ work'.row = i /\ work'.done = 1
  BY <1>1, ToPasses
<1>3. Plan(r, i)[1] \in Nat
  <2>1. Plan(r, i) \in Seq(Nat) /\ Len(Plan(r, i)) = 2
    BY <1>1, PlanIs DEF PlanFits, HoldsPrefix
  <2> QED BY <2>1
<1>4. End(r, i, 1) = Plan(r, i)[1]
  BY <1>1 DEF End
<1>5. ~TooLong(r, i) /\ r.kind \in kinds /\ \A k \in 1..Len(r.rows) : ~TooLong(r, k)
  BY <1>1, InWork
<1>6. /\ cache'[1] = {} /\ Once(cache'[0] \cup cache'[1])
      /\ \A c \in cache'[0] \cup cache'[1] : c.pos <= Plan(r, i)[1]
  BY <1>1, <1>3, CutFits
<1>7. \A c \in cache'[0] \cup cache'[1] : c.pos <= End(work'.req, work'.row, work'.done)
  BY <1>2, <1>4, <1>6
<1> HIDE DEF r, i
<1> QED BY <1>1, <1>2, <1>5, <1>6, <1>7, FitBusy

LEMMA SkipFits ==
  ASSUME LlamaInv, FitInv, HasRow, Text(work.req), CacheKept, NextRow, UNCHANGED kinds
  PROVE  FitInv'
<1>1. work \in Busy /\ work # Idle /\ work.req.kind # "jev"
  BY RowBegins, KindsDiffer DEF Idle
<1>2. work' \in Busy /\ work'.at = "start" /\ work'.req = work.req
  BY <1>1, ToNextRow
<1>3. cache' = cache
  BY DEF CacheKept
<1> QED BY <1>1, <1>2, <1>3, InWork, OneSequence, FitBusy

LEMMA StartTextFits == ASSUME LlamaInv, FitInv, StartText PROVE FitInv'
<1>1. ~TooLong(work.req, work.row)
  <2>1. work # Idle /\ work.req.kind # "d1" /\ work.row \in 1..Len(work.req.rows)
    BY RowBegins DEF StartText, Idle, Text
  <2> QED BY <2>1, InWork
<1> QED BY <1>1, SkipFits, HeldFits, FreshFits DEF StartText

LEMMA StartD1Fits == ASSUME LlamaInv, FitInv, StartD1 PROVE FitInv'
  BY FreshFits DEF StartD1

LEMMA StartWinnowFits == ASSUME LlamaInv, FitInv, StartWinnow PROVE FitInv'
<1> DEFINE r == work.req  i == work.row
<1>1. /\ work \in Busy /\ work # Idle /\ r.kind = "winnow" /\ r \in Request
      /\ i \in 1..Len(r.rows) /\ i # 0 /\ PlanOf(r, i) = Plan(r, i)
  BY RowBegins DEF Idle, StartWinnow
<1>2. work' \in Busy /\ work'.at = "passes" /\ work'.req = r /\ work'.row = i /\ work'.done = 2
  BY <1>1, ToPasses DEF StartWinnow
<1>3. Shared(r) \in Nat
  BY <1>1, SharedIs, RequestIs
<1>4. End(r, i, 2) = Shared(r)
  <2>1. Plan(r, i) = <<r.head, Shared(r), Len(r.rows[i].ids)>>
    BY <1>1 DEF Plan
  <2> QED BY <1>1, <2>1 DEF End
<1>5. ~TooLong(r, i) /\ r.kind \in kinds /\ \A k \in 1..Len(r.rows) : ~TooLong(r, k)
  BY <1>1, InWork
<1>6. /\ cache'[1] = {} /\ Once(cache'[0] \cup cache'[1])
      /\ \A c \in cache'[0] \cup cache'[1] : c.pos <= Shared(r)
  BY <1>1, <1>3, CutFits DEF StartWinnow
<1>7. \A c \in cache'[0] \cup cache'[1] : c.pos <= End(work'.req, work'.row, work'.done)
  BY <1>2, <1>4, <1>6
<1>8. kinds' = kinds
  BY DEF StartWinnow
<1> HIDE DEF r, i
<1> QED BY <1>1, <1>2, <1>5, <1>6, <1>7, <1>8, FitBusy

LEMMA StartJevFits == ASSUME LlamaInv, FitInv, StartJev PROVE FitInv'
<1> DEFINE r == work.req  i == work.row
<1>1. /\ work \in Busy /\ work # Idle /\ r.kind = "jev" /\ r \in Request
      /\ i \in 1..Len(r.rows) /\ i > 0
  BY RowBegins DEF Idle, StartJev
<1>2. Common(r) \in Nat
  BY <1>1, RequestIs DEF Common
<1>3. /\ work' \in Busy /\ work'.at = "passes" /\ work'.req = r /\ work'.row = i
      /\ work'.done = Common(r)
  BY <1>1, <1>2, ToPasses DEF StartJev
<1>4. cache'[0] = cache[0] /\ cache'[1] = cache[0] /\ kinds' = kinds
  BY DEF StartJev, LlamaInv, LlamaTypeOK
<1>5. \A c \in cache[0] : c.pos <= End(r, 0, Common(r))
  BY <1>1 DEF FitInv, Placed
<1>6. End(r, i, Common(r)) = End(r, 0, Common(r))
  <2>1. CASE Common(r) = 0
    BY <2>1 DEF End
  <2>2. CASE Common(r) # 0
    <3>1. Common(r) \in 1..Common(r)
      BY <1>2, <2>2
    <3>2. PlanOf(r, i)[Common(r)] = PlanOf(r, 0)[Common(r)]
      BY <1>1, <3>1, SharedBegins
    <3> QED BY <2>2, <3>2 DEF End
  <2> QED BY <2>1, <2>2
<1>7. kinds = {"jev"} /\ ~TooLong(r, i) /\ r.kind \in kinds /\ \A k \in 1..Len(r.rows) : ~TooLong(r, k)
  BY <1>1, InWork, JevAlone
<1>8. Once(cache'[0] \cup cache'[1])
  BY <1>1, <1>4, InWork, OncePart
<1>9. \A c \in cache'[0] \cup cache'[1] : c.pos <= End(work'.req, work'.row, work'.done)
  BY <1>3, <1>4, <1>5, <1>6
<1> HIDE DEF r, i
<1> QED BY <1>1, <1>3, <1>4, <1>5, <1>7, <1>8, <1>9, FitBusy

\* The cells of a pass come after those in the cache, and fit.
LEMMA PassFitsIn ==
  ASSUME LlamaInv, FitInv, InPass,
         NEW r, r = work.req, NEW i, i = work.row, NEW m, m = work.done + 1
  PROVE  /\ r \in Request /\ m \in Nat \ {0} /\ PlanOf(r, i)[m] \in Nat
         /\ Once(cache[0] \cup cache[1] \cup PassOf(r, i, m))
         /\ \A c \in cache[0] \cup cache[1] \cup PassOf(r, i, m) : c.pos <= PlanOf(r, i)[m]
<1> DEFINE all == cache[0] \cup cache[1]  ends == PlanOf(r, i)
<1>1. /\ work.at = "passes" /\ work # Idle /\ r \in Request /\ i \in Nat /\ work.done \in Nat
      /\ RowOf(r, i) /\ PlanFits(r, i) /\ Len(ends) \in Nat /\ all \in SUBSET Cell
  BY PassingIs DEF InPass, Idle
<1>2. m \in Nat \ {0} /\ m - 1 = work.done /\ m \in 1..Len(ends)
  BY <1>1 DEF InPass
<1>3. ends \in Seq(Nat) /\ ends[m] \in Nat /\ Begins(ends, m) \in Nat \ {0}
  BY <1>1, <1>2, BeginsIs DEF PlanFits
<1>4. Begins(ends, m) <= ends[m] + 1
  BY <1>1, <1>2, PlanGrows
<1>5. /\ r.kind # "d1" => \A k \in 1..Len(r.rows) : ~TooLong(r, k)
      /\ i > 0 => ~TooLong(r, i)
  BY <1>1 DEF FitInv, Short, AtPasses
<1>6. ends[m] <= NCtx
  BY <1>1, <1>2, <1>5, PlanInContext
<1>7. \A c \in all : c.pos <= End(r, i, m - 1)
  BY <1>1, <1>2 DEF FitInv, Placed, AtPasses
<1>8. End(r, i, m - 1) \in Nat /\ End(r, i, m - 1) + 1 = Begins(ends, m)
  BY <1>1, <1>2, <1>3 DEF End, Begins
<1>9. \A c \in all : c.pos \in Nat /\ c.pos < Begins(ends, m) /\ c.pos <= ends[m]
  <2>1. \A c \in all : c.pos \in Nat
    BY <1>1 DEF Cell
  <2> HIDE DEF all, ends
  <2> QED BY <1>3, <1>4, <1>7, <1>8, <2>1
<1>10. Once(all \cup PassOf(r, i, m))
  <2>1. Once(all)
    BY <1>1, InWork
  <2>2. \A c \in all : c.pos < Begins(ends, m)
    BY <1>9
  <2>3. PassOf(r, i, m) = Cells(IdsOf(r, i), Begins(ends, m), ends[m])
    BY DEF PassOf
  <2> HIDE DEF all, ends
  <2> QED BY <1>1, <1>3, <1>6, <2>1, <2>2, <2>3, OnceAdds
<1>11. \A c \in PassOf(r, i, m) : c.pos <= ends[m]
  <2>1. \A c \in PassOf(r, i, m) : c.pos \in Begins(ends, m)..ends[m]
    BY CellsAre DEF PassOf
  <2> QED BY <1>3, <2>1
<1> QED BY <1>1, <1>2, <1>3, <1>9, <1>10, <1>11

LEMMA PassAddsFit == ASSUME LlamaInv, FitInv, Pass PROVE FitInv'
<1> DEFINE r == work.req  i == work.row  m == work.done + 1  s == SeqOf(r, i)
           new == PassOf(r, i, m)
<1>1. /\ work.at = "passes" /\ work # Idle /\ work \in Busy /\ s \in {0, 1}
      /\ cache \in [{0, 1} -> SUBSET Cell] /\ i \in Nat
  BY PassingIs DEF Pass, InPass, Idle
<1>2. /\ r \in Request /\ m \in Nat \ {0} /\ Once(cache[0] \cup cache[1] \cup new)
      /\ \A c \in cache[0] \cup cache[1] \cup new : c.pos <= PlanOf(r, i)[m]
  BY PassFitsIn DEF Pass
<1>3. cache' = [cache EXCEPT ![s] = @ \cup new] /\ Passes(m) /\ kinds' = kinds
  BY Zenon DEF Pass, PassOf
<1>4. work' \in Busy /\ work'.at = "passes" /\ work'.req = r /\ work'.row = i /\ work'.done = m
  BY <1>1, <1>2, <1>3, ToPasses
<1>5. /\ cache'[0] \cup cache'[1] = cache[0] \cup cache[1] \cup new
      /\ s = 0 => cache'[1] = cache[1]
      /\ s = 1 => cache'[0] = cache[0]
  <2> HIDE DEF new, s
  <2> QED BY <1>1, <1>3
<1>6. End(r, i, m) = PlanOf(r, i)[m]
  BY <1>2 DEF End
<1>7. Once(cache'[0] \cup cache'[1])
      /\ \A c \in cache'[0] \cup cache'[1] : c.pos <= End(work'.req, work'.row, work'.done)
  <2> HIDE DEF new, s, r, i, m
  <2> QED BY <1>2, <1>4, <1>5, <1>6
<1>8. kinds # {"jev"} => cache'[1] = {}
  <2>1. kinds # {"jev"} => r.kind # "jev" /\ cache[1] = {}
    BY <1>1, JevAlone DEF FitInv, Alone
  <2>2. r.kind # "jev" => s = 0
    BY DEF SeqOf
  <2> QED BY <1>5, <2>1, <2>2
<1>9. r.kind = "jev" /\ i > 0 => \A c \in cache'[0] : c.pos <= End(r, 0, Common(r))
  <2>1. r.kind = "jev" /\ i > 0 => s = 1 /\ \A c \in cache[0] : c.pos <= End(r, 0, Common(r))
    BY <1>1 DEF FitInv, Placed, SeqOf
  <2> QED BY <1>5, <2>1
<1>10. /\ r.kind # "d1" => \A k \in 1..Len(r.rows) : ~TooLong(r, k)
       /\ i > 0 => ~TooLong(r, i)
       /\ r.kind \in kinds
  BY <1>1, InWork DEF FitInv, Short, AtPasses
<1> HIDE DEF r, i, m, s
<1> QED BY <1>3, <1>4, <1>7, <1>8, <1>9, <1>10, FitBusy

LEMMA FailsFits ==
  ASSUME LlamaInv, FitInv, work # Idle, NEW cells, Fails(cells),
         Once(cells[0] \cup cells[1]), work.req.kind # "jev" => cells[1] = {}
  PROVE  FitInv'
<1>1. work' = Idle /\ kinds' = kinds
  BY DEF Fails
<1>2. CASE Images(work.req)
  <2>1. cache'[0] = {} /\ cache'[1] = {} /\ Once(cache'[0] \cup cache'[1])
    BY <1>2, ClearedIs, OnceNone DEF Fails
  <2> QED BY <1>1, <2>1, FitIdle
<1>3. CASE ~Images(work.req)
  <2>1. cache' = cells
    BY <1>3 DEF Fails
  <2>2. kinds # {"jev"} => cells[1] = {}
    BY JevAlone
  <2> QED BY <1>1, <2>1, <2>2, FitIdle
<1> QED BY <1>2, <1>3

LEMMA PassFailsFits == ASSUME LlamaInv, FitInv, PassFails PROVE FitInv'
<1> DEFINE r == work.req  i == work.row  m == work.done + 1  s == SeqOf(r, i)
           new == PassOf(r, i, m)
<1>1. /\ work # Idle /\ s \in {0, 1} /\ cache \in [{0, 1} -> SUBSET Cell]
  BY PassingIs DEF PassFails, InPass, Idle
<1>2. Once(cache[0] \cup cache[1] \cup new)
  BY PassFitsIn DEF PassFails
<1>3. \E c \in new : Fails([cache EXCEPT ![s] = @ \cup UpTo(new, c.pos - 1)])
  BY Zenon DEF PassFails, PassOf
<1>4. PICK c \in new : Fails([cache EXCEPT ![s] = @ \cup UpTo(new, c.pos - 1)])
  BY <1>3
<1> DEFINE some == UpTo(new, c.pos - 1)  cells == [cache EXCEPT ![s] = @ \cup some]
<1>5. some \subseteq new
  BY DEF UpTo
<1>6. cells[0] \cup cells[1] \subseteq cache[0] \cup cache[1] \cup new
      /\ (s = 0 => cells[1] = cache[1])
  <2> HIDE DEF some, new, s
  <2> QED BY <1>1, <1>5
<1>7. Once(cells[0] \cup cells[1])
  <2> HIDE DEF cells, new
  <2> QED BY <1>2, <1>6, OncePart
<1>8. r.kind # "jev" => cells[1] = {}
  <2>1. r.kind # "jev" => s = 0 /\ cache[1] = {}
    BY <1>1, OneSequence DEF SeqOf
  <2> HIDE DEF cells, s
  <2> QED BY <1>6, <2>1
<1>9. Fails(cells)
  BY <1>4
<1> HIDE DEF cells
<1> QED BY <1>1, <1>7, <1>8, <1>9, FailsFits

LEMMA StartFailsFits == ASSUME LlamaInv, FitInv, StartFails PROVE FitInv'
<1>1. work # Idle /\ Fails(cache)
  BY DEF StartFails, HasRow, Idle
<1> QED BY <1>1, InWork, OneSequence, FailsFits

LEMMA AnswerFailsFits == ASSUME LlamaInv, FitInv, AnswerFails PROVE FitInv'
<1>1. work # Idle /\ cache \in [{0, 1} -> SUBSET Cell]
  BY DEF AnswerFails, Idle, LlamaInv, LlamaTypeOK
<1> DEFINE cut == [cache EXCEPT ![1] = {}]
<1>2. cut[0] = cache[0] /\ cut[1] = {}
  BY <1>1
<1>3. Once(cut[0] \cup cut[1])
  <2> HIDE DEF cut
  <2> QED BY <1>1, <1>2, InWork, OncePart
<1>4. Fails(cache) \/ Fails(cut)
  BY DEF AnswerFails
<1> HIDE DEF cut
<1> QED BY <1>1, <1>2, <1>3, <1>4, InWork, OneSequence, FailsFits

LEMMA RowDoneFits == ASSUME LlamaInv, FitInv, RowDone PROVE FitInv'
<1> DEFINE r == work.req  i == work.row
<1>1. /\ work.at = "passes" /\ work # Idle /\ work \in Busy /\ r \in Request /\ i \in Nat
      /\ RowOf(r, i) /\ PlanFits(r, i) /\ work.done = Len(PlanOf(r, i))
      /\ cache \in [{0, 1} -> SUBSET Cell]
  BY PassingIs DEF RowDone, Idle
<1>2. work' \in Busy /\ work'.at = "start" /\ work'.req = r /\ work'.row = i + 1
  BY <1>1, ToNextRow DEF RowDone
<1>3. cache'[0] = cache[0] /\ cache'[1] = {} /\ kinds' = kinds
  BY <1>1 DEF RowDone
<1>4. Once(cache'[0] \cup cache'[1])
  BY <1>1, <1>3, InWork, OncePart
<1>5. r.kind = "jev" => \A c \in cache[0] : c.pos <= End(r, 0, Common(r))
  <2>1. CASE i > 0
    BY <1>1, <2>1 DEF FitInv, Placed
  <2>2. CASE i = 0
    BY <1>1, <2>2 DEF FitInv, Placed, AtPasses, PlanFits
  <2> QED BY <1>1, <2>1, <2>2
<1>6. r.kind \in kinds /\ (r.kind # "d1" => \A k \in 1..Len(r.rows) : ~TooLong(r, k))
  BY <1>1, InWork
<1> HIDE DEF r, i
<1> QED BY <1>2, <1>3, <1>4, <1>5, <1>6, FitBusy

LEMMA FinishFits == ASSUME LlamaInv, FitInv, Finish PROVE FitInv'
<1>1. work # Idle /\ work' = Idle /\ kinds' = kinds /\ (Cleared \/ cache' = cache)
  BY DEF Finish, CacheKept, Idle
<1>2. Once(cache'[0] \cup cache'[1])
  BY <1>1, InWork, ClearedIs, OnceNone
<1>3. kinds # {"jev"} => cache'[1] = {}
  BY <1>1, ClearedIs DEF FitInv, Alone
<1> QED BY <1>1, <1>2, <1>3, FitIdle

LEMMA PanicsFits == ASSUME LlamaInv, FitInv, Panics PROVE FitInv'
<1>1. work # Idle /\ work' = Idle /\ kinds' = kinds /\ cache' = cache
  BY DEF Panics
<1> QED BY <1>1, InWork, FitIdle DEF FitInv, Alone

LEMMA LlamaLoadedFits == ASSUME LlamaInv, FitInv, LlamaLoaded PROVE FitInv'
<1>1. kinds = {} /\ kinds' \in LayoutKinds /\ cache' = cache /\ work' = work /\ cache[1] = {}
      /\ work = Idle /\ work.at = "idle"
  BY DEF LlamaLoaded, FitInv, Alone, Idle
<1>2. Placed'
  BY <1>1 DEF FitInv, Placed, AtPasses, Once
<1> QED BY <1>1, <1>2 DEF FitInv, Alone, Short, AtPasses

LEMMA FitStutters == ASSUME FitInv, UNCHANGED llamaVars PROVE FitInv'
<1>1. Placed'
  BY DEF FitInv, Placed, AtPasses, Once, llamaVars
<1> QED BY <1>1 DEF FitInv, Alone, Short, AtPasses, llamaVars

LEMMA FitSteps == LlamaInv /\ FitInv /\ [LlamaLoaded \/ LlamaNext]_llamaVars => FitInv'
<1> SUFFICES ASSUME LlamaInv, FitInv, [LlamaLoaded \/ LlamaNext]_llamaVars PROVE FitInv'
  OBVIOUS
<1>1. ASSUME NEW r \in Request, Refuse(r) \/ BeginRows(r) \/ BeginShared(r) PROVE FitInv'
  BY <1>1, BeginRowsFits, BeginSharedFits, FitStutters DEF Refuse
<1> QED
  BY <1>1, StartTextFits, StartD1Fits, StartWinnowFits, StartJevFits, PassAddsFit,
     PassFailsFits, StartFailsFits, RowDoneFits, AnswerFailsFits, FinishFits, PanicsFits,
     LlamaLoadedFits, FitStutters
  DEF LlamaNext

\* LlamaInv holds in every reachable state, for any requests and context size.
THEOREM LlamaInvariance == Spec => []LlamaInv
<1>1. Init => LlamaInv
  BY LlamaStarts DEF Init
<1>2. LlamaInv /\ [Next]_vars => LlamaInv'
  BY LlamaSteps DEF Next, vars, llamaVars
<1> QED BY <1>1, <1>2, PTL DEF Spec

\* Every variable of a context keeps its type.
THEOREM LlamaTyped == Spec => []LlamaTypeOK
<1>1. LlamaInv => LlamaTypeOK
  BY DEF LlamaInv
<1> QED BY <1>1, LlamaInvariance, PTL

\* An answer is read from the row's own passes alone, whatever ran, failed or panicked in
\* the context before.
THEOREM PlansAreFixed == Spec => []FixedPlan
<1>1. LlamaInv => FixedPlan
  BY DEF LlamaInv
<1> QED BY <1>1, LlamaInvariance, PTL

\* The prefix the context says it holds is what its cache begins with.
THEOREM PrefixesAreTrue == Spec => []PrefixTrue
<1>1. LlamaInv => PrefixTrue
  BY DEF LlamaInv
<1> QED BY <1>1, LlamaInvariance, PTL

\* A request that passed its check never finds the context full, for any context size,
\* rows that share a prefix or copy it, and whatever earlier requests left there.
THEOREM ContextNeverFull == Spec => []NeverFull
<1>1. Init => LlamaInv /\ FitInv
  BY LlamaStarts, FitStarts DEF Init
<1>2. (LlamaInv /\ FitInv) /\ [Next]_vars => (LlamaInv /\ FitInv)'
  BY LlamaSteps, FitSteps DEF Next, vars, llamaVars
<1>3. ASSUME LlamaInv /\ FitInv PROVE NeverFull
  <2> DEFINE S == cache[0] \cup cache[1]  f == [c \in S |-> c.pos]
  <2>1. Once(S)
    BY <1>3 DEF FitInv, Placed
  <2>2. f \in Injection(S, 1..NCtx)
    BY <2>1 DEF Once, Injection, IsInjective
  <2>3. IsFiniteSet(1..NCtx) /\ Cardinality(1..NCtx) = NCtx
    BY FS_Interval, LlamaAssumption
  <2>4. Cardinality(S) <= Cardinality(1..NCtx)
    <3> HIDE DEF S, f
    <3> QED BY <2>2, <2>3, FS_Injection
  <2> QED BY <2>3, <2>4 DEF NeverFull
<1> QED BY <1>1, <1>2, <1>3, PTL DEF Spec
-----------------------------------------------------------------------------
(* The projections of a model of layout clm-v1 *)

\* A cache, or what a request has, holds of each text its own projection.
Trues == {[k \in S |-> k] : S \in SUBSET Key}

\* The projections of a request are of its texts, none twice; those still empty have their
\* runs to come; and each text is at hand, or will be.
TextOf(j) == call.texts[call.todo[j]]
CallIn == call \in [at : {"runs", "puts", "answers"}, texts : Asked, out : Trues,
                    todo : Seq(Nat), sorted : Seq(Nat), z : Seq(Key \cup {Empty}), next : Nat]
Rows == 1..Len(call.todo)
Picked == \A j \in Rows : call.todo[j] \in DOMAIN call.texts /\ Tokens[TextOf(j)] <= MaxText
Sorted == call.sorted \in [Rows -> Rows] /\ \A j \in Rows : \E r \in Rows : call.sorted[r] = j
Projected ==
    /\ call.z \in [Rows -> Key \cup {Empty}] /\ call.next \in 1..(Len(call.todo) + 1)
    /\ \A j \in Rows : call.z[j] \in {Empty, TextOf(j)}
    /\ call.at = "runs" => \A r \in Rows : r < call.next => call.z[call.sorted[r]] # Empty
    /\ call.at # "runs" => \A j \in Rows : call.z[j] = TextOf(j)
Comes(k) ==
    \E j \in Rows :
        /\ call.texts[k] = TextOf(j)
        /\ call.at # "answers" /\ (call.at = "puts" => call.next <= j)
Covered == \A k \in DOMAIN call.texts : call.texts[k] \in DOMAIN call.out \/ Comes(k)
CallTrue == Picked /\ Sorted /\ Projected /\ Covered
CallInv == call = NoCall \/ (call.at # "none" /\ CallIn /\ CallTrue)

ClmInv == map \in Trues /\ order \in Seq(Key) /\ panicked \in BOOLEAN /\ CacheBounded /\ CallInv

LEMMA MinIs ==
  ASSUME NEW n \in Nat, NEW S \in SUBSET (1..n), S # {}
  PROVE  \E m \in S : \A k \in S : m <= k
<1>1. S \subseteq Nat
  OBVIOUS
<1>2. PICK m \in S : \A k \in S : ~(<<k, m>> \in OpToRel(<, Nat))
  BY <1>1, NatLessThanWellFounded, WFMin
<1>3. ASSUME NEW k \in S PROVE m <= k
  <2>1. m \in Nat /\ k \in Nat /\ ~(<<k, m>> \in OpToRel(<, Nat))
    BY <1>1, <1>2
  <2> QED BY <2>1 DEF OpToRel
<1> QED BY <1>3

LEMMA ListIs ==
  ASSUME NEW S, NEW m \in Nat, NEW f \in [1..m -> S]
  PROVE  f \in Seq(S) /\ Len(f) = m
  OBVIOUS

\* What the parts of a call are.
LEMMA CallIs ==
  ASSUME CallIn
  PROVE  /\ Len(call.todo) \in Nat /\ call.next \in Nat /\ call.texts \in Asked
         /\ call.out \in Trues /\ call.at \in {"runs", "puts", "answers"}
  BY DEF CallIn

\* A step that keeps the texts, what is to do and its order.
LEMMA CallStays ==
  ASSUME CallTrue, call'.texts = call.texts, call'.todo = call.todo, call'.sorted = call.sorted
  PROVE  Rows' = Rows /\ Picked' /\ Sorted' /\ \A j : TextOf(j)' = TextOf(j)
  BY DEF CallTrue, Rows, Picked, Sorted, TextOf

LEMMA TextsAre ==
  ASSUME NEW texts \in Asked
  PROVE  texts \in Seq(Key) /\ DOMAIN texts = 1..Len(texts) /\ Len(texts) \in Nat
         /\ \A k \in DOMAIN texts : texts[k] \in Key
  BY ClmAssumption

LEMMA ClmStarts == ASSUME ClmInit PROVE ClmInv
<1>1. map \in Trues
  <2>1. <<>> = [k \in {} |-> k] /\ {} \in SUBSET Key
    OBVIOUS
  <2> QED BY <2>1 DEF ClmInit, Trues
<1>2. CacheBounded
  BY ClmAssumption DEF ClmInit, CacheBounded
<1>3. order = <<>> /\ panicked \in BOOLEAN /\ call = NoCall
  BY DEF ClmInit
<1>4. <<>> \in Seq(Key)
  OBVIOUS
<1> QED BY <1>1, <1>2, <1>3, <1>4 DEF ClmInv, CallInv

LEMMA TruesAre ==
  ASSUME NEW f \in Trues
  PROVE  DOMAIN f \in SUBSET Key /\ \A k \in DOMAIN f : f[k] = k
  BY DEF Trues

LEMMA RestrictTrue ==
  ASSUME NEW f \in Trues, NEW S, S \subseteq DOMAIN f
  PROVE  Restrict(f, S) \in Trues /\ DOMAIN Restrict(f, S) = S
<1>1. DOMAIN f \in SUBSET Key /\ \A k \in DOMAIN f : f[k] = k
  BY TruesAre
<1>2. Restrict(f, S) = [k \in S |-> k]
  BY <1>1 DEF Restrict
<1>3. S \in SUBSET Key
  BY <1>1
<1> QED BY <1>2, <1>3 DEF Trues

\* A text that is not in the cache is the first of its kind, or has one before it that is.
LEMMA MissingCover ==
  ASSUME NEW texts \in Asked, NEW k \in DOMAIN texts, texts[k] \notin DOMAIN map
  PROVE  \E j \in Missing(texts) : texts[j] = texts[k]
<1> DEFINE S == {j \in DOMAIN texts : texts[j] = texts[k]}
<1>1. Len(texts) \in Nat /\ S \in SUBSET (1..Len(texts)) /\ S # {}
  BY TextsAre
<1>2. PICK m \in S : \A j \in S : m <= j
  <2> HIDE DEF S
  <2> QED BY <1>1, MinIs
<1>3. m \in Missing(texts)
  <2>1. \A j \in 1..(m - 1) : j \in DOMAIN texts /\ j < m
    BY <1>1, TextsAre
  <2>2. \A j \in 1..(m - 1) : texts[j] # texts[m]
    BY <1>2, <2>1, TextsAre
  <2> QED BY <2>2 DEF Missing
<1> QED BY <1>3

LEMMA ProjectKeeps == ASSUME ClmInv, NEW texts \in Asked, Project(texts) PROVE ClmInv'
<1> DEFINE kept == {texts[k] : k \in DOMAIN texts} \cap DOMAIN map
<1>1. PICK todo \in Arranged(Missing(texts), InOrder(Missing(texts))) :
      \E sorted \in Arranged(DOMAIN todo, Shorter(texts, todo)) :
          call' = [at |-> "runs", texts |-> texts, out |-> Restrict(map, kept),
                   todo |-> todo, sorted |-> sorted,
                   z |-> [k \in DOMAIN todo |-> Empty], next |-> 1]
  BY Zenon DEF Project
<1>2. PICK sorted \in Arranged(DOMAIN todo, Shorter(texts, todo)) :
          call' = [at |-> "runs", texts |-> texts, out |-> Restrict(map, kept),
                   todo |-> todo, sorted |-> sorted,
                   z |-> [k \in DOMAIN todo |-> Empty], next |-> 1]
  BY <1>1
<1>3. UNCHANGED <<map, order, panicked>> /\ ~TooLongText(texts)
  BY DEF Project
<1> DEFINE n == Len(todo)
<1>4. Missing(texts) \subseteq 1..Len(texts) /\ Cardinality(Missing(texts)) \in Nat
  <2>1. Missing(texts) \subseteq 1..Len(texts) /\ Len(texts) \in Nat
    BY TextsAre DEF Missing
  <2>2. IsFiniteSet(1..Len(texts))
    BY <2>1, FS_Interval
  <2> QED BY <2>1, <2>2, FS_Subset, FS_CardinalityType
<1>5. todo \in Seq(Nat) /\ n \in Nat /\ todo \in [1..n -> Missing(texts)]
      /\ \A x \in Missing(texts) : \E j \in 1..n : todo[j] = x
  <2> DEFINE m == Cardinality(Missing(texts))
  <2>1. todo \in [1..m -> Missing(texts)] /\ \A x \in Missing(texts) : \E j \in DOMAIN todo : todo[j] = x
    BY <1>1 DEF Arranged
  <2>2. todo \in [1..m -> Nat] /\ m \in Nat
    BY <1>4, <2>1
  <2> HIDE DEF m
  <2>3. todo \in Seq(Nat) /\ Len(todo) = m
    BY <2>2, ListIs
  <2> QED BY <2>1, <2>2, <2>3
<1>6. Cardinality(1..n) = n
  <2> HIDE DEF n
  <2> QED BY <1>5, FS_Interval
<1>7. sorted \in Seq(Nat) /\ sorted \in [1..n -> 1..n]
      /\ \A j \in 1..n : \E r \in 1..n : sorted[r] = j
  <2>1. DOMAIN todo = 1..n
    BY <1>5
  <2>2. sorted \in [1..n -> 1..n] /\ \A j \in 1..n : \E r \in DOMAIN sorted : sorted[r] = j
    BY <1>2, <1>6, <2>1 DEF Arranged
  <2>3. sorted \in [1..n -> Nat] /\ DOMAIN sorted = 1..n
    BY <2>2
  <2>4. sorted \in Seq(Nat)
    <3> HIDE DEF n
    <3> QED BY <1>5, <2>3, ListIs
  <2> QED BY <2>2, <2>3, <2>4
<1>8. Restrict(map, kept) \in Trues /\ DOMAIN Restrict(map, kept) = kept
  BY RestrictTrue DEF ClmInv
<1>9. \A k \in DOMAIN texts : texts[k] \in kept \/ \E j \in 1..n : texts[todo[j]] = texts[k]
  <2> TAKE k \in DOMAIN texts
  <2>1. CASE texts[k] \in DOMAIN map
    BY <2>1
  <2>2. CASE texts[k] \notin DOMAIN map
    <3>1. PICK x \in Missing(texts) : texts[x] = texts[k]
      BY <2>2, MissingCover
    <3> QED BY <3>1, <1>5
  <2> QED BY <2>1, <2>2
<1>10. \A j \in 1..n : todo[j] \in DOMAIN texts /\ Tokens[texts[todo[j]]] <= MaxText
  <2>1. \A x \in Missing(texts) : x \in DOMAIN texts /\ Tokens[texts[x]] \in Nat
    BY TextsAre, ClmAssumption DEF Missing
  <2>2. \A x \in Missing(texts) : Tokens[texts[x]] <= MaxText
    BY <1>3, <2>1, ClmAssumption DEF TooLongText
  <2> QED BY <1>5, <2>1, <2>2
<1> DEFINE z == [k \in DOMAIN todo |-> Empty]
<1>11. z \in Seq(Key \cup {Empty}) /\ z \in [1..n -> Key \cup {Empty}] /\ \A j \in 1..n : z[j] = Empty
  BY <1>5
<1> HIDE DEF kept, z
<1>12. CallIn'
  BY <1>2, <1>5, <1>7, <1>8, <1>11 DEF CallIn, z
<1>13. CallTrue'
  <2>1. call'.at = "runs" /\ call'.texts = texts /\ call'.todo = todo /\ call'.sorted = sorted
        /\ call'.z = z /\ call'.next = 1 /\ call'.out = Restrict(map, kept)
    BY <1>2 DEF z
  <2>2. \A j \in 1..n : TextOf(j)' = texts[todo[j]]
    BY <2>1 DEF TextOf
  <2>3. Rows' = 1..n /\ Len(call'.todo) = n
    BY <2>1 DEF Rows
  <2>4. Picked'
    BY <2>1, <2>2, <2>3, <1>10 DEF Picked
  <2>5. Sorted'
    BY <2>1, <2>3, <1>7 DEF Sorted
  <2>6. Projected'
    <3> HIDE DEF n
    <3> QED BY <2>1, <2>2, <2>3, <1>5, <1>11 DEF Projected
  <2>7. Covered'
    BY <2>1, <2>2, <2>3, <1>8, <1>9 DEF Covered, Comes
  <2> QED BY <2>4, <2>5, <2>6, <2>7 DEF CallTrue
<1>14. CacheBounded'
  BY <1>3 DEF ClmInv, CacheBounded
<1> QED BY <1>2, <1>3, <1>12, <1>13, <1>14 DEF ClmInv, CallInv

LEMMA InCall ==
  ASSUME ClmInv, call.at \in {"runs", "puts", "answers"}
  PROVE  CallIn /\ CallTrue /\ call # NoCall
  BY DEF ClmInv, CallInv, NoCall

\* The next batch has a row at least, and ends within the rows.
LEMMA BatchEndIs ==
  ASSUME CallIn, CallTrue, call.next <= Len(call.todo)
  PROVE  BatchEnd \in call.next..Len(call.todo) /\ ~Overflows(BatchEnd)
<1> DEFINE n == Len(call.todo)
           S == {last \in call.next..n : \A r \in call.next..last : ~Overflows(r)}
<1>1. n \in Nat /\ call.next \in 1..n
  BY CallIs DEF CallTrue, Projected
<1>2. S \in SUBSET (0..n)
  BY <1>1
<1>3. call.next \in S
  <2>1. \A r \in call.next..call.next : r = call.next
    BY <1>1
  <2>2. ~Overflows(call.next)
    BY <1>1 DEF Overflows
  <2> QED BY <1>1, <2>1, <2>2
<1>4. Max(S) \in S
  <2> HIDE DEF S, n
  <2> QED BY <1>1, <1>2, <1>3, MaxIs
<1>5. BatchEnd = Max(S)
  BY DEF BatchEnd
<1>6. BatchEnd \in call.next..n /\ \A r \in call.next..BatchEnd : ~Overflows(r)
  BY <1>4, <1>5
<1> QED BY <1>1, <1>6

LEMMA EndsCall ==
  ASSUME ClmInv, call' = NoCall, UNCHANGED <<map, order>>, panicked' \in BOOLEAN
  PROVE  ClmInv'
  BY DEF ClmInv, CallInv, CacheBounded

LEMMA RunWorksKeeps == ASSUME ClmInv, RunWorks PROVE ClmInv'
<1>1. CallIn /\ CallTrue /\ call.at = "runs" /\ call.next <= Len(call.todo)
  BY InCall DEF RunWorks
<1> DEFINE n == Len(call.todo)
           rowsOf(k) == {r \in call.next..BatchEnd : call.sorted[r] = k}
           z == [k \in DOMAIN call.z |-> IF rowsOf(k) = {} THEN call.z[k]
                    ELSE TextOf(call.sorted[CHOOSE r \in rowsOf(k) : TRUE])]
<1>2. call' = [call EXCEPT !.next = BatchEnd + 1, !.z = z] /\ UNCHANGED <<map, order, panicked>>
  BY DEF RunWorks, TextOf
<1>3. n \in Nat /\ BatchEnd \in call.next..n /\ call.next \in 1..n
  BY <1>1, BatchEndIs, CallIs DEF CallTrue, Projected
<1>4. DOMAIN call.z = 1..n /\ call.sorted \in [1..n -> 1..n] /\ call.texts \in Asked
      /\ call.z \in [1..n -> Key \cup {Empty}]
  BY <1>1, CallIs DEF CallTrue, Projected, Sorted, Rows
<1>5. \A k \in 1..n : rowsOf(k) = {} \/ (CHOOSE r \in rowsOf(k) : TRUE) \in rowsOf(k)
  OBVIOUS
<1>6. \A k \in 1..n : z[k] = IF rowsOf(k) = {} THEN call.z[k] ELSE TextOf(k)
  <2> TAKE k \in 1..n
  <2>1. CASE rowsOf(k) = {}
    BY <2>1, <1>4
  <2>2. CASE rowsOf(k) # {}
    <3> DEFINE x == CHOOSE r \in rowsOf(k) : TRUE
    <3>1. x \in rowsOf(k)
      BY <2>2
    <3>2. call.sorted[x] = k
      BY <3>1
    <3>3. z[k] = TextOf(call.sorted[x])
      BY <2>2, <1>4
    <3> QED BY <2>2, <3>2, <3>3
  <2> QED BY <2>1, <2>2
<1>7. \A k \in 1..n : TextOf(k) \in Key
  BY <1>1, <1>4, TextsAre DEF CallTrue, Picked, Rows, TextOf
<1>8. z \in [1..n -> Key \cup {Empty}] /\ z \in Seq(Key \cup {Empty})
  <2>1. z \in [1..n -> Key \cup {Empty}]
    <3>1. \A k \in 1..n : z[k] \in Key \cup {Empty}
      BY <1>4, <1>6, <1>7
    <3>2. z = [k \in 1..n |-> z[k]]
      BY <1>4
    <3> HIDE DEF z
    <3> QED BY <3>1, <3>2
  <2> HIDE DEF z
  <2> QED BY <1>3, <2>1
<1>9. \A k \in 1..n : z[k] \in {Empty, TextOf(k)}
  BY <1>1, <1>6 DEF CallTrue, Projected, Rows
<1> HIDE DEF z
<1>10. ASSUME NEW r \in 1..n, r < BatchEnd + 1 PROVE z[call.sorted[r]] # Empty
  <2>1. call.sorted[r] \in 1..n
    BY <1>4
  <2>2. TextOf(call.sorted[r]) # Empty
    BY <1>7, <2>1, ClmAssumption
  <2>3. CASE r < call.next
    <3>1. call.z[call.sorted[r]] # Empty
      BY <1>1, <2>3 DEF CallTrue, Projected, Rows
    <3> QED BY <3>1, <2>1, <2>2, <1>6
  <2>4. CASE r \in call.next..BatchEnd
    <3>1. r \in rowsOf(call.sorted[r])
      BY <2>4
    <3>2. rowsOf(call.sorted[r]) # {}
      BY <3>1
    <3> QED BY <3>2, <2>1, <2>2, <1>6
  <2> QED BY <1>3, <1>10, <2>3, <2>4
<1>11. call'.at = "runs" /\ call'.texts = call.texts /\ call'.todo = call.todo
       /\ call'.sorted = call.sorted /\ call'.z = z /\ call'.next = BatchEnd + 1
       /\ call'.out = call.out
  BY <1>1, <1>2 DEF CallIn
<1>12. CallIn'
  <2>1. BatchEnd + 1 \in Nat
    BY <1>3
  <2> QED BY <1>1, <1>2, <2>1, <1>8 DEF CallIn
<1>13. CallTrue'
  <2>1. Rows' = Rows /\ Picked' /\ Sorted' /\ \A j : TextOf(j)' = TextOf(j)
    BY <1>1, <1>11, CallStays
  <2>2. Projected'
    <3>1. BatchEnd + 1 \in 1..(n + 1)
      BY <1>3
    <3>2. Rows' = 1..n /\ Len(call'.todo) = n
      BY <2>1, <1>11 DEF Rows
    <3> HIDE DEF n
    <3> QED BY <1>8, <1>9, <1>10, <1>11, <2>1, <3>1, <3>2 DEF Projected
  <2>3. Covered'
    BY <1>1, <1>11, <2>1 DEF CallTrue, Covered, Comes
  <2> QED BY <2>1, <2>2, <2>3 DEF CallTrue
<1> QED BY <1>2, <1>11, <1>12, <1>13 DEF ClmInv, CallInv, CacheBounded

LEMMA RunsDoneKeeps == ASSUME ClmInv, RunsDone PROVE ClmInv'
<1>1. CallIn /\ CallTrue /\ call.at = "runs" /\ call.next > Len(call.todo)
  BY InCall DEF RunsDone
<1> DEFINE n == Len(call.todo)
<1>2. n \in Nat /\ call.next \in Nat /\ call' = [call EXCEPT !.at = "puts", !.next = 1]
      /\ UNCHANGED <<map, order, panicked>>
  BY <1>1, CallIs DEF RunsDone
<1>3. call'.at = "puts" /\ call'.texts = call.texts /\ call'.todo = call.todo
      /\ call'.sorted = call.sorted /\ call'.z = call.z /\ call'.next = 1 /\ call'.out = call.out
      /\ CallIn'
  BY <1>1, <1>2 DEF CallIn
<1>4. \A j \in Rows : call.z[j] = TextOf(j)
  <2> TAKE j \in Rows
  <2>1. PICK r \in Rows : call.sorted[r] = j
    BY <1>1 DEF CallTrue, Sorted
  <2>2. r < call.next
    BY <1>1, <1>2 DEF Rows
  <2>3. call.z[j] # Empty
    BY <1>1, <2>1, <2>2 DEF CallTrue, Projected
  <2> QED BY <1>1, <2>3 DEF CallTrue, Projected
<1>5. Rows' = Rows /\ Picked' /\ Sorted' /\ \A j : TextOf(j)' = TextOf(j)
  BY <1>1, <1>3, CallStays
<1>6. Projected'
  <2>1. 1 \in 1..(Len(call'.todo) + 1)
    BY <1>2, <1>3
  <2> QED BY <1>1, <1>3, <1>4, <1>5, <2>1 DEF CallTrue, Projected
<1>7. Covered'
  <2>1. \A j \in Rows : 1 <= j
    BY DEF Rows
  <2> QED BY <1>1, <1>3, <1>5, <2>1 DEF CallTrue, Covered, Comes
<1> QED BY <1>2, <1>3, <1>5, <1>6, <1>7 DEF ClmInv, CallInv, CallTrue, CacheBounded

\* A projection put under its text leaves a cache of its own bound.
LEMMA SetTrue ==
  ASSUME NEW f \in Trues, NEW k \in Key
  PROVE  [x \in DOMAIN f \cup {k} |-> IF x = k THEN k ELSE f[x]] \in Trues
<1>1. DOMAIN f \in SUBSET Key /\ \A x \in DOMAIN f : f[x] = x
  BY TruesAre
<1>2. [x \in DOMAIN f \cup {k} |-> IF x = k THEN k ELSE f[x]] = [x \in DOMAIN f \cup {k} |-> x]
  BY <1>1
<1>3. DOMAIN f \cup {k} \in SUBSET Key
  BY <1>1
<1> QED BY <1>2, <1>3 DEF Trues

LEMMA PutKeeps == ASSUME ClmInv, Put PROVE ClmInv'
<1>1. CallIn /\ CallTrue /\ call.at = "puts" /\ call.next <= Len(call.todo)
  BY InCall DEF Put
<1> DEFINE n == Len(call.todo)
           key == TextOf(call.next)
           set(f) == [x \in DOMAIN f \cup {key} |-> IF x = key THEN key ELSE f[x]]
           queue == Append(order, key)
<1>2. n \in Nat /\ call.next \in 1..n /\ call.z[call.next] = key /\ call.texts \in Asked
  <2>1. n \in Nat /\ call.next \in Nat /\ call.texts \in Asked
    BY <1>1, CallIs
  <2>2. call.next \in Rows
    BY <1>1, <2>1 DEF CallTrue, Projected, Rows
  <2> QED BY <1>1, <2>1, <2>2 DEF CallTrue, Projected, Rows
<1>3. key \in Key
  BY <1>1, <1>2, TextsAre DEF CallTrue, Picked, Rows, TextOf
<1>4. /\ \/ key \in DOMAIN map /\ map' = set(map) /\ UNCHANGED order
         \/ /\ key \notin DOMAIN map /\ Len(queue) > CacheEntries
            /\ map' = Restrict(set(map), (DOMAIN map \cup {key}) \ {Head(queue)})
            /\ order' = Tail(queue)
         \/ /\ key \notin DOMAIN map /\ Len(queue) <= CacheEntries
            /\ map' = set(map) /\ order' = queue
      /\ call' = [call EXCEPT !.next = @ + 1, !.out = set(@)]
      /\ UNCHANGED panicked
  <2>1. Len(queue) \in Nat /\ CacheEntries \in Nat
    BY <1>3, ClmAssumption DEF ClmInv
  <2>2. Len(queue) > CacheEntries \/ Len(queue) <= CacheEntries
    BY <2>1
  <2>3. key = call.texts[call.todo[call.next]]
    BY DEF TextOf
  <2> QED BY <1>2, <2>2, <2>3, Zenon DEF Put
<1>5. set(map) \in Trues /\ set(call.out) \in Trues
  <2>1. map \in Trues /\ call.out \in Trues
    BY <1>1 DEF ClmInv, CallIn
  <2> QED BY <1>3, <2>1, SetTrue
<1>6. map' \in Trues
  <2>1. (DOMAIN map \cup {key}) \ {Head(queue)} \subseteq DOMAIN set(map)
    OBVIOUS
  <2> HIDE DEF set, queue
  <2>2. Restrict(set(map), (DOMAIN map \cup {key}) \ {Head(queue)}) \in Trues
    BY <1>5, <2>1, RestrictTrue
  <2> QED BY <1>4, <1>5, <2>2
<1>7. order' \in Seq(Key) /\ CacheBounded'
  <2>1. order \in Seq(Key) /\ CacheBounded /\ CacheEntries \in Nat
    BY ClmAssumption DEF ClmInv
  <2>2. CASE key \in DOMAIN map
    <3>1. DOMAIN map' = DOMAIN map /\ order' = order
      BY <1>4, <2>2
    <3> QED BY <2>1, <3>1 DEF CacheBounded
  <2>3. ASSUME key \notin DOMAIN map
        PROVE  /\ queue \in Seq(Key) /\ Len(queue) = Len(order) + 1
               /\ \A j \in 1..Len(order) : queue[j] = order[j]
               /\ queue[Len(order) + 1] = key
               /\ \A j, k \in 1..Len(queue) : queue[j] = queue[k] => j = k
               /\ DOMAIN map \cup {key} = {queue[k] : k \in 1..Len(queue)}
    <3>1. queue \in Seq(Key) /\ Len(queue) = Len(order) + 1
          /\ (\A j \in 1..Len(order) : queue[j] = order[j]) /\ queue[Len(order) + 1] = key
      BY <1>3, <2>1
    <3>2. \A j \in 1..Len(order) : order[j] \in DOMAIN map
      BY <2>1 DEF CacheBounded
    <3>3. \A j, k \in 1..Len(order) : order[j] = order[k] => j = k
      BY <2>1 DEF CacheBounded
    <3>4. \A j, k \in 1..Len(queue) : queue[j] = queue[k] => j = k
      BY <2>1, <2>3, <3>1, <3>2, <3>3
    <3>5. DOMAIN map = {order[k] : k \in 1..Len(order)}
      BY <2>1 DEF CacheBounded
    <3>6. DOMAIN map \cup {key} = {queue[k] : k \in 1..Len(queue)}
      BY <2>1, <3>1, <3>5
    <3> QED BY <3>1, <3>4, <3>6
  <2>4. CASE key \notin DOMAIN map /\ Len(queue) <= CacheEntries
    <3>1. DOMAIN map' = DOMAIN map \cup {key} /\ order' = queue
      BY <1>4, <2>4, <2>1
    <3>2. DOMAIN queue = 1..Len(queue)
      BY <2>3, <2>4
    <3> HIDE DEF queue
    <3> QED BY <2>3, <2>4, <3>1, <3>2 DEF CacheBounded
  <2>5. CASE key \notin DOMAIN map /\ Len(queue) > CacheEntries
    <3>1. DOMAIN map' = (DOMAIN map \cup {key}) \ {Head(queue)} /\ order' = Tail(queue)
      <4>1. map' = Restrict(set(map), (DOMAIN map \cup {key}) \ {Head(queue)})
            /\ order' = Tail(queue)
        <5>1. ~(Len(queue) <= CacheEntries)
          BY <2>1, <2>3, <2>5
        <5> HIDE DEF queue, set, key
        <5> QED BY <1>4, <2>5, <5>1
      <4> QED BY <4>1 DEF Restrict
    <3> HIDE DEF queue, key
    <3>2. queue \in Seq(Key) /\ Len(queue) = Len(order) + 1 /\ Len(order) \in Nat
      BY <2>1, <2>3, <2>5
    <3>3. Tail(queue) \in Seq(Key) /\ Len(Tail(queue)) = Len(order)
          /\ (\A k \in 1..Len(order) : Tail(queue)[k] = queue[k + 1]) /\ Head(queue) = queue[1]
      BY <3>2
    <3>4. \A j, k \in 1..Len(order) : Tail(queue)[j] = Tail(queue)[k] => j = k
      BY <2>3, <2>5, <3>2, <3>3
    <3>5. (DOMAIN map \cup {key}) \ {Head(queue)} = {Tail(queue)[k] : k \in 1..Len(order)}
      <4>1. \A k \in 1..Len(order) : Tail(queue)[k] \in DOMAIN map \cup {key}
                                     /\ Tail(queue)[k] # Head(queue)
        BY <2>3, <2>5, <3>2, <3>3
      <4>2. ASSUME NEW x \in DOMAIN map \cup {key}, x # Head(queue)
            PROVE  \E k \in 1..Len(order) : Tail(queue)[k] = x
        <5>1. PICK j \in 1..Len(queue) : queue[j] = x
          BY <2>3, <2>5
        <5>2. j - 1 \in 1..Len(order) /\ Tail(queue)[j - 1] = x
          BY <3>2, <3>3, <4>2, <5>1
        <5> QED BY <5>2
      <4> QED BY <4>1, <4>2
    <3>6. Len(Tail(queue)) <= CacheEntries
      BY <2>1, <3>2, <3>3 DEF CacheBounded
    <3>7. DOMAIN Tail(queue) = 1..Len(order)
      BY <3>2, <3>3
    <3>8. DOMAIN map' = {Tail(queue)[k] : k \in DOMAIN Tail(queue)}
      BY <3>1, <3>5, <3>7
    <3>9. \A j, k \in DOMAIN Tail(queue) : Tail(queue)[j] = Tail(queue)[k] => j = k
      BY <3>4, <3>7
    <3>10. CacheBounded'
      BY <3>1, <3>6, <3>8, <3>9 DEF CacheBounded
    <3> QED BY <3>1, <3>3, <3>10
  <2>6. order' \in Seq(Key)
    <3>1. order' = order \/ order' = queue \/ order' = Tail(queue)
      BY <1>4
    <3>2. queue \in Seq(Key) /\ Len(queue) = Len(order) + 1 /\ Len(order) \in Nat
      <4> HIDE DEF key
      <4> QED BY <1>3, <2>1
    <3> HIDE DEF queue
    <3>3. Tail(queue) \in Seq(Key)
      BY <3>2
    <3> QED BY <2>1, <3>1, <3>2, <3>3
  <2>7. Len(queue) > CacheEntries \/ Len(queue) <= CacheEntries
    BY <1>3, <2>1
  <2> QED BY <2>2, <2>4, <2>5, <2>6, <2>7
<1>8. call'.at = "puts" /\ call'.texts = call.texts /\ call'.todo = call.todo
      /\ call'.sorted = call.sorted /\ call'.z = call.z /\ call'.next = call.next + 1
      /\ call'.out = set(call.out) /\ CallIn'
  <2>1. call.next + 1 \in Nat /\ call' = [call EXCEPT !.next = call.next + 1, !.out = set(call.out)]
    BY <1>2, <1>4
  <2> HIDE DEF set
  <2> QED BY <1>1, <2>1, <1>5 DEF CallIn
<1>9. DOMAIN set(call.out) = DOMAIN call.out \cup {key}
  OBVIOUS
<1>10. Rows' = Rows /\ Picked' /\ Sorted' /\ \A j : TextOf(j)' = TextOf(j)
  BY <1>1, <1>8, CallStays
<1>11. Projected'
  <2>1. call.next + 1 \in 1..(Len(call'.todo) + 1)
    BY <1>2, <1>8
  <2> QED BY <1>1, <1>8, <1>10, <2>1 DEF CallTrue, Projected
<1>12. Covered'
  <2>1. ASSUME NEW k \in DOMAIN call.texts
        PROVE  \/ call.texts[k] \in DOMAIN call.out \cup {key}
               \/ \E j \in Rows : call.texts[k] = TextOf(j) /\ call.next + 1 <= j
    <3>1. \/ call.texts[k] \in DOMAIN call.out
          \/ \E j \in Rows : call.texts[k] = TextOf(j) /\ call.next <= j
      BY <1>1 DEF CallTrue, Covered, Comes
    <3>2. ASSUME NEW j \in Rows, call.texts[k] = TextOf(j), call.next <= j
          PROVE  call.texts[k] = key \/ call.next + 1 <= j
      <4>1. j \in Nat /\ (call.next = j \/ call.next + 1 <= j)
        BY <1>2, <3>2 DEF Rows
      <4> QED BY <4>1, <3>2
    <3> QED BY <3>1, <3>2
  <2> HIDE DEF set, key
  <2> QED BY <1>8, <1>9, <1>10, <2>1 DEF Covered, Comes
<1> QED BY <1>4, <1>6, <1>7, <1>8, <1>10, <1>11, <1>12 DEF ClmInv, CallInv, CallTrue

LEMMA AnswerKeeps == ASSUME ClmInv, Answer PROVE ClmInv'
<1>1. CallIn /\ CallTrue /\ call.at = "puts" /\ call.next > Len(call.todo)
  BY InCall DEF Answer
<1> DEFINE n == Len(call.todo)
<1>2. n \in Nat /\ call.next \in Nat /\ call' = [call EXCEPT !.at = "answers", !.out = call.out]
      /\ UNCHANGED <<map, order, panicked>>
  BY <1>1, CallIs DEF Answer, Given
<1>3. call'.at = "answers" /\ call'.texts = call.texts /\ call'.todo = call.todo
      /\ call'.sorted = call.sorted /\ call'.z = call.z /\ call'.next = call.next
      /\ call'.out = call.out /\ CallIn'
  BY <1>1, <1>2 DEF CallIn
<1>4. Rows' = Rows /\ Picked' /\ Sorted' /\ \A j : TextOf(j)' = TextOf(j)
  BY <1>1, <1>3, CallStays
<1>5. \A k \in DOMAIN call.texts : call.texts[k] \in DOMAIN call.out
  <2>1. \A j \in Rows : ~(call.next <= j)
    BY <1>1, <1>2 DEF Rows
  <2> QED BY <1>1, <2>1 DEF CallTrue, Covered, Comes
<1>6. Projected' /\ Covered'
  BY <1>1, <1>3, <1>4, <1>5 DEF CallTrue, Projected, Covered
<1> QED BY <1>2, <1>3, <1>4, <1>6 DEF ClmInv, CallInv, CallTrue, CacheBounded

LEMMA ClmStutters == ASSUME ClmInv, UNCHANGED clmVars PROVE ClmInv'
<1>1. call' = call /\ map' = map /\ order' = order /\ panicked' = panicked
  BY DEF clmVars
<1>2. CallInv'
  BY <1>1 DEF ClmInv, CallInv, CallIn, CallTrue, TextOf, Rows, Picked, Sorted, Projected,
              Covered, Comes
<1> QED BY <1>1, <1>2 DEF ClmInv, CacheBounded

LEMMA ClmSteps == ClmInv /\ [ClmNext]_clmVars => ClmInv'
<1> SUFFICES ASSUME ClmInv, [ClmNext]_clmVars PROVE ClmInv'
  OBVIOUS
<1>1. ASSUME NEW texts \in Asked, Project(texts) \/ Turned(texts) PROVE ClmInv'
  BY <1>1, ProjectKeeps, ClmStutters DEF Turned
<1>2. CASE RunFails \/ RunPanics \/ Answered
  BY <1>2, EndsCall DEF ClmInv, RunFails, RunPanics, Answered
<1> QED
  BY <1>1, <1>2, RunWorksKeeps, RunsDoneKeeps, PutKeeps, AnswerKeeps, ClmStutters DEF ClmNext

LEMMA RunsFit == ASSUME ClmInv PROVE RunFits
<1> SUFFICES ASSUME call.at = "runs", call.next <= Len(call.todo)
             PROVE  LET rows == BatchEnd - call.next + 1 IN
                    rows = 1 \/ (rows <= MaxRows /\ rows * Max({2, Longest(BatchEnd)}) <= TokenBudget)
  BY DEF RunFits
<1>1. CallIn /\ CallTrue
  BY InCall
<1> DEFINE n == Len(call.todo)  rows == BatchEnd - call.next + 1
           S == {RowLength(r) : r \in call.next..BatchEnd}
<1>2. n \in Nat /\ call.next \in 1..n /\ BatchEnd \in call.next..n /\ ~Overflows(BatchEnd)
  BY <1>1, BatchEndIs, CallIs DEF CallTrue, Projected
<1>3. Longest(BatchEnd) \in 0..MaxText
  <2>1. \A r \in call.next..BatchEnd : RowLength(r) \in 0..MaxText
    <3> TAKE r \in call.next..BatchEnd
    <3>1. r \in 1..n
      BY <1>2
    <3>2. call.sorted[r] \in 1..n
      BY <1>1, <3>1 DEF CallTrue, Sorted, Rows
    <3>3. TextOf(call.sorted[r]) \in Key /\ Tokens[TextOf(call.sorted[r])] <= MaxText
      BY <1>1, <3>2, TextsAre, CallIs DEF CallTrue, Picked, Rows, TextOf
    <3>4. RowLength(r) = Tokens[TextOf(call.sorted[r])]
      BY DEF RowLength, Length, TextOf
    <3> QED BY <3>3, <3>4, ClmAssumption
  <2>2. S \in SUBSET (0..MaxText) /\ S # {} /\ MaxText \in Nat
    BY <1>2, <2>1, ClmAssumption
  <2>3. Max(S) \in S
    <3> HIDE DEF S
    <3> QED BY <2>2, MaxIs
  <2> QED BY <2>2, <2>3 DEF Longest
<1>4. rows \in Nat /\ (rows > 1 => rows * Longest(BatchEnd) <= TokenBudget /\ rows <= MaxRows)
  <2>2. rows \in Nat /\ Longest(BatchEnd) \in Nat
    BY <1>2, <1>3, ClmAssumption
  <2>3. rows * Longest(BatchEnd) \in Nat
    <3> HIDE DEF rows
    <3> QED BY <2>2
  <2> QED BY <1>2, <2>2, <2>3, ClmAssumption DEF Overflows
<1>5. Max({2, Longest(BatchEnd)}) \in {2, Longest(BatchEnd)}
  <2> DEFINE L == Longest(BatchEnd)  T == {2, L}
  <2>1. 2 + L \in Nat /\ T \in SUBSET (0..(2 + L)) /\ T # {}
    BY <1>3, ClmAssumption
  <2>2. Max(T) \in T
    <3> HIDE DEF T
    <3> QED BY <2>1, MaxIs
  <2> QED BY <2>2
<1>6. rows > 1 => rows * 2 <= TokenBudget
  BY <1>4, ClmAssumption
<1> HIDE DEF rows
<1>7. rows >= 1
  BY <1>2 DEF rows
<1>8. rows = 1 \/ (rows <= MaxRows /\ rows * Max({2, Longest(BatchEnd)}) <= TokenBudget)
  BY <1>4, <1>5, <1>6, <1>7
<1> QED BY <1>8 DEF rows

\* ClmInv holds in every reachable state, for any texts, requests and bounds.
THEOREM ClmInvariance == Spec => []ClmInv
<1>1. Init => ClmInv
  BY ClmStarts DEF Init
<1>2. ClmInv /\ [Next]_vars => ClmInv'
  BY ClmSteps DEF Next, vars, clmVars
<1> QED BY <1>1, <1>2, PTL DEF Spec

\* An answer is computed from the projections of its own texts, whatever the cache holds,
\* lets go of, or was kept from by a run that failed.
THEOREM ProjectionsTrue == Spec => []ProjectionTrue
<1>1. ASSUME ClmInv PROVE ProjectionTrue
  <2>1. ASSUME call.at = "answers", NEW k \in DOMAIN call.texts
        PROVE  call.texts[k] \in DOMAIN call.out /\ call.out[call.texts[k]] = call.texts[k]
    <3>1. CallIn /\ CallTrue
      BY <1>1, <2>1, InCall
    <3>2. call.texts[k] \in DOMAIN call.out
      BY <2>1, <3>1 DEF CallTrue, Covered, Comes
    <3>3. call.out \in Trues
      BY <3>1 DEF CallIn
    <3> QED BY <3>2, <3>3, TruesAre
  <2> QED BY <2>1 DEF ProjectionTrue
<1> QED BY <1>1, ClmInvariance, PTL

\* The cache keeps no more than CACHE_ENTRIES projections, each listed once.
THEOREM CacheStaysBounded == Spec => []CacheBounded
<1>1. ClmInv => CacheBounded
  BY DEF ClmInv
<1> QED BY <1>1, ClmInvariance, PTL

\* A run of more than one row is within its budget of padded tokens and of rows.
THEOREM RunsStayInBudget == Spec => []RunFits
<1>1. ClmInv => RunFits
  BY RunsFit
<1> QED BY <1>1, ClmInvariance, PTL
=============================================================================
