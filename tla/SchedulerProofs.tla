-------------------------- MODULE SchedulerProofs --------------------------
(***************************************************************************)
(* Proofs about the scheduler, for every number of requests, models and    *)
(* runners and every limit: its invariants, and that it implements         *)
(* Runners.                                                                *)
(***************************************************************************)
EXTENDS SchedulerRefines, FiniteSetTheorems, TLAPS

-----------------------------------------------------------------------------
(* Type correctness *)

LEMMA FreshType == Fresh \in RunnerState /\ NoRequest \in RequestState
BY DEF Fresh, RunnerState, NoRequest, RequestState, KeepAlive

\* Dropping unreferenced runner objects keeps the type of the runner table.
LEMMA DropType ==
    ASSUME NEW f \in [Runner -> RunnerState]
    PROVE  DropUnheld(f) \in [Runner -> RunnerState]
BY FreshType DEF DropUnheld

-----------------------------------------------------------------------------
(* Counting leases *)

LEMMA LesseesFinite == \A r \in Runner : IsFiniteSet(Lessees(r))
BY SchedulerAssumption, FS_Subset DEF Lessees

\* An idle runner is used by no request.
LEMMA IdleUnused ==
    ASSUME TypeOK, LeaseCountExact, NEW r \in Runner, Idle(r)
    PROVE  Lessees(r) = {}
BY LesseesFinite, FS_EmptySet DEF LeaseCountExact, Idle

\* One more lessee is one more in the count, one less is one less.
LEMMA OneMore ==
    ASSUME NEW S, IsFiniteSet(S), NEW q, q \notin S
    PROVE  Cardinality(S \cup {q}) = Cardinality(S) + 1
BY FS_AddElement

LEMMA OneLess ==
    ASSUME NEW S, IsFiniteSet(S), NEW q \in S
    PROVE  /\ Cardinality(S) - 1 \in Nat
           /\ Cardinality(S \ {q}) = Cardinality(S) - 1
<1>1. /\ IsFiniteSet(S \ {q})
      /\ Cardinality(S \ {q}) = Cardinality(S) - 1
  BY FS_RemoveElement
<1> QED BY <1>1, FS_CardinalityType

\* A step that changes no lessee and no counter, except that it drops runner
\* objects nobody refers to, keeps the count exact.
LEMMA CountKept ==
    ASSUME LeaseCountExact,
           \A r \in Runner : Lessees(r)' = Lessees(r),
           \A r \in Runner :
              \/ runner'[r].leases = runner[r].leases
              \/ runner'[r] = Fresh /\ Lessees(r)' = {}
    PROVE  LeaseCountExact'
BY FS_EmptySet DEF LeaseCountExact, Fresh

-----------------------------------------------------------------------------
(* One lemma per action: it preserves the inductive invariant. *)

LEMMA InitInv == Init => IInv
<1> SUFFICES ASSUME Init PROVE IInv
  OBVIOUS
<1> USE SchedulerAssumption, FreshType
<1>1. TypeOK
  <2>1. pc \in [Thread -> RequestPC \cup ReaperPC] /\ pc[Reaper] \in ReaperPC
    BY DEF Init, RequestPC, ReaperPC, Thread
  <2>2. \A q \in Request : pc[q] \in RequestPC
    BY DEF Init, RequestPC, Thread
  <2>3. runner \in [Runner -> RunnerState] /\ req \in [Request -> RequestState]
    BY DEF Init
  <2> QED BY <2>1, <2>2, <2>3 DEF Init, TypeOK
<1>2. \A q \in Request : pc[q] = "idle"
  BY DEF Init, Thread
<1>3. LockInv
  BY <1>2 DEF Init, LockInv, Loading, Spawning, Thread
<1>4. MemoryInv
  BY <1>2 DEF Init, MemoryInv, Spawning, Leasing
<1>5. OneOwner
  BY <1>2 DEF Init, OneOwner, Spawning
<1>6. ProcessInv
  BY <1>2 DEF Init, ProcessInv, Fresh, Spawning
<1>7. ClockInv
  BY DEF Init, ClockInv
<1>8. LeaseCountExact
  <2> SUFFICES ASSUME NEW r \in Runner PROVE runner[r].leases = Cardinality(Lessees(r))
    BY DEF LeaseCountExact
  <2>1. Lessees(r) = {}
    BY <1>2 DEF Lessees, Leasing
  <2> QED BY <2>1, FS_EmptySet DEF Init, Fresh
<1>9. LeasedNotKilled
  BY <1>2 DEF LeasedNotKilled, Leasing
<1> QED BY <1>1, <1>3, <1>4, <1>5, <1>6, <1>7, <1>8, <1>9 DEF IInv

\* Leasing the runner in the map, which three actions do.
LEMMA LeaseToInv ==
    ASSUME IInv, NEW q \in Request, NEW m \in Model,
           NEW a \in KeepAlive \cup {"default"}, NEW pin \in BOOLEAN,
           pc[q] \in {"idle", "wait"}, LeaseTo(q, m, a, pin),
           UNCHANGED <<runners, older, load_lock, tgt, hold, reapVars, down>>
    PROVE  IInv'
<1> DEFINE r == runners[m]
<1> USE SchedulerAssumption DEF IInv
<1>1. /\ r \in Runner /\ r # None /\ runner[r] \in RunnerState
      /\ run[q] = None
  BY DEF TypeOK, LeaseTo, MemoryInv, Spawning, Leasing
<1>2. /\ runner' = [runner EXCEPT ![r].leases = @ + 1, ![r].expires = "none"]
      /\ run' = [run EXCEPT ![q] = r]
      /\ pc' = [pc EXCEPT ![q] = "leased"]
      /\ req' = [req EXCEPT ![q] = Leased(m, LeaseKeep(a, runner[r].pinned), pin)]
  BY DEF LeaseTo
<1>3. TypeOK'
  <2>1. runner' \in [Runner -> RunnerState]
    BY <1>1, <1>2 DEF TypeOK, RunnerState
  <2>2. req' \in [Request -> RequestState]
    <3>1. Leased(m, LeaseKeep(a, runner[r].pinned), pin) \in RequestState
      BY DEF Leased, LeaseKeep, RequestState, KeepAlive
    <3> QED BY <3>1, <1>2 DEF TypeOK
  <2>3. /\ pc' \in [Thread -> RequestPC \cup ReaperPC]
        /\ pc'[Reaper] \in ReaperPC
        /\ \A p \in Request : pc'[p] \in RequestPC
    BY <1>2 DEF TypeOK, RequestPC, Leasing, Thread
  <2>4. run' \in [Request -> Runner \cup {None}]
    BY <1>1, <1>2 DEF TypeOK
  <2> QED BY <2>1, <2>2, <2>3, <2>4 DEF TypeOK, reapVars
<1>4. LockInv'
  BY <1>2 DEF TypeOK, LockInv, Loading, Spawning, Unloading
<1>5. MemoryInv'
  BY <1>1, <1>2 DEF TypeOK, MemoryInv, Leased, Leasing, Thread
<1>6. OneOwner'
  BY <1>1, <1>2 DEF TypeOK, OneOwner, Spawning
<1>7. ProcessInv'
  <2>1. \A s \in Runner : Held(s) => Held(s)'
    BY <1>1, <1>2 DEF Held, TypeOK
  <2>2. \A s \in Runner : runner'[s].proc = runner[s].proc
    BY <1>1, <1>2 DEF TypeOK
  <2>3. \A s \in Runner : ~Held(s)' => runner'[s] = Fresh
    <3>1. Held(r)'
      BY <1>1, <1>2 DEF Held
    <3> QED BY <2>1, <3>1, <1>2 DEF ProcessInv, TypeOK
  <2>4. \A p \in Request : pc'[p] \in Spawning => runner'[run'[p]].proc = "loading"
    BY <1>2, <2>2 DEF ProcessInv, TypeOK, Spawning, MemoryInv
  <2>5. \A p \in Request : pc[p] \in Spawning =>
           pc'[p] \in Spawning /\ run'[p] = run[p]
    BY <1>2 DEF Spawning, TypeOK
  <2>6. \A s \in Runner : runner'[s].proc = "loading" =>
          \E p \in Request : pc'[p] \in Spawning /\ run'[p] = s
    BY <2>2, <2>5 DEF ProcessInv
  <2>7. \A n \in Model : runners'[n] # None =>
          runner'[runners'[n]].proc \in {"up", "exited"}
    BY <2>2 DEF ProcessInv, TypeOK
  <2> QED BY <2>3, <2>4, <2>6, <2>7 DEF ProcessInv
<1>8. ClockInv'
  BY <1>1, <1>2 DEF TypeOK, ClockInv, Thread
<1>9. LeaseCountExact'
  <2>1. \A s \in Runner \ {r} :
           Lessees(s)' = Lessees(s) /\ runner'[s].leases = runner[s].leases
    BY <1>1, <1>2 DEF Lessees, TypeOK
  <2>2. q \notin Lessees(r) /\ Lessees(r)' = Lessees(r) \cup {q}
    BY <1>1, <1>2 DEF Lessees, TypeOK, Leasing, Thread
  <2>3. runner'[r].leases = runner[r].leases + 1
    BY <1>1, <1>2 DEF TypeOK
  <2>4. Cardinality(Lessees(r)') = Cardinality(Lessees(r)) + 1
    BY <1>1, <2>2, LesseesFinite, OneMore
  <2> QED BY <1>1, <2>1, <2>3, <2>4 DEF LeaseCountExact
<1>10. LeasedNotKilled'
  BY <1>1, <1>2 DEF TypeOK, LeasedNotKilled, ProcessInv, MemoryInv
<1> QED BY <1>3, <1>4, <1>5, <1>6, <1>7, <1>8, <1>9, <1>10

LEMMA LeaseLoadedInv == ASSUME IInv, NEW q \in Request, LeaseLoaded(q) PROVE IInv'
BY LeaseToInv, SchedulerAssumption DEF LeaseLoaded

LEMMA QueueInv == ASSUME IInv, NEW q \in Request, Queue(q) PROVE IInv'
<1> USE SchedulerAssumption, FreshType DEF IInv
<1>1. TypeOK'
  BY DEF Queue, Asked, reapVars, TypeOK, RequestState, KeepAlive, RequestPC, Thread
<1>2. LockInv'
  BY DEF Queue, Asked, TypeOK, LockInv, Loading, Unloading, Spawning
<1>3. MemoryInv'
  BY DEF Queue, Asked, TypeOK, MemoryInv, Leasing, Spawning
<1>4. OneOwner'
  BY DEF Queue, Asked, TypeOK, OneOwner, Spawning
<1>5. ProcessInv'
  <2>1. /\ \A r \in Runner : Held(r)' <=> Held(r)
        /\ \A p \in Request : pc'[p] \in Spawning <=> pc[p] \in Spawning
    BY DEF Queue, Held, TypeOK, Spawning
  <2> QED BY <2>1 DEF Queue, ProcessInv
<1>6. ClockInv'
  BY DEF Queue, Asked, TypeOK, ClockInv
<1>7. LeaseCountExact'
  BY DEF Queue, Asked, TypeOK, LeaseCountExact, Lessees, Leasing
<1>8. LeasedNotKilled'
  BY DEF Queue, Asked, TypeOK, LeasedNotKilled, Leasing
<1> QED BY <1>1, <1>2, <1>3, <1>4, <1>5, <1>6, <1>7, <1>8

LEMMA PreloadInv == ASSUME IInv, NEW q \in Request, Preload(q) PROVE IInv'
<1> USE SchedulerAssumption
<1>1. PICK m \in Preloaded :
        \/ LeaseTo(q, m, "forever", TRUE)
        \/ /\ runners[m] = None
           /\ req' = [req EXCEPT ![q] = Asked(m, "forever", TRUE)]
           /\ pc' = [pc EXCEPT ![q] = "wait"]
           /\ UNCHANGED <<runner, run>>
  BY DEF Preload
<1>2. m \in Model /\ pc[q] = "idle" /\ "forever" \in KeepAlive
      /\ UNCHANGED <<runners, older, load_lock, tgt, hold, reapVars, down>>
  BY DEF Preload, KeepAlive
<1>3. CASE LeaseTo(q, m, "forever", TRUE)
  BY <1>2, <1>3, LeaseToInv
<1>4. CASE /\ req' = [req EXCEPT ![q] = Asked(m, "forever", TRUE)]
           /\ pc' = [pc EXCEPT ![q] = "wait"]
           /\ UNCHANGED <<runner, run>>
  <2> USE <1>2, <1>4 DEF IInv
  <2>0. /\ \A p \in Request \ {q} : pc'[p] = pc[p] /\ req'[p] = req[p]
        /\ pc'[q] = "wait" /\ req'[q].model = m /\ pc'[Reaper] = pc[Reaper]
    BY DEF TypeOK, Thread, Asked
  <2>1. TypeOK'
    <3>1. Asked(m, "forever", TRUE) \in RequestState
      BY DEF Asked, RequestState, KeepAlive
    <3>2. req' \in [Request -> RequestState]
      BY <3>1 DEF TypeOK
    <3> QED BY <3>2 DEF TypeOK, RequestPC, Thread, reapVars
  <2>2. LockInv'
    BY <2>0 DEF LockInv, TypeOK, Loading, Spawning, Unloading, Thread
  <2>3. MemoryInv'
    BY <2>0 DEF MemoryInv, TypeOK, Spawning, Leasing, Thread
  <2>4. OneOwner'
    BY <2>0 DEF OneOwner, TypeOK, Spawning
  <2>5. ProcessInv'
    <3>1. /\ \A r \in Runner : Held(r)' <=> Held(r)
          /\ \A p \in Request : pc'[p] \in Spawning <=> pc[p] \in Spawning
      BY <2>0 DEF Held, TypeOK, Spawning
    <3> QED BY <3>1 DEF ProcessInv
  <2>6. ClockInv'
    BY <2>0 DEF ClockInv, TypeOK
  <2>7. LeaseCountExact'
    <3>1. \A r \in Runner : Lessees(r)' = Lessees(r)
      BY <2>0 DEF Lessees, Leasing
    <3> QED BY <3>1, CountKept
  <2>8. LeasedNotKilled'
    BY <2>0 DEF LeasedNotKilled, Leasing
  <2> QED BY <2>1, <2>2, <2>3, <2>4, <2>5, <2>6, <2>7, <2>8
<1> QED BY <1>1, <1>3, <1>4

LEMMA LeaseAfterWaitInv == ASSUME IInv, NEW q \in Request, LeaseAfterWait(q) PROVE IInv'
<1>1. /\ req[q].model \in Model /\ req[q].pin \in BOOLEAN
      /\ req[q].ask \in KeepAlive \cup {"default"}
  BY DEF LeaseAfterWait, IInv, TypeOK, MemoryInv, RequestState
<1> QED BY <1>1, LeaseToInv DEF LeaseAfterWait

LEMMA TakeLoadLockInv == ASSUME IInv, NEW q \in Request, TakeLoadLock(q) PROVE IInv'
<1> USE SchedulerAssumption, FreshType DEF IInv
<1>1. TypeOK'
  BY DEF TakeLoadLock, reapVars, TypeOK, RequestPC, Thread, Loading
<1>2. LockInv'
  BY DEF TakeLoadLock, TypeOK, LockInv, MemoryInv, Thread, Loading
<1>3. MemoryInv'
  BY DEF TakeLoadLock, TypeOK, MemoryInv, Leasing, Spawning
<1>4. OneOwner'
  BY DEF TakeLoadLock, TypeOK, OneOwner, Spawning
<1>5. ProcessInv'
  BY DEF TakeLoadLock, TypeOK, ProcessInv, Held, Spawning
<1>6. ClockInv'
  BY DEF TakeLoadLock, TypeOK, ClockInv
<1>7. LeaseCountExact'
  BY DEF TakeLoadLock, TypeOK, LeaseCountExact, Lessees, Leasing
<1>8. LeasedNotKilled'
  BY DEF TakeLoadLock, TypeOK, LeasedNotKilled, Leasing
<1> QED BY <1>1, <1>2, <1>3, <1>4, <1>5, <1>6, <1>7, <1>8

LEMMA MakeRoomInv == ASSUME IInv, NEW q \in Request, MakeRoom(q) PROVE IInv'
<1> USE SchedulerAssumption, FreshType DEF IInv
<1>1. TypeOK'
  <2>1. tgt' \in [Thread -> Model \cup {None}]
    BY DEF MakeRoom, Victims, Loaded, TypeOK
  <2>2. /\ pc' \in [Thread -> RequestPC \cup ReaperPC]
        /\ pc'[Reaper] \in ReaperPC
        /\ \A p \in Request : pc'[p] \in RequestPC
    BY DEF MakeRoom, TypeOK, RequestPC, Loading, Unloading, Thread
  <2> QED BY <2>1, <2>2 DEF MakeRoom, TypeOK, reapVars
<1>2. LockInv'
  BY DEF MakeRoom, Victims, TypeOK, LockInv, Thread, Loading, Unloading
<1>3. MemoryInv'
  BY DEF MakeRoom, Victims, Loaded, TypeOK, MemoryInv, Thread, Leasing, Spawning
<1>4. OneOwner'
  BY DEF MakeRoom, Victims, TypeOK, OneOwner, Thread, Spawning
<1>5. ProcessInv'
  BY DEF MakeRoom, Victims, Loaded, TypeOK, LockInv, ProcessInv, Held, Thread, Spawning
<1>6. ClockInv'
  BY DEF MakeRoom, Victims, TypeOK, ClockInv, Thread
<1>7. LeaseCountExact'
  BY DEF MakeRoom, Victims, TypeOK, LeaseCountExact, Lessees, Thread, Leasing
<1>8. LeasedNotKilled'
  BY DEF MakeRoom, Victims, TypeOK, LeasedNotKilled, Thread, Leasing
<1> QED BY <1>1, <1>2, <1>3, <1>4, <1>5, <1>6, <1>7, <1>8

LEMMA SpawnInv == ASSUME IInv, NEW q \in Request, Spawn(q) PROVE IInv'
<1> USE SchedulerAssumption DEF IInv
<1>1. PICK r \in Runner :
        /\ ~Held(r)
        /\ runner' = [runner EXCEPT ![r] = [Fresh EXCEPT !.proc = "loading"]]
        /\ run' = [run EXCEPT ![q] = r]
  BY DEF Spawn
<1>2. /\ pc[q] = "spawn" /\ pc' = [pc EXCEPT ![q] = "loading"]
      /\ r # None /\ run[q] = None /\ load_lock = q
      /\ UNCHANGED <<runners, older, load_lock, req, tgt, hold, reapVars, down>>
  BY DEF Spawn, MemoryInv, LockInv, Loading, Spawning, Leasing
<1>3. /\ \A p \in Request \ {q} : pc'[p] = pc[p] /\ run'[p] = run[p]
      /\ pc'[q] = "loading" /\ run'[q] = r /\ pc'[Reaper] = pc[Reaper]
      /\ \A s \in Runner \ {r} : runner'[s] = runner[s]
      /\ runner'[r].proc = "loading" /\ runner'[r].leases = 0
  BY <1>1, <1>2 DEF TypeOK, Thread, Fresh
<1>4. \A p \in Request : run[p] # r
  BY <1>1 DEF Held
<1>5. /\ \A m \in Model : runners[m] # r
      /\ \A t \in Thread : hold[t] # r
  BY <1>1 DEF Held
<1>6. TypeOK'
  <2>1. [Fresh EXCEPT !.proc = "loading"] \in RunnerState
    BY DEF Fresh, RunnerState
  <2>2. runner' \in [Runner -> RunnerState]
    BY <2>1, <1>1 DEF TypeOK
  <2>3. run' \in [Request -> Runner \cup {None}]
    BY <1>1 DEF TypeOK
  <2> QED BY <1>2, <2>2, <2>3 DEF TypeOK, RequestPC, Loading, Spawning, Thread, reapVars
<1>7. LockInv'
  BY <1>2, <1>3 DEF LockInv, Loading, Spawning
<1>8. MemoryInv'
  BY <1>2, <1>3 DEF MemoryInv, TypeOK, Spawning, Leasing
<1>9. OneOwner'
  <2>1. \A p \in Request : pc'[p] \in Spawning => p = q
    BY <1>2, <1>3 DEF LockInv, Loading
  <2> QED BY <1>2, <1>3, <1>4, <1>5, <2>1 DEF OneOwner
<1>10. ProcessInv'
  <2>1. \A s \in Runner : Held(s) => Held(s)'
    BY <1>1, <1>2 DEF Held, TypeOK
  <2>2. Held(r)'
    BY <1>3 DEF Held
  <2>3. \A p \in Request : pc'[p] \in Spawning => p = q
    BY <1>2, <1>3 DEF LockInv, Loading
  <2>4. \A p \in Request : pc[p] \notin Spawning
    BY <1>2 DEF LockInv, Loading, Spawning
  <2>5. pc'[q] \in Spawning
    BY <1>3 DEF Spawning
  <2>6. \A m \in Model : runners[m] # None => runners[m] \in Runner \ {r}
    BY <1>5 DEF TypeOK
  <2> QED BY <1>2, <1>3, <2>1, <2>2, <2>3, <2>4, <2>5, <2>6 DEF ProcessInv
<1>11. ClockInv'
  <2>1. \A m \in Model : runners[m] # None => runners[m] \in Runner \ {r}
    BY <1>5 DEF TypeOK
  <2> QED BY <1>2, <1>3, <2>1 DEF ClockInv
<1>12. LeaseCountExact'
  <2>1. \A s \in Runner : Lessees(s)' = Lessees(s)
    BY <1>2, <1>3 DEF Lessees, Leasing
  <2>2. Lessees(r)' = {}
    BY <1>4, <2>1 DEF Lessees
  <2> QED BY <1>3, <2>1, <2>2, FS_EmptySet DEF LeaseCountExact
<1>13. LeasedNotKilled'
  BY <1>2, <1>3, <1>4 DEF LeasedNotKilled, MemoryInv, TypeOK, Leasing
<1> QED BY <1>6, <1>7, <1>8, <1>9, <1>10, <1>11, <1>12, <1>13

LEMMA FallBackToCpuInv == ASSUME IInv, NEW q \in Request, FallBackToCpu(q) PROVE IInv'
<1> USE SchedulerAssumption, FreshType DEF IInv
<1>1. TypeOK'
  BY DEF FallBackToCpu, reapVars, TypeOK, RequestPC, Thread, Loading, Spawning
<1>2. LockInv'
  BY DEF FallBackToCpu, TypeOK, LockInv, Loading, Spawning
<1>3. MemoryInv'
  BY DEF FallBackToCpu, TypeOK, MemoryInv, Spawning
<1>4. OneOwner'
  BY DEF FallBackToCpu, TypeOK, OneOwner, Spawning
<1>5. ProcessInv'
  BY DEF FallBackToCpu, TypeOK, ProcessInv, Held, Spawning
<1>6. ClockInv'
  BY DEF FallBackToCpu, TypeOK, ClockInv
<1>7. LeaseCountExact'
  BY DEF FallBackToCpu, TypeOK, LeaseCountExact, Lessees, Leasing
<1>8. LeasedNotKilled'
  BY DEF FallBackToCpu, TypeOK, LeasedNotKilled, Leasing
<1> QED BY <1>1, <1>2, <1>3, <1>4, <1>5, <1>6, <1>7, <1>8

LEMMA LoadDoneInv == ASSUME IInv, NEW q \in Request, LoadDone(q) PROVE IInv'
<1> USE SchedulerAssumption, FreshType DEF IInv
<1>1. TypeOK'
  <2>1. /\ run[q] \in Runner /\ req[q].model \in Model
        /\ runner[run[q]] \in RunnerState /\ req[q] \in RequestState
    BY DEF LoadDone, LockInv, MemoryInv, TypeOK, Loading
  <2>2. runner' \in [Runner -> RunnerState]
    BY <2>1 DEF LoadDone, TypeOK, RunnerState
  <2>3. runners' \in [Model -> Runner \cup {None}] /\ older' \subseteq Model \X Model
    BY <2>1 DEF LoadDone, TypeOK, Touch, Loaded
  <2>4. Leased(req[q].model, LeaseKeep(req[q].ask, FALSE), req[q].pin) \in RequestState
    BY <2>1 DEF Leased, LeaseKeep, RequestState
  <2>5. req' \in [Request -> RequestState]
    BY <2>4 DEF LoadDone, TypeOK
  <2>6. /\ pc' \in [Thread -> RequestPC \cup ReaperPC]
        /\ pc'[Reaper] \in ReaperPC
        /\ \A p \in Request : pc'[p] \in RequestPC
    BY DEF LoadDone, TypeOK, RequestPC, Leasing, Thread
  <2> QED BY <2>2, <2>3, <2>5, <2>6 DEF LoadDone, TypeOK, reapVars
<1>2. LockInv'
  BY DEF LoadDone, Leased, LeaseKeep, TypeOK, LockInv, Thread, Loading, Spawning
<1>3. MemoryInv'
  BY DEF LoadDone, Leased, LeaseKeep, TypeOK, LockInv, MemoryInv, Loading, Leasing, Spawning
<1>4. OneOwner'
  BY DEF LoadDone, Leased, LeaseKeep, TypeOK, OneOwner, Thread, Spawning
<1>5. ProcessInv'
  BY DEF LoadDone, Leased, LeaseKeep, TypeOK, MemoryInv, RunnerState
<1>6. ClockInv'
  BY DEF LoadDone, Leased, LeaseKeep, TypeOK, MemoryInv, RunnerState
<1>7. LeaseCountExact'
  BY DEF LoadDone, Leased, LeaseKeep, TypeOK, MemoryInv, RunnerState
<1>8. LeasedNotKilled'
  BY DEF LoadDone, Leased, LeaseKeep, TypeOK, MemoryInv, RunnerState
<1> QED BY <1>1, <1>2, <1>3, <1>4, <1>5, <1>6, <1>7, <1>8

LEMMA LoadFailsInv == ASSUME IInv, NEW q \in Request, LoadFails(q) PROVE IInv'
<1> USE SchedulerAssumption, FreshType DEF IInv
<1>1. TypeOK'
  BY DEF LoadFails, DropUnheld, reapVars, TypeOK, RequestPC, Thread
<1>2. LockInv'
  BY DEF LoadFails, TypeOK, LockInv, Thread, Loading, Spawning
<1>3. MemoryInv'
  BY DEF LoadFails, TypeOK, MemoryInv, Thread, Leasing, Spawning
<1>4. OneOwner'
  BY DEF LoadFails, TypeOK, MemoryInv, OneOwner, Thread, Spawning
<1>5. ProcessInv'
  BY DEF LoadFails, DropUnheld, TypeOK, MemoryInv, OneOwner, ProcessInv, Fresh, Held,
       Thread, Spawning
<1>6. ClockInv'
  <2>1. \A m \in Model : runners[m] # None =>
           runners[m] \in Runner /\ Held(runners[m])'
    BY DEF TypeOK, Held
  <2>2. \A m \in Model : runners[m] # None => runner'[runners[m]] = runner[runners[m]]
    BY <2>1 DEF LoadFails, DropUnheld
  <2>3. \A p \in Request : pc[p] \in {"leased", "release"} =>
           pc'[p] = pc[p] /\ run'[p] = run[p]
    BY DEF LoadFails, TypeOK
  <2> QED BY <2>2, <2>3 DEF LoadFails, ClockInv
<1>7. LeaseCountExact'
  <2>1. \A r \in Runner : Lessees(r)' = Lessees(r)
    BY DEF LoadFails, Lessees, TypeOK, Leasing
  <2>2. \A r \in Runner : ~Held(r)' => Lessees(r)' = {}
    BY DEF Held, Lessees
  <2> QED BY <2>1, <2>2, CountKept DEF LoadFails, DropUnheld
<1>8. LeasedNotKilled'
  BY DEF LoadFails, DropUnheld, TypeOK, MemoryInv, LeasedNotKilled, Held, Leasing
<1> QED BY <1>1, <1>2, <1>3, <1>4, <1>5, <1>6, <1>7, <1>8

LEMMA DecideInv == ASSUME IInv, NEW q \in Request, Decide(q) PROVE IInv'
<1> USE SchedulerAssumption, FreshType DEF IInv
<1>1. TypeOK'
  BY DEF Decide, reapVars, TypeOK, RequestPC, Thread, Leasing
<1>2. LockInv'
  BY DEF Decide, TypeOK, LockInv, Loading, Unloading, Spawning
<1>3. MemoryInv'
  BY DEF Decide, TypeOK, MemoryInv, Leasing
<1>4. OneOwner'
  BY DEF Decide, TypeOK, OneOwner, Spawning
<1>5. ProcessInv'
  BY DEF Decide, TypeOK, ProcessInv, Fresh, Held, Spawning
<1>6. ClockInv'
  BY DEF Decide, TypeOK, ClockInv
<1>7. LeaseCountExact'
  BY DEF Decide, TypeOK, LeaseCountExact, Lessees, Leasing
<1>8. LeasedNotKilled'
  BY DEF Decide, TypeOK, LeasedNotKilled, Leasing
<1> QED BY <1>1, <1>2, <1>3, <1>4, <1>5, <1>6, <1>7, <1>8

LEMMA PinInv == ASSUME IInv, NEW q \in Request, Pin(q) PROVE IInv'
<1> USE SchedulerAssumption, FreshType DEF IInv
<1>1. TypeOK'
  <2>1. run[q] \in Runner /\ runner[run[q]] \in RunnerState
    BY DEF Pin, TypeOK, MemoryInv, Leasing
  <2>2. runner' \in [Runner -> RunnerState]
    BY <2>1 DEF Pin, TypeOK, RunnerState
  <2> QED BY <2>2 DEF Pin, TypeOK, RequestPC, Leasing, Thread, reapVars
<1>2. LockInv'
  BY DEF Pin, TypeOK, LockInv, Loading, Unloading, Spawning
<1>3. MemoryInv'
  BY DEF Pin, TypeOK, MemoryInv, Leasing
<1>4. OneOwner'
  BY DEF Pin, TypeOK, OneOwner, Spawning
<1>5. ProcessInv'
  <2>1. /\ \A r \in Runner : runner'[r].proc = runner[r].proc
        /\ \A p \in Request : pc'[p] \in Spawning <=> pc[p] \in Spawning
        /\ \A r \in Runner : Held(r)' <=> Held(r)
    BY DEF Pin, Held, TypeOK, Spawning
  <2>2. run[q] \in Runner /\ Held(run[q])
    BY DEF Pin, MemoryInv, TypeOK, Leasing, Held
  <2>3. \A r \in Runner \ {run[q]} : runner'[r] = runner[r]
    BY <2>2 DEF Pin, TypeOK
  <2>4. \A r \in Runner : ~Held(r)' => runner'[r] = Fresh
    BY <2>1, <2>2, <2>3 DEF ProcessInv
  <2>5. \A p \in Request : pc'[p] \in Spawning => runner'[run'[p]].proc = "loading"
    BY <2>1 DEF Pin, ProcessInv, MemoryInv, TypeOK
  <2>6. \A r \in Runner : runner'[r].proc = "loading" =>
           \E p \in Request : pc'[p] \in Spawning /\ run'[p] = r
    BY <2>1 DEF Pin, ProcessInv
  <2>7. \A m \in Model : runners'[m] # None =>
           runner'[runners'[m]].proc \in {"up", "exited"}
    BY <2>1 DEF Pin, ProcessInv, TypeOK
  <2> QED BY <2>4, <2>5, <2>6, <2>7 DEF ProcessInv
<1>6. ClockInv'
  BY DEF Pin, TypeOK, ClockInv
<1>7. LeaseCountExact'
  BY DEF Pin, TypeOK, LeaseCountExact, Lessees, Leasing
<1>8. LeasedNotKilled'
  BY DEF Pin, TypeOK, MemoryInv, LeasedNotKilled, Leasing
<1> QED BY <1>1, <1>2, <1>3, <1>4, <1>5, <1>6, <1>7, <1>8

LEMMA StartClockInv == ASSUME IInv, NEW q \in Request, StartClock(q) PROVE IInv'
<1> USE SchedulerAssumption, FreshType DEF IInv
<1>1. TypeOK'
  <2>1. /\ run[q] \in Runner /\ runner[run[q]] \in RunnerState
        /\ req[q].model \in Model
    BY DEF StartClock, TypeOK, MemoryInv, Leasing
  <2>2. runner' \in [Runner -> RunnerState]
    BY <2>1 DEF StartClock, TypeOK, RunnerState
  <2>3. older' \subseteq Model \X Model
    BY <2>1 DEF StartClock, TypeOK, Touch, Loaded
  <2> QED BY <2>2, <2>3 DEF StartClock, TypeOK, RequestPC, Leasing, Thread, reapVars
<1>2. LockInv'
  BY DEF StartClock, TypeOK, LockInv, Loading, Unloading, Spawning
<1>3. MemoryInv'
  BY DEF StartClock, TypeOK, MemoryInv, Leasing
<1>4. OneOwner'
  BY DEF StartClock, TypeOK, OneOwner, Spawning
<1>5. ProcessInv'
  <2>1. /\ \A r \in Runner : runner'[r].proc = runner[r].proc
        /\ \A p \in Request : pc'[p] \in Spawning <=> pc[p] \in Spawning
        /\ \A r \in Runner : Held(r)' <=> Held(r)
    BY DEF StartClock, Held, TypeOK, Spawning
  <2>2. run[q] \in Runner /\ Held(run[q])
    BY DEF StartClock, MemoryInv, TypeOK, Leasing, Held
  <2>3. \A r \in Runner \ {run[q]} : runner'[r] = runner[r]
    BY <2>2 DEF StartClock, TypeOK
  <2>4. \A r \in Runner : ~Held(r)' => runner'[r] = Fresh
    BY <2>1, <2>2, <2>3 DEF ProcessInv
  <2>5. \A p \in Request : pc'[p] \in Spawning => runner'[run'[p]].proc = "loading"
    BY <2>1 DEF StartClock, ProcessInv, MemoryInv, TypeOK
  <2>6. \A r \in Runner : runner'[r].proc = "loading" =>
           \E p \in Request : pc'[p] \in Spawning /\ run'[p] = r
    BY <2>1 DEF StartClock, ProcessInv
  <2>7. \A m \in Model : runners'[m] # None =>
           runner'[runners'[m]].proc \in {"up", "exited"}
    BY <2>1 DEF StartClock, ProcessInv, TypeOK
  <2> QED BY <2>4, <2>5, <2>6, <2>7 DEF ProcessInv
<1>6. ClockInv'
  BY DEF StartClock, TypeOK, ClockInv
<1>7. LeaseCountExact'
  BY DEF StartClock, TypeOK, LeaseCountExact, Lessees, Leasing
<1>8. LeasedNotKilled'
  BY DEF StartClock, TypeOK, MemoryInv, LeasedNotKilled, Leasing
<1> QED BY <1>1, <1>2, <1>3, <1>4, <1>5, <1>6, <1>7, <1>8

LEMMA UnleaseInv == ASSUME IInv, NEW q \in Request, Unlease(q) PROVE IInv'
<1> USE SchedulerAssumption, FreshType DEF IInv
<1>1. TypeOK'
  <2> DEFINE f == [runner EXCEPT ![run[q]].leases = @ - 1]
  <2>1. run[q] \in Runner /\ q \in Lessees(run[q])
    BY DEF Unlease, TypeOK, MemoryInv, Lessees, Leasing
  <2>2. runner[run[q]].leases - 1 \in Nat
    BY <2>1, LesseesFinite, OneLess DEF LeaseCountExact
  <2>3. f \in [Runner -> RunnerState]
    BY <2>1, <2>2 DEF TypeOK, RunnerState
  <2>4. runner' \in [Runner -> RunnerState]
    BY <2>3, DropType DEF Unlease
  <2> QED BY <2>4 DEF Unlease, TypeOK, RequestPC, Thread, reapVars
<1>2. LockInv'
  BY DEF Unlease, TypeOK, LockInv, Loading, Unloading, Spawning
<1>3. MemoryInv'
  BY DEF Unlease, TypeOK, MemoryInv, Thread, Leasing, Spawning
<1>4. OneOwner'
  BY DEF Unlease, TypeOK, MemoryInv, OneOwner, Spawning
<1>5. ProcessInv'
  BY DEF Unlease, DropUnheld, TypeOK, MemoryInv, ProcessInv, Fresh, Held, Spawning
<1>6. ClockInv'
  <2> SUFFICES ASSUME NEW m \in Model, runners'[m] # None
               PROVE  LET r == runners'[m] IN
                      \/ runner'[r].forever \/ runner'[r].expires # "none"
                      \/ \E p \in Request : run'[p] = r /\ pc'[p] \in {"leased", "release"}
    BY DEF ClockInv
  <2> DEFINE r == runners[m]
  <2>1. runners' = runners /\ r \in Runner /\ Held(r)'
    BY DEF Unlease, TypeOK, Held
  <2>2. runner'[r].forever = runner[r].forever /\ runner'[r].expires = runner[r].expires
    BY <2>1 DEF Unlease, DropUnheld, TypeOK
  <2>3. \A p \in Request : pc[p] \in {"leased", "release"} =>
           pc'[p] = pc[p] /\ run'[p] = run[p]
    BY DEF Unlease, TypeOK
  <2>4. CASE \E p \in Request : run[p] = r /\ pc[p] \in {"leased", "release"}
    BY <2>1, <2>3, <2>4
  <2> QED BY <2>1, <2>2, <2>4 DEF ClockInv
<1>7. LeaseCountExact'
  <2>1. PICK s \in Runner : /\ s = run[q] /\ s # None /\ q \in Lessees(s)
                            /\ runner[s] \in RunnerState
    BY DEF Unlease, TypeOK, MemoryInv, Lessees, Leasing
  <2>2. /\ \A p \in Request \ {q} : pc'[p] = pc[p] /\ run'[p] = run[p]
        /\ run'[q] = None /\ pc'[q] \notin Leasing
    BY DEF Unlease, TypeOK, Thread, Leasing
  <2>3. \A r \in Runner : Lessees(r)' = Lessees(r) \ {q}
    BY <2>2 DEF Lessees
  <2>4. \A r \in Runner \ {s} : q \notin Lessees(r)
    BY <2>1 DEF Lessees
  <2>5. \A r \in Runner \ {s} : Lessees(r)' = Lessees(r)
    BY <2>3, <2>4
  <2>6. /\ Cardinality(Lessees(s)') = Cardinality(Lessees(s)) - 1
        /\ runner[s].leases = Cardinality(Lessees(s))
    <3>1. IsFiniteSet(Lessees(s))
      BY <2>1, LesseesFinite
    <3>2. Cardinality(Lessees(s) \ {q}) = Cardinality(Lessees(s)) - 1
      BY <2>1, <3>1, OneLess
    <3>3. Lessees(s)' = Lessees(s) \ {q}
      BY <2>1, <2>3
    <3> QED BY <2>1, <3>2, <3>3 DEF LeaseCountExact
  <2>7. \A r \in Runner : ~Held(r)' => Lessees(r)' = {} /\ runner'[r] = Fresh
    BY DEF Unlease, DropUnheld, Held, Lessees
  <2> DEFINE f == [runner EXCEPT ![s].leases = @ - 1]
  <2>8. \A r \in Runner : Held(r)' => runner'[r] = f[r]
    BY <2>1 DEF Unlease, DropUnheld
  <2>9. /\ f[s].leases = runner[s].leases - 1
        /\ \A r \in Runner \ {s} : f[r].leases = runner[r].leases
    BY <2>1 DEF TypeOK
  <2>10. \A r \in Runner : ~Held(r)' => runner'[r].leases = Cardinality(Lessees(r)')
    <3>1. Cardinality({}) = 0 /\ Fresh.leases = 0
      BY FS_EmptySet DEF Fresh
    <3> QED BY <2>7, <3>1
  <2>11. Held(s)' => runner'[s].leases = Cardinality(Lessees(s)')
    BY <2>1, <2>6, <2>8, <2>9
  <2>12. \A r \in Runner \ {s} : Held(r)' => runner'[r].leases = Cardinality(Lessees(r)')
    BY <2>5, <2>8, <2>9 DEF LeaseCountExact
  <2>13. \A r \in Runner : runner'[r].leases = Cardinality(Lessees(r)')
    BY <2>10, <2>11, <2>12
  <2> QED BY <2>13 DEF LeaseCountExact
<1>8. LeasedNotKilled'
  BY DEF Unlease, DropUnheld, TypeOK, MemoryInv, LeasedNotKilled, Held, Thread, Leasing
<1> QED BY <1>1, <1>2, <1>3, <1>4, <1>5, <1>6, <1>7, <1>8

LEMMA StopInv == ASSUME IInv, NEW q \in Request, Stop(q) PROVE IInv'
<1> USE SchedulerAssumption, FreshType DEF IInv
<1>1. TypeOK'
  BY DEF Stop, reapVars, TypeOK, RequestPC, Thread, Unloading
<1>2. LockInv'
  BY DEF Stop, TypeOK, LockInv, Loading, Unloading, Spawning
<1>3. MemoryInv'
  BY DEF Stop, TypeOK, MemoryInv, Leasing, Spawning
<1>4. OneOwner'
  BY DEF Stop, TypeOK, OneOwner, Spawning
<1>5. ProcessInv'
  BY DEF Stop, TypeOK, ProcessInv, Held, Spawning
<1>6. ClockInv'
  BY DEF Stop, TypeOK, ClockInv
<1>7. LeaseCountExact'
  BY DEF Stop, TypeOK, LeaseCountExact, Lessees, Leasing
<1>8. LeasedNotKilled'
  BY DEF Stop, TypeOK, LeasedNotKilled, Leasing
<1> QED BY <1>1, <1>2, <1>3, <1>4, <1>5, <1>6, <1>7, <1>8

LEMMA UnloadTakeInv == ASSUME IInv, NEW t \in Thread, UnloadTake(t) PROVE IInv'
<1> USE SchedulerAssumption, FreshType DEF IInv
<1>1. TypeOK'
  <2>1. tgt[t] \in Model
    BY DEF UnloadTake, MemoryInv
  <2>2. /\ pc' \in [Thread -> RequestPC \cup ReaperPC]
        /\ pc'[Reaper] \in ReaperPC
        /\ \A p \in Request : pc'[p] \in RequestPC
    <3>1. CASE t = Reaper
      BY <3>1 DEF UnloadTake, AfterUnload, TypeOK, ReaperPC, Unloading
    <3>2. CASE t \in Request
      BY <3>2 DEF UnloadTake, AfterUnload, TypeOK, RequestPC, Loading, Unloading
    <3> QED BY <3>1, <3>2 DEF Thread
  <2>3. /\ hold' \in [Thread -> Runner \cup {None}]
        /\ runners' \in [Model -> Runner \cup {None}]
        /\ tgt' \in [Thread -> Model \cup {None}]
    BY <2>1 DEF UnloadTake, TypeOK
  <2>4. older' \subseteq Model \X Model
    BY DEF UnloadTake, Forgotten, TypeOK
  <2> QED BY <2>2, <2>3, <2>4 DEF UnloadTake, TypeOK, reapVars
<1>2. LockInv'
  BY DEF UnloadTake, AfterUnload, TypeOK, LockInv, Loading, Unloading, Spawning
<1>3. MemoryInv'
  BY DEF UnloadTake, AfterUnload, TypeOK, MemoryInv, Leasing, Spawning
<1>4. OneOwner'
  BY DEF UnloadTake, AfterUnload, TypeOK, MemoryInv, OneOwner, Spawning
<1>5. ProcessInv'
  BY DEF UnloadTake, AfterUnload, TypeOK, MemoryInv, ProcessInv, Fresh, Held, Spawning
<1>6. ClockInv'
  BY DEF UnloadTake, TypeOK, ClockInv
<1>7. LeaseCountExact'
  BY DEF UnloadTake, TypeOK, LeaseCountExact, MemoryInv, Lessees, Leasing, Spawning
<1>8. LeasedNotKilled'
  BY DEF UnloadTake, AfterUnload, TypeOK, LeasedNotKilled, Leasing
<1> QED BY <1>1, <1>2, <1>3, <1>4, <1>5, <1>6, <1>7, <1>8

LEMMA UnloadKillInv == ASSUME IInv, NEW t \in Thread, UnloadKill(t) PROVE IInv'
<1> USE SchedulerAssumption, FreshType DEF IInv
<1>1. TypeOK'
  <2>1. hold[t] \in Runner
    BY DEF UnloadKill, MemoryInv, TypeOK
  <2>2. /\ pc' \in [Thread -> RequestPC \cup ReaperPC]
        /\ pc'[Reaper] \in ReaperPC
        /\ \A p \in Request : pc'[p] \in RequestPC
    <3>1. CASE t = Reaper
      BY <3>1 DEF UnloadKill, AfterUnload, TypeOK, ReaperPC
    <3>2. CASE t \in Request
      BY <3>2 DEF UnloadKill, AfterUnload, TypeOK, RequestPC, Loading
    <3> QED BY <3>1, <3>2 DEF Thread
  <2>3. /\ runner' \in [Runner -> RunnerState]
        /\ hold' \in [Thread -> Runner \cup {None}]
    BY <2>1 DEF UnloadKill, TypeOK
  <2> QED BY <2>2, <2>3 DEF UnloadKill, TypeOK, reapVars
<1>2. LockInv'
  BY DEF UnloadKill, AfterUnload, TypeOK, LockInv, Loading, Spawning
<1>3. MemoryInv'
  BY DEF UnloadKill, AfterUnload, TypeOK, MemoryInv, Leasing, Spawning
<1>4. OneOwner'
  BY DEF UnloadKill, AfterUnload, TypeOK, MemoryInv, OneOwner, Spawning
<1>5. ProcessInv'
  <2> DEFINE s == hold[t]
  <2>1. s \in Runner /\ s # None /\ Lessees(s) = {}
    BY IdleUnused DEF UnloadKill, MemoryInv, TypeOK
  <2>2. /\ \A m \in Model : runners[m] # s
        /\ \A p \in Request : run[p] # s
    BY <2>1 DEF OneOwner, MemoryInv, Lessees
  <2>3. /\ \A r \in Runner \ {s} : runner'[r] = runner[r] /\ (Held(r)' <=> Held(r))
        /\ runner'[s] = Fresh
    BY <2>1 DEF UnloadKill, TypeOK, Held
  <2>4. \A p \in Request : pc[p] \in Spawning <=> pc'[p] \in Spawning
    BY DEF UnloadKill, AfterUnload, TypeOK, Spawning
  <2>5. \A p \in Request : pc[p] \in Spawning => run[p] \in Runner \ {s}
    BY <2>2 DEF MemoryInv, TypeOK
  <2>6. \A m \in Model : runners[m] # None => runners[m] \in Runner \ {s}
    BY <2>2 DEF TypeOK
  <2>7. Fresh.proc # "loading"
    BY DEF Fresh
  <2> QED BY <2>1, <2>3, <2>4, <2>5, <2>6, <2>7 DEF UnloadKill, ProcessInv
<1>6. ClockInv'
  BY DEF UnloadKill, TypeOK, OneOwner, ClockInv
<1>7. LeaseCountExact'
  BY DEF UnloadKill, Idle, TypeOK, LeaseCountExact, MemoryInv, Lessees, Fresh, Leasing,
       Spawning
<1>8. LeasedNotKilled'
  <2>1. hold[t] \in Runner /\ Lessees(hold[t]) = {}
    BY IdleUnused DEF UnloadKill, MemoryInv, TypeOK
  <2>2. \A p \in Request : pc'[p] \in Leasing => pc[p] \in Leasing
    BY DEF UnloadKill, AfterUnload, TypeOK, Leasing
  <2>3. \A p \in Request : pc[p] \in Leasing => run[p] \in Runner \ {hold[t]}
    BY <2>1 DEF Lessees, MemoryInv, TypeOK
  <2> QED BY <2>2, <2>3 DEF UnloadKill, LeasedNotKilled, TypeOK
<1> QED BY <1>1, <1>2, <1>3, <1>4, <1>5, <1>6, <1>7, <1>8

LEMMA DeleteDroppedInv == ASSUME IInv, NEW q \in Request, DeleteDropped(q) PROVE IInv'
<1> USE SchedulerAssumption, FreshType DEF IInv
<1>1. TypeOK'
  BY DEF DeleteDropped, DropUnheld, reapVars, TypeOK, RequestPC, Thread
<1>2. LockInv'
  BY DEF DeleteDropped, TypeOK, LockInv, Loading, Spawning
<1>3. MemoryInv'
  BY DEF DeleteDropped, TypeOK, MemoryInv, Leasing, Spawning
<1>4. OneOwner'
  BY DEF DeleteDropped, TypeOK, MemoryInv, OneOwner, Spawning
<1>5. ProcessInv'
  BY DEF DeleteDropped, DropUnheld, TypeOK, MemoryInv, ProcessInv, Fresh, Held, Spawning
<1>6. ClockInv'
  BY DEF DeleteDropped, DropUnheld, TypeOK, ClockInv, Held
<1>7. LeaseCountExact'
  <2>1. \A r \in Runner : Lessees(r)' = Lessees(r)
    BY DEF DeleteDropped, Lessees, TypeOK, Leasing
  <2>2. \A r \in Runner : ~Held(r)' => Lessees(r)' = {}
    BY DEF Held, Lessees
  <2> QED BY <2>1, <2>2, CountKept DEF DeleteDropped, DropUnheld
<1>8. LeasedNotKilled'
  BY DEF DeleteDropped, DropUnheld, TypeOK, MemoryInv, LeasedNotKilled, Held, Leasing
<1> QED BY <1>1, <1>2, <1>3, <1>4, <1>5, <1>6, <1>7, <1>8

LEMMA ReapScanInv == ASSUME IInv, ReapScan PROVE IInv'
<1> USE SchedulerAssumption, FreshType DEF IInv
<1>1. TypeOK'
  BY DEF ReapScan, Loaded, TypeOK, ReaperPC, Thread
<1>2. LockInv'
  BY DEF ReapScan, TypeOK, LockInv
<1>3. MemoryInv'
  BY DEF ReapScan, TypeOK, MemoryInv
<1>4. OneOwner'
  BY DEF ReapScan, TypeOK, OneOwner
<1>5. ProcessInv'
  BY DEF ReapScan, TypeOK, ProcessInv, Held
<1>6. ClockInv'
  BY DEF ReapScan, TypeOK, ClockInv
<1>7. LeaseCountExact'
  BY DEF ReapScan, TypeOK, LeaseCountExact, Lessees
<1>8. LeasedNotKilled'
  BY DEF ReapScan, TypeOK, LeasedNotKilled
<1> QED BY <1>1, <1>2, <1>3, <1>4, <1>5, <1>6, <1>7, <1>8

LEMMA ReapNextInv == ASSUME IInv, ReapNext PROVE IInv'
<1> USE SchedulerAssumption, FreshType DEF IInv
<1>1. TypeOK'
  BY DEF ReapNext, TypeOK, ReaperPC, Thread, Unloading
<1>2. LockInv'
  BY DEF ReapNext, TypeOK, LockInv
<1>3. MemoryInv'
  BY DEF ReapNext, TypeOK, MemoryInv
<1>4. OneOwner'
  BY DEF ReapNext, TypeOK, OneOwner
<1>5. ProcessInv'
  BY DEF ReapNext, TypeOK, ProcessInv, Held
<1>6. ClockInv'
  BY DEF ReapNext, TypeOK, ClockInv
<1>7. LeaseCountExact'
  BY DEF ReapNext, TypeOK, LeaseCountExact, Lessees
<1>8. LeasedNotKilled'
  BY DEF ReapNext, TypeOK, LeasedNotKilled
<1> QED BY <1>1, <1>2, <1>3, <1>4, <1>5, <1>6, <1>7, <1>8

LEMMA ReapDeadInv == ASSUME IInv, ReapDead PROVE IInv'
<1> USE SchedulerAssumption, FreshType DEF IInv
<1>1. TypeOK'
  BY DEF ReapDead, Loaded, TypeOK, ReaperPC, Thread
<1>2. LockInv'
  BY DEF ReapDead, TypeOK, LockInv
<1>3. MemoryInv'
  BY DEF ReapDead, TypeOK, MemoryInv
<1>4. OneOwner'
  BY DEF ReapDead, TypeOK, OneOwner
<1>5. ProcessInv'
  BY DEF ReapDead, TypeOK, ProcessInv, Held
<1>6. ClockInv'
  BY DEF ReapDead, TypeOK, ClockInv
<1>7. LeaseCountExact'
  BY DEF ReapDead, TypeOK, LeaseCountExact, Lessees
<1>8. LeasedNotKilled'
  BY DEF ReapDead, TypeOK, LeasedNotKilled
<1> QED BY <1>1, <1>2, <1>3, <1>4, <1>5, <1>6, <1>7, <1>8

LEMMA ForgetInv == ASSUME IInv, Forget PROVE IInv'
<1> USE SchedulerAssumption, FreshType DEF IInv
<1>1. TypeOK'
  BY DEF Forget, DropUnheld, Forgotten, TypeOK, ReaperPC, Thread
<1>2. LockInv'
  BY DEF Forget, TypeOK, LockInv
<1>3. MemoryInv'
  BY DEF Forget, TypeOK, MemoryInv
<1>4. OneOwner'
  BY DEF Forget, TypeOK, MemoryInv, OneOwner
<1>5. ProcessInv'
  BY DEF Forget, DropUnheld, TypeOK, MemoryInv, ProcessInv, Fresh, Held
<1>6. ClockInv'
  BY DEF Forget, DropUnheld, TypeOK, ClockInv, Held
<1>7. LeaseCountExact'
  <2>1. \A r \in Runner : Lessees(r)' = Lessees(r)
    BY DEF Forget, Lessees, TypeOK
  <2>2. \A r \in Runner : ~Held(r)' => Lessees(r)' = {}
    BY DEF Held, Lessees
  <2> QED BY <2>1, <2>2, CountKept DEF Forget, DropUnheld
<1>8. LeasedNotKilled'
  BY DEF Forget, DropUnheld, TypeOK, MemoryInv, LeasedNotKilled, Held
<1> QED BY <1>1, <1>2, <1>3, <1>4, <1>5, <1>6, <1>7, <1>8

LEMMA ExpireInv == ASSUME IInv, NEW r \in Runner, Expire(r) PROVE IInv'
<1> USE SchedulerAssumption, FreshType DEF IInv
<1>1. TypeOK'
  BY DEF Expire, reapVars, TypeOK, RunnerState, ReaperPC
<1>2. LockInv'
  BY DEF Expire, TypeOK, LockInv
<1>3. MemoryInv'
  BY DEF Expire, TypeOK, MemoryInv
<1>4. OneOwner'
  BY DEF Expire, TypeOK, OneOwner
<1>5. ProcessInv'
  <2>1. Held(r)
    BY DEF Expire, ProcessInv, Fresh
  <2>2. /\ \A s \in Runner : Held(s)' <=> Held(s)
        /\ \A s \in Runner \ {r} : runner'[s] = runner[s]
    BY DEF Expire, Held, TypeOK
  <2>3. runner'[r].proc = runner[r].proc
    BY DEF Expire, TypeOK
  <2>4. \A p \in Request : pc[p] \in Spawning => run[p] \in Runner
    BY DEF MemoryInv, TypeOK
  <2>5. \A m \in Model : runners[m] # None => runners[m] \in Runner
    BY DEF TypeOK
  <2> QED BY <2>1, <2>2, <2>3, <2>4, <2>5 DEF Expire, ProcessInv
<1>6. ClockInv'
  BY DEF Expire, TypeOK, ClockInv
<1>7. LeaseCountExact'
  BY DEF Expire, TypeOK, LeaseCountExact, Lessees
<1>8. LeasedNotKilled'
  BY DEF Expire, TypeOK, LeasedNotKilled
<1> QED BY <1>1, <1>2, <1>3, <1>4, <1>5, <1>6, <1>7, <1>8

LEMMA CrashInv == ASSUME IInv, NEW r \in Runner, Crash(r) PROVE IInv'
<1> USE SchedulerAssumption, FreshType DEF IInv
<1>1. TypeOK'
  BY DEF Crash, reapVars, TypeOK, RunnerState, RequestPC
<1>2. LockInv'
  BY DEF Crash, TypeOK, LockInv
<1>3. MemoryInv'
  BY DEF Crash, TypeOK, MemoryInv
<1>4. OneOwner'
  BY DEF Crash, TypeOK, OneOwner
<1>5. ProcessInv'
  <2>1. Held(r)
    BY DEF Crash, ProcessInv, Fresh
  <2>2. /\ \A s \in Runner : Held(s)' <=> Held(s)
        /\ \A s \in Runner \ {r} : runner'[s] = runner[s]
    BY DEF Crash, Held, TypeOK
  <2>3. runner[r].proc = "up" /\ runner'[r].proc = "exited"
    BY DEF Crash, TypeOK
  <2>4. \A p \in Request : pc[p] \in Spawning => run[p] \in Runner
    BY DEF MemoryInv, TypeOK
  <2>5. \A m \in Model : runners[m] # None => runners[m] \in Runner
    BY DEF TypeOK
  <2> QED BY <2>1, <2>2, <2>3, <2>4, <2>5 DEF Crash, ProcessInv
<1>6. ClockInv'
  BY DEF Crash, TypeOK, ClockInv
<1>7. LeaseCountExact'
  BY DEF Crash, TypeOK, LeaseCountExact, Lessees
<1>8. LeasedNotKilled'
  BY DEF Crash, TypeOK, LeasedNotKilled
<1> QED BY <1>1, <1>2, <1>3, <1>4, <1>5, <1>6, <1>7, <1>8

LEMMA ShutdownInv == ASSUME IInv, Shutdown PROVE IInv'
<1> USE SchedulerAssumption, FreshType DEF IInv
<1>1. TypeOK'
  <2> DEFINE f == [r \in Runner |->
                    IF \E m \in Model : runners[m] = r
                    THEN [runner[r] EXCEPT !.proc = "killed"] ELSE runner[r]]
  <2>1. f \in [Runner -> RunnerState]
    BY DEF TypeOK, RunnerState
  <2>2. runner' \in [Runner -> RunnerState]
    BY <2>1, DropType DEF Shutdown
  <2> QED BY <2>2 DEF Shutdown, TypeOK, reapVars
<1>2. LockInv'
  BY DEF Shutdown, TypeOK, LockInv
<1>3. MemoryInv'
  BY DEF Shutdown, TypeOK, MemoryInv
<1>4. OneOwner'
  BY DEF Shutdown, TypeOK, MemoryInv, OneOwner
<1>5. ProcessInv'
  BY DEF Shutdown, DropUnheld, TypeOK, LockInv, MemoryInv, ProcessInv, Fresh, Held
<1>6. ClockInv'
  BY DEF Shutdown, TypeOK, ClockInv
<1>7. LeaseCountExact'
  <2>1. \A r \in Runner : Lessees(r)' = Lessees(r)
    BY DEF Shutdown, Lessees
  <2>2. \A r \in Runner : ~Held(r)' => Lessees(r)' = {} /\ runner'[r] = Fresh
    BY DEF Shutdown, DropUnheld, Held, Lessees
  <2>3. \A r \in Runner : Held(r)' => runner'[r].leases = runner[r].leases
    BY DEF Shutdown, DropUnheld, TypeOK
  <2> QED BY <2>1, <2>2, <2>3, CountKept
<1>8. LeasedNotKilled'
  BY DEF Shutdown, DropUnheld, TypeOK, MemoryInv, LeasedNotKilled, Held
<1> QED BY <1>1, <1>2, <1>3, <1>4, <1>5, <1>6, <1>7, <1>8

-----------------------------------------------------------------------------
(* The theorems *)

LEMMA StepInv == IInv /\ [Next]_vars => IInv'
<1> SUFFICES ASSUME IInv, [Next]_vars PROVE IInv'
  OBVIOUS
<1>1. CASE UNCHANGED vars
  <2> USE <1>1 DEF vars, reapVars
  <2>1. TypeOK' /\ LockInv' /\ MemoryInv' /\ OneOwner'
    BY DEF IInv, TypeOK, LockInv, MemoryInv, OneOwner
  <2>2. ProcessInv' /\ ClockInv' /\ LeasedNotKilled'
    BY DEF IInv, ProcessInv, ClockInv, LeasedNotKilled, Held
  <2>3. LeaseCountExact'
    BY DEF IInv, LeaseCountExact, Lessees
  <2> QED BY <2>1, <2>2, <2>3 DEF IInv
<1>2. ASSUME NEW q \in Request, Acquire(q) PROVE IInv'
  BY <1>2, LeaseLoadedInv, QueueInv, PreloadInv, LeaseAfterWaitInv, TakeLoadLockInv
     DEF Acquire
<1>3. ASSUME NEW q \in Request, Load(q) PROVE IInv'
  BY <1>3, MakeRoomInv, SpawnInv, FallBackToCpuInv, LoadDoneInv, LoadFailsInv DEF Load
<1>4. ASSUME NEW q \in Request, Use(q) PROVE IInv'
  BY <1>4, DecideInv, PinInv, StartClockInv, UnleaseInv DEF Use
<1>5. ASSUME NEW q \in Request, Stop(q) \/ DeleteDropped(q) PROVE IInv'
  BY <1>5, StopInv, DeleteDroppedInv
<1>6. ASSUME NEW t \in Thread, Unload(t) PROVE IInv'
  BY <1>6, UnloadTakeInv, UnloadKillInv DEF Unload
<1>7. CASE Reap
  BY <1>7, ReapScanInv, ReapNextInv, ReapDeadInv, ForgetInv DEF Reap
<1>8. ASSUME NEW r \in Runner, Expire(r) \/ Crash(r) PROVE IInv'
  BY <1>8, ExpireInv, CrashInv
<1>9. CASE Shutdown
  BY <1>9, ShutdownInv
<1> QED BY <1>1, <1>2, <1>3, <1>4, <1>5, <1>6, <1>7, <1>8, <1>9 DEF Next

\* The inductive invariant holds in every state: whatever the order in which requests,
\* the preload, unloads, the reaper, crashes and the shutdown take their steps.
THEOREM Invariance == Spec => []IInv
BY InitInv, StepInv, PTL DEF Spec

\* Every variable keeps its type; in particular the lease counter never goes
\* below zero, whichever way leases are given back.
THEOREM TypeCorrect == Spec => []TypeOK
<1>1. IInv => TypeOK
  BY DEF IInv
<1> QED BY <1>1, Invariance, PTL

\* The lease counter unload and make_room trust is the number of requests that
\* use the runner, whatever the order of leases, drops and unloads.
THEOREM LeasesCounted == Spec => []LeaseCountExact
<1>1. IInv => LeaseCountExact
  BY DEF IInv
<1> QED BY <1>1, Invariance, PTL

\* No unload - eviction, expiry, stop, delete - kills a runner in use.
THEOREM NeverKilledInUse == Spec => []LeasedNotKilled
<1>1. IInv => LeasedNotKilled
  BY DEF IInv
<1> QED BY <1>1, Invariance, PTL

\* Every idle loaded runner is on its way out or kept on purpose.
THEOREM IdleRunnersExpire == Spec => []IdleHasDeadline
<1>1. IInv => IdleHasDeadline
  <2> SUFFICES ASSUME IInv, NEW m \in Model, runners[m] # None, Idle(runners[m])
               PROVE  runner[runners[m]].forever \/ runner[runners[m]].expires # "none"
    BY DEF IdleHasDeadline, Loaded
  <2>1. runners[m] \in Runner /\ Lessees(runners[m]) = {}
    BY IdleUnused DEF IInv, TypeOK
  <2>2. ~\E q \in Request : run[q] = runners[m] /\ pc[q] \in {"leased", "release"}
    BY <2>1 DEF Lessees, Leasing
  <2> QED BY <2>2 DEF IInv, ClockInv
<1> QED BY <1>1, Invariance, PTL

\* Loads are exclusive: the one process that is loading belongs to the request
\* that holds the load lock.
THEOREM ExclusiveLoads == Spec => []OneLoad
<1>1. IInv => OneLoad
  BY DEF IInv, OneLoad, LockInv, ProcessInv, Loading
<1> QED BY <1>1, Invariance, PTL

\* No load replaces a loaded runner of its model.
THEOREM LoadsNeverDuplicate == Spec => NoSecondLoad
<1>1. ASSUME IInv, [Next]_vars
      PROVE  [\A m \in Model : runners[m] # None => runners'[m] \in {runners[m], None}]_runners
  <2> SUFFICES ASSUME NEW m \in Model, runners[m] # None, Next
               PROVE  runners'[m] \in {runners[m], None}
    BY <1>1 DEF vars
  <2> USE SchedulerAssumption, <1>1 DEF IInv
  <2>1. ASSUME NEW q \in Request, Acquire(q) PROVE runners' = runners
    BY <2>1 DEF Acquire, LeaseLoaded, Queue, Preload, LeaseAfterWait, TakeLoadLock
  <2>2. ASSUME NEW q \in Request, LoadDone(q) PROVE runners'[m] = runners[m]
    BY <2>2 DEF LoadDone, LockInv, Loading, TypeOK
  <2>3. ASSUME NEW q \in Request, Load(q) PROVE runners'[m] = runners[m]
    BY <2>2, <2>3 DEF Load, MakeRoom, Spawn, FallBackToCpu, LoadFails
  <2>4. ASSUME NEW q \in Request, Use(q) \/ Stop(q) \/ DeleteDropped(q)
        PROVE  runners' = runners
    BY <2>4 DEF Use, Decide, Pin, StartClock, Unlease, Stop, DeleteDropped
  <2>5. ASSUME NEW t \in Thread, Unload(t) PROVE runners'[m] \in {runners[m], None}
    BY <2>5 DEF Unload, UnloadTake, UnloadKill, TypeOK
  <2>6. ASSUME Reap PROVE runners'[m] \in {runners[m], None}
    BY <2>6 DEF Reap, ReapScan, ReapNext, ReapDead, Forget, TypeOK
  <2>7. ASSUME NEW r \in Runner, Expire(r) \/ Crash(r) PROVE runners' = runners
    BY <2>7 DEF Expire, Crash
  <2>8. ASSUME Shutdown PROVE runners'[m] = None
    BY <2>8 DEF Shutdown
  <2> QED BY <2>1, <2>3, <2>4, <2>5, <2>6, <2>7, <2>8 DEF Next
<1> QED BY <1>1, Invariance, PTL DEF Spec, NoSecondLoad

-----------------------------------------------------------------------------
(* What the waits end by: the safety that WaitersFinish and DrainsEnd rest on *)

\* Whom a thread waits for: the holder of the load lock, or those that lease the runner
\* it unloads.
WaitsFor(t) ==
    IF pc[t] = "wait" THEN {load_lock} \ {None}
    ELSE IF pc[t] = "drain" THEN Lessees(hold[t]) ELSE {}

\* A loader waits for its victim under the lock others wait for, and a victim is leased:
\* no chain of waits is longer than that, its last one runs, and whoever waits for nobody
\* finds what it waits for.
WaitsEnd ==
    /\ \A t \in Thread : \A u \in WaitsFor(t) : u \in Request /\ \A v \in WaitsFor(u) : v \in Request /\ WaitsFor(v) = {}
    /\ \A t \in Thread : pc[t] = "drain" /\ WaitsFor(t) = {} => Idle(hold[t])

\* No request holds what another waits for and waits itself in a circle, whatever is
\* loaded, evicted, stopped and reaped at once.
THEOREM NoCircularWait == Spec => []WaitsEnd
<1>1. IInv => WaitsEnd
  <2> SUFFICES ASSUME IInv PROVE WaitsEnd
    OBVIOUS
  <2> USE SchedulerAssumption DEF IInv
  <2>1. ASSUME NEW t \in Thread, NEW u \in Lessees(hold[t]) PROVE u \in Request /\ WaitsFor(u) = {}
    BY <2>1 DEF Lessees, Leasing, WaitsFor
  <2>2. ASSUME NEW t \in Thread, pc[t] = "wait", NEW u \in WaitsFor(t)
        PROVE  u \in Request /\ u \in Thread /\ pc[u] # "wait"
    BY <2>2 DEF WaitsFor, TypeOK, LockInv, Loading, Unloading, Spawning, Thread
  <2>3. ASSUME NEW t \in Thread, NEW u \in WaitsFor(t), NEW v \in WaitsFor(u)
        PROVE  v \in Request /\ WaitsFor(v) = {}
    <3>1. CASE pc[t] = "wait"
      <4>1. v \in Lessees(hold[u]) /\ u \in Thread
        BY <2>2, <2>3, <3>1 DEF WaitsFor
      <4> QED BY <2>1, <4>1
    <3>2. CASE pc[t] # "wait"
      <4>1. u \in Lessees(hold[t])
        BY <2>3, <3>2 DEF WaitsFor
      <4> QED BY <2>1, <2>3, <4>1
    <3> QED BY <3>1, <3>2
  <2>4. ASSUME NEW t \in Thread, NEW u \in WaitsFor(t) PROVE u \in Request
    <3>1. pc[t] # "wait" => u \in Lessees(hold[t])
      BY <2>4 DEF WaitsFor
    <3> QED BY <2>1, <2>2, <2>4, <3>1
  <2>5. ASSUME NEW t \in Thread, pc[t] = "drain", WaitsFor(t) = {} PROVE Idle(hold[t])
    <3>1. hold[t] \in Runner /\ Lessees(hold[t]) = {}
      BY <2>5 DEF WaitsFor, MemoryInv, TypeOK
    <3> QED BY <3>1, FS_EmptySet DEF LeaseCountExact, Idle
  <2> QED BY <2>3, <2>4, <2>5 DEF WaitsEnd
<1> QED BY <1>1, Invariance, PTL

\* A runner taken out of the map to be unloaded gets no new lessee, so that the unload
\* waits for those it found and no longer.
NoNewLease ==
    [][\A t \in Thread : hold[t] # None /\ hold'[t] = hold[t] =>
          Lessees(hold[t])' \subseteq Lessees(hold[t])]_vars

\* A request comes to lease only a runner that the map has, or that it loaded itself.
LEMMA NewLessee ==
    ASSUME IInv, Next, NEW r \in Runner, NEW q \in Request, q \in Lessees(r)', q \notin Lessees(r)
    PROVE  \/ \E m \in Model : runners[m] = r
           \/ pc[q] \in Spawning /\ run[q] = r
<1> USE SchedulerAssumption DEF IInv
<1>0. /\ run'[q] = r /\ pc'[q] \in Leasing
      /\ run[q] # r \/ pc[q] \notin Leasing
  BY DEF Lessees
<1>1. ASSUME NEW p \in Request, NEW m \in Model, NEW a, NEW pin, LeaseTo(p, m, a, pin)
      PROVE  \E n \in Model : runners[n] = r
  BY <1>0, <1>1 DEF LeaseTo, TypeOK
<1>2. ASSUME NEW p \in Request, Acquire(p) PROVE \E m \in Model : runners[m] = r
  <2>1. CASE LeaseLoaded(p)
    BY <1>1, <2>1 DEF LeaseLoaded
  <2>2. CASE Queue(p) \/ TakeLoadLock(p)
    BY <1>0, <2>2 DEF Queue, TakeLoadLock, TypeOK, Leasing, Thread
  <2>3. CASE Preload(p)
    BY <1>0, <1>1, <2>3 DEF Preload, TypeOK, Leasing, Thread
  <2>4. CASE LeaseAfterWait(p)
    BY <1>1, <2>4 DEF LeaseAfterWait, MemoryInv
  <2> QED BY <1>2, <2>1, <2>2, <2>3, <2>4 DEF Acquire
<1>3. ASSUME NEW p \in Request, Load(p) PROVE pc[q] \in Spawning /\ run[q] = r
  BY <1>0, <1>3 DEF Load, MakeRoom, Spawn, FallBackToCpu, LoadDone, LoadFails, TypeOK, Leasing, Spawning, Thread
<1>4. ASSUME NEW p \in Request, Use(p) \/ Stop(p) \/ DeleteDropped(p) PROVE FALSE
  BY <1>0, <1>4 DEF Use, Decide, Pin, StartClock, Unlease, Stop, DeleteDropped, TypeOK, Leasing, Thread
<1>5. ASSUME NEW t \in Thread, Unload(t) PROVE FALSE
  BY <1>0, <1>5 DEF Unload, UnloadTake, UnloadKill, AfterUnload, TypeOK, Leasing, Thread
<1>6. ASSUME Reap PROVE FALSE
  BY <1>0, <1>6 DEF Reap, ReapScan, ReapNext, ReapDead, Forget, TypeOK, Leasing, Thread
<1>7. ASSUME NEW s \in Runner, Expire(s) \/ Crash(s) PROVE FALSE
  BY <1>0, <1>7 DEF Expire, Crash
<1>8. ASSUME Shutdown PROVE FALSE
  BY <1>0, <1>8 DEF Shutdown
<1> QED BY <1>2, <1>3, <1>4, <1>5, <1>6, <1>7, <1>8 DEF Next

\* Whoever unloads a runner waits for fewer and fewer requests.
THEOREM DrainsShrink == Spec => NoNewLease
<1>1. ASSUME IInv, [Next]_vars
      PROVE  [\A t \in Thread : hold[t] # None /\ hold'[t] = hold[t] =>
                Lessees(hold[t])' \subseteq Lessees(hold[t])]_vars
  <2> SUFFICES ASSUME NEW t \in Thread, hold[t] # None, hold'[t] = hold[t], Next,
                      NEW q \in Lessees(hold[t])', q \notin Lessees(hold[t])
               PROVE  FALSE
    BY <1>1
  <2>1. hold[t] \in Runner /\ q \in Request
    BY <1>1 DEF IInv, TypeOK, Lessees
  <2>2. \/ \E m \in Model : runners[m] = hold[t]
        \/ pc[q] \in Spawning /\ run[q] = hold[t]
    BY <1>1, <2>1, NewLessee
  <2> QED BY <1>1, <2>1, <2>2 DEF IInv, OneOwner
<1> QED BY <1>1, Invariance, PTL DEF Spec, NoNewLease

-----------------------------------------------------------------------------
(***************************************************************************)
(* The scheduler implements Runners: a simulation, one lemma per action    *)
(***************************************************************************)

(* What Runners sees of a state *)

LEMMA Seen ==
    ASSUME IInv
    PROVE  /\ \A q \in Request : Leases[q] = IF pc[q] \in Leasing THEN run[q] ELSE None
           /\ \A q \in Request : pc[q] \in Leasing => run[q] \in Runner /\ run[q] # None
           /\ \A r \in Runner : InUse(r) => Held(r)
BY SchedulerAssumption DEF Leases, IInv, TypeOK, MemoryInv, InUse, Held, RunnerState

\* A step that only concerns runners nobody sees, and threads that neither load nor use.
LEMMA Unseen ==
    ASSUME UNCHANGED <<runners, LoadingModel, Leases, Models, down>>,
           \A r \in Runner : InUse(r) => runner'[r].proc = runner[r].proc
    PROVE  UNCHANGED Pool!vars
<1>1. \A r \in Runner : InUse(r)' <=> InUse(r)
  BY DEF InUse
<1>2. Procs' = Procs
  BY <1>1 DEF Procs
<1> QED BY <1>2 DEF Pool!vars

\* The model in loading is that of the request that spawns, which has the load lock.
LEMMA LoadingOf ==
    ASSUME IInv, NEW q \in Request, load_lock = q
    PROVE  LoadingModel = IF pc[q] \in Spawning THEN req[q].model ELSE None
BY SchedulerAssumption DEF LoadingModel, Thread

\* A thread that is not loading, before and after, does not change what is loading.
LEMMA LoadingSame ==
    ASSUME IInv, NEW q \in Thread, pc[q] \notin Spawning, UNCHANGED load_lock,
           NEW p, p \notin Spawning, pc' = [pc EXCEPT ![q] = p],
           \A u \in Request : u # q => req'[u] = req[u]
    PROVE  LoadingModel' = LoadingModel
BY DEF LoadingModel, IInv, TypeOK, Thread

\* Neither does such a thread change what is leased if it does not use a runner.
LEMMA LeasesSame ==
    ASSUME IInv, NEW q \in Thread, pc[q] \notin Leasing,
           NEW p, p \notin Leasing, pc' = [pc EXCEPT ![q] = p],
           \A u \in Request : u # q => run'[u] = run[u] /\ req'[u].model = req[u].model
    PROVE  UNCHANGED <<Leases, Models>>
<1>1. \A u \in Request : /\ u # q => pc'[u] = pc[u]
                         /\ u = q => pc[u] \notin Leasing /\ pc'[u] \notin Leasing
  BY DEF IInv, TypeOK, Thread
<1> QED BY <1>1 DEF Leases, Models

-----------------------------------------------------------------------------
(* Scheduler::acquire *)

LEMMA LeaseToSim ==
    ASSUME IInv, NEW q \in Request, NEW m \in Model, NEW a, NEW pin, LeaseTo(q, m, a, pin),
           pc[q] \in {"idle", "wait"}, UNCHANGED <<runners, load_lock, down>>
    PROVE  Pool!Lease(q, m)
<1> DEFINE r == runners[m]
<1>1. /\ r \in Runner /\ r # None /\ q \in Thread
      /\ pc[q] \notin Leasing \cup Spawning \cup Loading \cup Unloading /\ load_lock # q
  BY DEF LeaseTo, IInv, TypeOK, LockInv, Leasing, Spawning, Loading, Unloading, Thread
<1>2. /\ pc' = [pc EXCEPT ![q] = "leased"] /\ run' = [run EXCEPT ![q] = r]
      /\ req' = [req EXCEPT ![q] = Leased(m, LeaseKeep(a, runner[r].pinned), pin)]
      /\ runner' = [runner EXCEPT ![r].leases = @ + 1, ![r].expires = "none"]
  BY DEF LeaseTo
<1>3. "leased" \in Leasing /\ "leased" \notin Spawning
  BY DEF Leasing, Spawning
<1>4. LoadingModel' = LoadingModel
  BY <1>1, <1>2, <1>3, LoadingSame DEF IInv, TypeOK
<1>5. Leases[q] = None
  BY <1>1 DEF Leases
<1>6. Leases' = [Leases EXCEPT ![q] = r] /\ Models' = [Models EXCEPT ![q] = m]
  <2>1. \A u \in Request : /\ u # q => pc'[u] = pc[u] /\ run'[u] = run[u] /\ req'[u] = req[u]
                           /\ u = q => pc'[u] \in Leasing /\ run'[u] = r /\ req'[u].model = m
    BY <1>1, <1>2, <1>3 DEF IInv, TypeOK, Leased
  <2> QED BY <2>1 DEF Leases, Models
<1>7. Procs' = Procs
  <2>1. \A s \in Runner : InUse(s)' <=> InUse(s)
    <3>1. \A s \in Runner : (\E u \in Request : Leases'[u] = s) <=>
                                s = r \/ \E u \in Request : Leases[u] = s
      BY <1>1, <1>5, <1>6, SchedulerAssumption DEF Leases
    <3> QED BY <3>1 DEF InUse
  <2>2. \A s \in Runner : runner'[s].proc = runner[s].proc
    BY <1>1, <1>2 DEF IInv, TypeOK, RunnerState
  <2> QED BY <2>1, <2>2 DEF Procs
<1> QED BY <1>1, <1>4, <1>5, <1>6, <1>7 DEF Pool!Lease

LEMMA LeaseLoadedSim ==
    ASSUME IInv, NEW q \in Request, LeaseLoaded(q) PROVE \E m \in Model : Pool!Lease(q, m)
BY LeaseToSim DEF LeaseLoaded

LEMMA LeaseAfterWaitSim ==
    ASSUME IInv, NEW q \in Request, LeaseAfterWait(q) PROVE \E m \in Model : Pool!Lease(q, m)
<1>1. req[q].model \in Model
  BY DEF LeaseAfterWait, IInv, MemoryInv
<1> QED BY <1>1, LeaseToSim DEF LeaseAfterWait

\* Waiting is not seen.
LEMMA WaitSim ==
    ASSUME IInv, NEW q \in Request, pc[q] = "idle", pc' = [pc EXCEPT ![q] = "wait"],
           NEW v, req' = [req EXCEPT ![q] = v],
           UNCHANGED <<runners, runner, load_lock, run, down>>
    PROVE  UNCHANGED Pool!vars
<1>1. "wait" \notin Leasing \cup Spawning /\ pc[q] \notin Leasing \cup Spawning /\ q \in Thread
  BY DEF Leasing, Spawning, Thread
<1>2. \A u \in Request : u # q => req'[u] = req[u]
  BY DEF IInv, TypeOK
<1>3. UNCHANGED <<LoadingModel, Leases, Models>>
  BY <1>1, <1>2, LoadingSame, LeasesSame
<1> QED BY <1>3, Unseen

LEMMA QueueSim ==
    ASSUME IInv, NEW q \in Request, Queue(q) PROVE UNCHANGED Pool!vars
BY WaitSim DEF Queue

LEMMA PreloadSim ==
    ASSUME IInv, NEW q \in Request, Preload(q)
    PROVE  (\E m \in Model : Pool!Lease(q, m)) \/ UNCHANGED Pool!vars
<1>1. PICK m \in Preloaded :
        \/ LeaseTo(q, m, "forever", TRUE)
        \/ /\ req' = [req EXCEPT ![q] = Asked(m, "forever", TRUE)]
           /\ pc' = [pc EXCEPT ![q] = "wait"]
           /\ UNCHANGED <<runner, run>>
  BY DEF Preload
<1>2. m \in Model /\ pc[q] = "idle" /\ UNCHANGED <<runners, load_lock, down>>
  BY SchedulerAssumption DEF Preload
<1> QED BY <1>1, <1>2, LeaseToSim, WaitSim

\* Nor are the load lock and room being made.
LEMMA ThreadSim ==
    ASSUME IInv, NEW q \in Thread, pc[q] \notin Leasing \cup Spawning,
           NEW p, p \notin Leasing \cup Spawning, pc' = [pc EXCEPT ![q] = p],
           UNCHANGED <<runners, load_lock, req, run, down>>,
           \A r \in Runner : InUse(r) => runner'[r].proc = runner[r].proc
    PROVE  UNCHANGED Pool!vars
<1>1. UNCHANGED <<LoadingModel, Leases, Models>>
  BY LoadingSame, LeasesSame
<1> QED BY <1>1, Unseen

LEMMA TakeLoadLockSim ==
    ASSUME IInv, NEW q \in Request, TakeLoadLock(q) PROVE UNCHANGED Pool!vars
<1>1. "room" \notin Leasing \cup Spawning /\ pc[q] \notin Leasing \cup Spawning /\ q \in Thread
  BY DEF TakeLoadLock, Leasing, Spawning, Thread
<1>2. LoadingModel = None /\ LoadingModel' = None
  BY <1>1 DEF TakeLoadLock, LoadingModel, IInv, TypeOK
<1>3. UNCHANGED <<Leases, Models>>
  BY <1>1, LeasesSame DEF TakeLoadLock
<1> QED BY <1>2, <1>3, Unseen DEF TakeLoadLock

LEMMA MakeRoomSim ==
    ASSUME IInv, NEW q \in Request, MakeRoom(q) PROVE UNCHANGED Pool!vars
<1>1. /\ "spawn" \notin Leasing \cup Spawning /\ "take" \notin Leasing \cup Spawning
      /\ pc[q] \notin Leasing \cup Spawning /\ q \in Thread
  BY DEF MakeRoom, Leasing, Spawning, Thread
<1> QED BY <1>1, ThreadSim DEF MakeRoom

LEMMA SpawnSim ==
    ASSUME IInv, NEW q \in Request, Spawn(q) PROVE \E m \in Model : Pool!LoadStarts(m)
<1>1. PICK r \in Runner :
        /\ ~Held(r)
        /\ runner' = [runner EXCEPT ![r] = [Fresh EXCEPT !.proc = "loading"]]
        /\ run' = [run EXCEPT ![q] = r]
  BY DEF Spawn
<1>2. /\ pc[q] = "spawn" /\ pc' = [pc EXCEPT ![q] = "loading"] /\ load_lock = q
      /\ UNCHANGED <<runners, load_lock, req, down>>
  BY DEF Spawn, IInv, LockInv, Loading
<1>3. "loading" \in Spawning /\ "spawn" \notin Spawning \cup Leasing /\ "loading" \notin Leasing /\ q \in Thread
  BY DEF Spawning, Leasing, Thread
<1>4. req[q].model \in Model /\ runners[req[q].model] = None
  BY <1>2 DEF IInv, LockInv
<1>5. LoadingModel = None
  BY <1>2, <1>3, LoadingOf
<1>6. LoadingModel' = req[q].model
  BY <1>2, <1>3, SchedulerAssumption DEF LoadingModel, IInv, TypeOK, Thread
<1>7. UNCHANGED <<Leases, Models>>
  BY <1>1, <1>2, <1>3, LeasesSame DEF IInv, TypeOK
<1>8. \A s \in Runner : (InUse(s)' <=> InUse(s)) /\ (InUse(s) => s # r)
  BY <1>1, <1>2, <1>7, Seen DEF InUse
<1>9. Procs' = Procs
  BY <1>1, <1>8 DEF Procs, IInv, TypeOK
<1> QED BY <1>2, <1>4, <1>5, <1>6, <1>7, <1>9 DEF Pool!LoadStarts

\* A second launch goes on with the same load.
LEMMA FallBackToCpuSim ==
    ASSUME IInv, NEW q \in Request, FallBackToCpu(q) PROVE UNCHANGED Pool!vars
<1>1. /\ pc[q] \in Spawning /\ pc[q] \notin Leasing /\ q \in Thread
      /\ "loading_cpu" \in Spawning /\ "loading_cpu" \notin Leasing
  BY DEF FallBackToCpu, Spawning, Leasing, Thread
<1>2. load_lock = q
  BY <1>1 DEF IInv, LockInv, Loading
<1>3. LoadingModel' = LoadingModel
  BY <1>1, <1>2 DEF FallBackToCpu, LoadingModel, IInv, TypeOK
<1>4. UNCHANGED <<Leases, Models>>
  BY <1>1, LeasesSame DEF FallBackToCpu
<1> QED BY <1>3, <1>4, Unseen DEF FallBackToCpu

LEMMA LoadDoneSim ==
    ASSUME IInv, NEW q \in Request, LoadDone(q) PROVE \E r \in Runner : Pool!LoadDone(q, r)
<1>0. PICK r \in Runner, m \in Model : r = run[q] /\ m = req[q].model
  BY DEF LoadDone, IInv, TypeOK, LockInv, MemoryInv, Loading, Spawning
<1>1. /\ pc[q] \in Spawning /\ pc[q] \notin Leasing /\ q \in Thread /\ load_lock = q
      /\ runners[m] = None /\ r # None /\ m # None
  BY <1>0, SchedulerAssumption
     DEF LoadDone, IInv, TypeOK, LockInv, MemoryInv, Loading, Leasing, Spawning, Thread
<1>2. /\ runner' = [runner EXCEPT ![r].proc = "up", ![r].leases = @ + 1]
      /\ runners' = [runners EXCEPT ![m] = r]
      /\ req' = [req EXCEPT ![q] = Leased(m, LeaseKeep(req[q].ask, FALSE), req[q].pin)]
      /\ load_lock' = None /\ pc' = [pc EXCEPT ![q] = "leased"]
      /\ UNCHANGED <<run, down>>
  BY <1>0 DEF LoadDone
<1>3. LoadingModel = m /\ LoadingModel' = None
  BY <1>0, <1>1, <1>2, LoadingOf DEF LoadingModel
<1>4. Leases[q] = None /\ \A u \in Request : Leases[u] # r
  BY <1>0, <1>1 DEF Leases, IInv, OneOwner
<1>5. Leases' = [Leases EXCEPT ![q] = r] /\ Models' = [Models EXCEPT ![q] = m]
  <2>1. \A u \in Request : /\ u # q => pc'[u] = pc[u] /\ run'[u] = run[u] /\ req'[u] = req[u]
                           /\ u = q => pc'[u] \in Leasing /\ run'[u] = r /\ req'[u].model = m
    <3>1. \A u \in Request : u # q => pc'[u] = pc[u] /\ run'[u] = run[u] /\ req'[u] = req[u]
      BY <1>2 DEF IInv, TypeOK
    <3>2. pc'[q] = "leased" /\ run'[q] = r
      BY <1>0, <1>1, <1>2 DEF IInv, TypeOK
    <3>3. req'[q].model = m
      BY <1>2 DEF IInv, TypeOK, Leased
    <3> QED BY <3>1, <3>2, <3>3 DEF Leasing
  <2> QED BY <2>1 DEF Leases, Models
<1>6. ~Pool!Used(r)
  <2>1. \A n \in Model : runners[n] # r
    BY <1>0, <1>1 DEF IInv, OneOwner
  <2> QED BY <1>4, <2>1 DEF Pool!Used, Pool!Offered, Pool!Leased
<1>7. Procs' = [Procs EXCEPT ![r] = "up"]
  <2>1. \A u \in Runner : u # r => (InUse(u)' <=> InUse(u)) /\ runner'[u] = runner[u]
    <3>1. \A u \in Runner : u # r =>
            ((\E p \in Request : Leases'[p] = u) <=> (\E p \in Request : Leases[p] = u))
      <4>1. Leases \in [Request -> Runner \cup {None}]
        BY DEF Leases, IInv, TypeOK
      <4>2. \A p \in Request : Leases'[p] = IF p = q THEN r ELSE Leases[p]
        BY <1>5, <4>1
      <4>3. \A u \in Runner : u # None
        BY SchedulerAssumption
      <4> QED BY <1>4, <4>2, <4>3
    <3>2. \A u \in Runner : u # r =>
            ((\E n \in Model : runners'[n] = u) <=> (\E n \in Model : runners[n] = u))
      BY <1>1, <1>2, SchedulerAssumption DEF IInv, TypeOK
    <3> QED BY <1>2, <3>1, <3>2 DEF InUse, IInv, TypeOK
  <2>2. \E n \in Model : runners'[n] = r
    BY <1>1, <1>2 DEF IInv, TypeOK
  <2>3. runner'[r].proc = "up"
    BY <1>1, <1>2 DEF IInv, TypeOK, RunnerState
  <2>4. \A u \in Runner : Procs'[u] = IF u = r THEN "up" ELSE Procs[u]
    <3>1. InUse(r)'
      BY <2>2 DEF InUse
    <3> QED BY <2>1, <2>3, <3>1 DEF Procs
  <2> QED BY <2>4 DEF Procs
<1>8. Pool!LoadDone(q, r)
  BY <1>1, <1>2, <1>3, <1>4, <1>5, <1>6, <1>7 DEF Pool!LoadDone
<1> QED BY <1>8

LEMMA LoadFailsSim ==
    ASSUME IInv, NEW q \in Request, LoadFails(q) PROVE Pool!LoadFails
<1>1. /\ pc[q] \in Spawning /\ pc[q] \notin Leasing /\ q \in Thread /\ load_lock = q
      /\ req[q].model \in Model /\ req[q].model # None
      /\ "idle" \notin Leasing
  BY SchedulerAssumption
     DEF LoadFails, IInv, TypeOK, LockInv, MemoryInv, Loading, Leasing, Spawning, Thread
<1>2. LoadingModel # None /\ LoadingModel' = None
  BY <1>1, LoadingOf DEF LoadingModel, LoadFails
<1>3. UNCHANGED <<Leases, Models>>
  BY <1>1, LeasesSame DEF LoadFails, IInv, TypeOK
<1>4. \A r \in Runner : (InUse(r)' <=> InUse(r)) /\ (InUse(r) => runner'[r] = runner[r])
  <2>1. \A r \in Runner : InUse(r)' <=> InUse(r)
    BY <1>3 DEF LoadFails, InUse
  <2>2. \A r \in Runner : InUse(r) => Held(r)'
    <3>1. \A u \in Request : pc'[u] \in Leasing => run'[u] = run[u] /\ pc[u] \in Leasing
      BY <1>1 DEF LoadFails, IInv, TypeOK
    <3>2. \A u \in Request : Leases[u] # None => run'[u] = Leases[u]
      BY <1>1, <3>1 DEF Leases, LoadFails, IInv, TypeOK
    <3> QED BY <3>2, SchedulerAssumption DEF InUse, Held, LoadFails
  <2> QED BY <2>1, <2>2 DEF LoadFails, DropUnheld
<1>5. Procs' = Procs
  BY <1>4 DEF Procs
<1> QED BY <1>2, <1>3, <1>5 DEF Pool!LoadFails, LoadFails

-----------------------------------------------------------------------------
(* A lease in use, and Lease::drop *)

\* Using a runner is not seen.
LEMMA UseSim ==
    ASSUME IInv, NEW q \in Request, pc[q] \in Leasing,
           NEW p, p \in Leasing, pc' = [pc EXCEPT ![q] = p],
           UNCHANGED <<runners, load_lock, req, run, down>>,
           \A r \in Runner : runner'[r].proc = runner[r].proc
    PROVE  UNCHANGED Pool!vars
<1>1. pc[q] \notin Spawning /\ p \notin Spawning /\ q \in Thread
  BY DEF Leasing, Spawning, Thread
<1>2. UNCHANGED <<Leases, Models>>
  BY <1>1 DEF Leases, Models, IInv, TypeOK
<1>3. LoadingModel' = LoadingModel
  BY <1>1, LoadingSame
<1> QED BY <1>2, <1>3, Unseen

LEMMA DecideSim ==
    ASSUME IInv, NEW q \in Request, Decide(q) PROVE UNCHANGED Pool!vars
<1>1. pc[q] \in Leasing /\ "release" \in Leasing
  BY DEF Decide, Leasing
<1> QED BY <1>1, UseSim DEF Decide

LEMMA PinSim ==
    ASSUME IInv, NEW q \in Request, Pin(q) PROVE UNCHANGED Pool!vars
<1>1. pc[q] \in Leasing /\ "release" \in Leasing
  BY DEF Pin, Leasing
<1>2. \A r \in Runner : runner'[r].proc = runner[r].proc
  BY <1>1, Seen DEF Pin, IInv, TypeOK, RunnerState
<1> QED BY <1>1, <1>2, UseSim DEF Pin

LEMMA StartClockSim ==
    ASSUME IInv, NEW q \in Request, StartClock(q) PROVE UNCHANGED Pool!vars
<1>1. pc[q] \in Leasing /\ "unlease" \in Leasing
  BY DEF StartClock, Leasing
<1>2. \A r \in Runner : runner'[r].proc = runner[r].proc
  <2>1. run[q] \in Runner
    BY <1>1, Seen
  <2>2. CASE req[q].keep = "forever"
    BY <2>1, <2>2 DEF StartClock, IInv, TypeOK, RunnerState
  <2>3. CASE req[q].keep # "forever"
    BY <2>1, <2>3 DEF StartClock, IInv, TypeOK, RunnerState
  <2> QED BY <2>2, <2>3
<1> QED BY <1>1, <1>2, UseSim DEF StartClock

LEMMA UnleaseSim ==
    ASSUME IInv, NEW q \in Request, Unlease(q) PROVE Pool!Return(q)
<1>1. /\ pc[q] \in Leasing /\ pc[q] \notin Spawning /\ q \in Thread
      /\ "idle" \notin Leasing \cup Spawning /\ run[q] \in Runner /\ run[q] # None
  BY Seen DEF Unlease, Leasing, Spawning, Thread
<1>2. /\ run' = [run EXCEPT ![q] = None] /\ req' = [req EXCEPT ![q] = NoRequest]
      /\ pc' = [pc EXCEPT ![q] = "idle"] /\ UNCHANGED <<runners, load_lock, hold, down>>
      /\ runner' = DropUnheld([runner EXCEPT ![run[q]].leases = @ - 1])
  BY DEF Unlease
<1>3. LoadingModel' = LoadingModel
  BY <1>1, <1>2, LoadingSame DEF IInv, TypeOK
<1>4. Leases[q] # None /\ Leases' = [Leases EXCEPT ![q] = None] /\ Models' = [Models EXCEPT ![q] = None]
  <2>1. \A u \in Request : /\ u # q => pc'[u] = pc[u] /\ run'[u] = run[u] /\ req'[u] = req[u]
                           /\ u = q => pc'[u] \notin Leasing
    BY <1>1, <1>2 DEF IInv, TypeOK
  <2> QED BY <1>1, <2>1 DEF Leases, Models
<1>5. \A r \in Runner : /\ InUse(r)' => InUse(r) /\ Held(r)'
                        /\ InUse(r)' => runner'[r].proc = runner[r].proc
  <2>1. \A r \in Runner : InUse(r)' => InUse(r)
    BY <1>2, <1>4, SchedulerAssumption DEF InUse, Leases
  <2>2. \A r \in Runner : InUse(r)' => Held(r)'
    <3>1. \A u \in Request : Leases'[u] # None => run'[u] = Leases'[u]
      BY DEF Leases
    <3> QED BY <3>1, SchedulerAssumption DEF InUse, Held
  <2>3. \A r \in Runner : [runner EXCEPT ![run[q]].leases = @ - 1][r].proc = runner[r].proc
    BY <1>1 DEF IInv, TypeOK, RunnerState
  <2> QED BY <1>2, <2>1, <2>2, <2>3 DEF DropUnheld
<1>6. Procs' = Pool!KeepUsed(Procs)
  BY <1>5 DEF Procs, Pool!KeepUsed, Pool!Used, Pool!Offered, Pool!Leased, InUse
<1> QED BY <1>2, <1>3, <1>4, <1>6 DEF Pool!Return

-----------------------------------------------------------------------------
(* Scheduler::unload, and the reaper *)

\* What leaves the map is offered no more, and lost if nobody uses it.
LEMMA WithdrawSim ==
    ASSUME IInv, NEW m \in Model, runners[m] # None, runners' = [runners EXCEPT ![m] = None],
           UNCHANGED <<LoadingModel, Leases, Models, down>>,
           \A r \in Runner : InUse(r)' => runner'[r].proc = runner[r].proc
    PROVE  Pool!Withdraw(m)
<1>1. \A r \in Runner : InUse(r)' => InUse(r)
  BY SchedulerAssumption DEF InUse, IInv, TypeOK
<1>2. Procs' = Pool!KeepUsed(Procs)
  BY <1>1 DEF Procs, Pool!KeepUsed, Pool!Used, Pool!Offered, Pool!Leased, InUse
<1> QED BY <1>2 DEF Pool!Withdraw

LEMMA StopSim ==
    ASSUME IInv, NEW q \in Request, Stop(q) PROVE UNCHANGED Pool!vars
<1>1. "take" \notin Leasing \cup Spawning /\ pc[q] \notin Leasing \cup Spawning /\ q \in Thread
  BY DEF Stop, Leasing, Spawning, Thread
<1> QED BY <1>1, ThreadSim DEF Stop

LEMMA UnloadTakeSim ==
    ASSUME IInv, NEW t \in Thread, UnloadTake(t)
    PROVE  (\E m \in Model : Pool!Withdraw(m)) \/ UNCHANGED Pool!vars
<1>1. PICK m \in Model : m = tgt[t]
  BY DEF UnloadTake, IInv, MemoryInv
<1>2. PICK p \in {"drain", "spawn", "reap", "idle"} : pc' = [pc EXCEPT ![t] = p]
  <2>1. AfterUnload(t) \in {"spawn", "reap", "idle"}
    BY DEF AfterUnload
  <2> QED BY <2>1 DEF UnloadTake
<1>3. pc[t] \notin Leasing \cup Spawning /\ p \notin Leasing \cup Spawning
  BY DEF UnloadTake, Leasing, Spawning
<1>4. runners' = [runners EXCEPT ![m] = None] /\ UNCHANGED <<runner, load_lock, req, run, down>>
  BY <1>1 DEF UnloadTake
<1>5. CASE runners[m] = None
  <2>1. runners' = runners
    BY <1>4, <1>5 DEF IInv, TypeOK
  <2> QED BY <1>2, <1>3, <1>4, <2>1, ThreadSim
<1>6. CASE runners[m] # None
  <2>1. UNCHANGED <<LoadingModel, Leases, Models>>
    BY <1>2, <1>3, <1>4, LoadingSame, LeasesSame
  <2> QED BY <1>4, <1>6, <2>1, WithdrawSim
<1> QED BY <1>5, <1>6

\* The runner that a thread holds to unload it, once idle, is seen by nobody.
LEMMA UnloadKillSim ==
    ASSUME IInv, NEW t \in Thread, UnloadKill(t) PROVE UNCHANGED Pool!vars
<1>1. PICK r \in Runner : r = hold[t]
  BY DEF UnloadKill, IInv, MemoryInv, TypeOK
<1>2. PICK p \in {"spawn", "reap", "idle"} : pc' = [pc EXCEPT ![t] = p]
  <2>1. AfterUnload(t) \in {"spawn", "reap", "idle"}
    BY DEF AfterUnload
  <2> QED BY <2>1 DEF UnloadKill
<1>3. pc[t] \notin Leasing \cup Spawning /\ p \notin Leasing \cup Spawning
  BY DEF UnloadKill, Leasing, Spawning
<1>4. ~InUse(r)
  <2>1. Lessees(r) = {}
    BY <1>1, IdleUnused DEF UnloadKill, IInv
  <2>2. \A m \in Model : runners[m] # r
    BY <1>1, SchedulerAssumption DEF IInv, OneOwner
  <2> QED BY <2>1, <2>2, SchedulerAssumption DEF InUse, Leases, Lessees
<1>5. \A s \in Runner : InUse(s) => runner'[s].proc = runner[s].proc
  BY <1>1, <1>4 DEF UnloadKill, IInv, TypeOK
<1> QED BY <1>2, <1>3, <1>5, ThreadSim DEF UnloadKill

LEMMA DeleteDroppedSim ==
    ASSUME IInv, NEW q \in Request, DeleteDropped(q) PROVE UNCHANGED Pool!vars
<1>1. "idle" \notin Leasing \cup Spawning /\ pc[q] \notin Leasing \cup Spawning /\ q \in Thread
  BY DEF DeleteDropped, Leasing, Spawning, Thread
<1>2. \A r \in Runner : InUse(r) => runner'[r] = runner[r]
  <2>1. \A r \in Runner : InUse(r) => Held(r)'
    BY SchedulerAssumption DEF InUse, Held, Leases, DeleteDropped
  <2> QED BY <2>1 DEF DeleteDropped, DropUnheld
<1> QED BY <1>1, <1>2, ThreadSim DEF DeleteDropped

LEMMA ReapScanSim ==
    ASSUME IInv, ReapScan \/ ReapNext \/ ReapDead PROVE UNCHANGED Pool!vars
<1>1. PICK p \in {"reap", "take", "scan", "forget"} : pc' = [pc EXCEPT ![Reaper] = p]
  BY DEF ReapScan, ReapNext, ReapDead
<1>2. pc[Reaper] \notin Leasing \cup Spawning /\ p \notin Leasing \cup Spawning /\ Reaper \in Thread
  BY DEF ReapScan, ReapNext, ReapDead, Leasing, Spawning, Thread
<1>3. UNCHANGED <<runners, runner, load_lock, req, run, down>>
  BY DEF ReapScan, ReapNext, ReapDead
<1> QED BY <1>1, <1>2, <1>3, ThreadSim

\* Forgetting drops the reference of the map alone: who leases the runner keeps it.
LEMMA ForgetSim ==
    ASSUME IInv, Forget
    PROVE  (\E m \in Model : Pool!Withdraw(m)) \/ UNCHANGED Pool!vars
<1>1. PICK m \in Model : runners' = [runners EXCEPT ![m] = None]
  BY DEF Forget, IInv, TypeOK
<1>2. PICK p \in {"scan", "forget"} : pc' = [pc EXCEPT ![Reaper] = p]
  BY DEF Forget
<1>3. pc[Reaper] \notin Leasing \cup Spawning /\ p \notin Leasing \cup Spawning /\ Reaper \in Thread
  BY DEF Forget, Leasing, Spawning, Thread
<1>4. UNCHANGED <<load_lock, req, run, hold, down>> /\ runner' = DropUnheld(runner)
  BY DEF Forget
<1>5. UNCHANGED <<LoadingModel, Leases, Models>>
  BY <1>2, <1>3, <1>4, LoadingSame, LeasesSame
<1>6. \A r \in Runner : InUse(r)' => runner'[r] = runner[r]
  <2>1. \A r \in Runner : InUse(r)' => Held(r)'
    <3>1. \A u \in Request : Leases'[u] # None => run'[u] = Leases'[u]
      BY DEF Leases
    <3> QED BY <3>1, SchedulerAssumption DEF InUse, Held
  <2> QED BY <1>4, <2>1 DEF DropUnheld
<1>7. CASE runners[m] = None
  <2>1. runners' = runners
    BY <1>1, <1>7 DEF IInv, TypeOK
  <2>2. \A r \in Runner : InUse(r)' <=> InUse(r)
    BY <1>5, <2>1 DEF InUse
  <2> QED BY <1>4, <1>5, <1>6, <2>1, <2>2, Unseen
<1>8. CASE runners[m] # None
  BY <1>1, <1>4, <1>5, <1>6, <1>8, WithdrawSim
<1> QED BY <1>7, <1>8

-----------------------------------------------------------------------------
(* The environment, and the end of the daemon *)

LEMMA ExpireSim ==
    ASSUME IInv, NEW r \in Runner, Expire(r) PROVE UNCHANGED Pool!vars
<1>1. UNCHANGED <<LoadingModel, Leases, Models>>
  BY DEF Expire, LoadingModel, Leases, Models
<1>2. \A s \in Runner : runner'[s].proc = runner[s].proc
  BY DEF Expire, IInv, TypeOK, RunnerState
<1> QED BY <1>1, <1>2, Unseen DEF Expire

LEMMA CrashSim ==
    ASSUME IInv, NEW r \in Runner, Crash(r) PROVE Pool!Exit(r) \/ UNCHANGED Pool!vars
<1>1. UNCHANGED <<LoadingModel, Leases, Models, runners, down>>
  BY DEF Crash, LoadingModel, Leases, Models
<1>2. /\ runner[r].proc = "up" /\ runner'[r].proc = "exited"
      /\ \A s \in Runner : s # r => runner'[s].proc = runner[s].proc
  BY DEF Crash, IInv, TypeOK, RunnerState
<1>3. CASE InUse(r)
  <2>1. \A s \in Runner : InUse(s)' <=> InUse(s)
    BY <1>1 DEF InUse
  <2>2. Procs[r] = "up" /\ Procs' = [Procs EXCEPT ![r] = "exited"]
    BY <1>2, <1>3, <2>1 DEF Procs
  <2> QED BY <1>1, <2>2 DEF Pool!Exit
<1>4. CASE ~InUse(r)
  BY <1>1, <1>2, <1>4, Unseen
<1> QED BY <1>3, <1>4

LEMMA ShutdownSim == ASSUME IInv, Shutdown PROVE Pool!ShutDown
<1> DEFINE f == [r \in Runner |-> IF \E m \in Model : runners[m] = r
                                 THEN [runner[r] EXCEPT !.proc = "killed"] ELSE runner[r]]
<1>1. UNCHANGED <<LoadingModel, Leases, Models>>
  BY DEF Shutdown, LoadingModel, Leases, Models
<1>2. \A r \in Runner : InUse(r)' => InUse(r)
  BY <1>1, SchedulerAssumption DEF Shutdown, InUse
<1>3. \A r \in Runner : InUse(r)' => runner'[r] = f[r]
  <2>1. \A r \in Runner : InUse(r)' => Held(r)'
    <3>1. \A u \in Request : Leases'[u] # None => run'[u] = Leases'[u]
      BY DEF Leases
    <3> QED BY <3>1, SchedulerAssumption DEF InUse, Held
  <2>2. runner' = DropUnheld(f)
    BY DEF Shutdown
  <2> HIDE DEF f
  <2> QED BY <2>1, <2>2 DEF DropUnheld
<1>4. \A r \in Runner : f[r].proc = IF Pool!Offered(r) THEN "killed" ELSE runner[r].proc
  BY DEF Pool!Offered, IInv, TypeOK, RunnerState
<1> HIDE DEF f
<1>5. Procs' = Pool!KeepUsed([r \in Runner |-> IF Pool!Offered(r) THEN "killed" ELSE Procs[r]])
  <2>1. \A r \in Runner : InUse(r)' <=> Pool!Used(r)'
    BY DEF InUse, Pool!Used, Pool!Offered, Pool!Leased
  <2>2. \A r \in Runner : InUse(r)' => Procs[r] = runner[r].proc /\ Procs'[r] = f[r].proc
    BY <1>2, <1>3 DEF Procs
  <2>3. \A r \in Runner : ~InUse(r)' => Procs'[r] = "none"
    BY DEF Procs
  <2>4. \A r \in Runner : Procs'[r] =
          IF Pool!Used(r)' THEN (IF Pool!Offered(r) THEN "killed" ELSE Procs[r]) ELSE "none"
    BY <1>4, <2>1, <2>2, <2>3
  <2> QED BY <2>4 DEF Procs, Pool!KeepUsed
<1> QED BY <1>1, <1>5 DEF Shutdown, Pool!ShutDown

-----------------------------------------------------------------------------
(* The simulation *)

LEMMA InitSim == ASSUME Init PROVE Pool!Init
<1>1. LoadingModel = None
  BY DEF Init, LoadingModel
<1>2. \A q \in Request : pc[q] \notin Leasing
  BY SchedulerAssumption DEF Init, Leasing, Thread
<1>3. Leases = [q \in Request |-> None] /\ Models = [q \in Request |-> None]
  BY <1>2 DEF Leases, Models
<1>4. \A r \in Runner : ~InUse(r)
  BY <1>3, SchedulerAssumption DEF Init, InUse
<1>5. Procs = [r \in Runner |-> "none"]
  BY <1>4 DEF Procs
<1> QED BY <1>1, <1>3, <1>5 DEF Init, Pool!Init

LEMMA StepSim == ASSUME IInv, [Next]_vars PROVE [Pool!Next]_(Pool!vars)
<1>1. ASSUME NEW q \in Request, Acquire(q) PROVE [Pool!Next]_(Pool!vars)
  BY <1>1, LeaseLoadedSim, QueueSim, PreloadSim, LeaseAfterWaitSim, TakeLoadLockSim
     DEF Acquire, Pool!Next
<1>2. ASSUME NEW q \in Request, Load(q) PROVE [Pool!Next]_(Pool!vars)
  BY <1>2, MakeRoomSim, SpawnSim, FallBackToCpuSim, LoadDoneSim, LoadFailsSim
     DEF Load, Pool!Next
<1>3. ASSUME NEW q \in Request, Use(q) PROVE [Pool!Next]_(Pool!vars)
  BY <1>3, DecideSim, PinSim, StartClockSim, UnleaseSim DEF Use, Pool!Next
<1>4. ASSUME NEW q \in Request, Stop(q) \/ DeleteDropped(q) PROVE [Pool!Next]_(Pool!vars)
  BY <1>4, StopSim, DeleteDroppedSim
<1>5. ASSUME NEW t \in Thread, Unload(t) PROVE [Pool!Next]_(Pool!vars)
  BY <1>5, UnloadTakeSim, UnloadKillSim DEF Unload, Pool!Next
<1>6. ASSUME Reap PROVE [Pool!Next]_(Pool!vars)
  BY <1>6, ReapScanSim, ForgetSim DEF Reap, Pool!Next
<1>7. ASSUME NEW r \in Runner, Expire(r) \/ Crash(r) PROVE [Pool!Next]_(Pool!vars)
  BY <1>7, ExpireSim, CrashSim DEF Pool!Next
<1>8. ASSUME Shutdown PROVE [Pool!Next]_(Pool!vars)
  BY <1>8, ShutdownSim DEF Pool!Next
<1>9. ASSUME UNCHANGED vars PROVE [Pool!Next]_(Pool!vars)
  <2>1. UNCHANGED Pool!vars
    BY <1>9 DEF vars, Pool!vars, LoadingModel, Leases, Models, Procs, InUse
  <2> QED BY <2>1
<1> QED BY <1>1, <1>2, <1>3, <1>4, <1>5, <1>6, <1>7, <1>8, <1>9 DEF Next

\* The scheduler keeps the promises of Runners: a request only uses a runner of its model,
\* which no unload ends, and models are loaded one at a time and never twice.
THEOREM SchedulerImplements == Spec => Implements
<1>1. Init => Pool!Init
  BY InitSim
<1>2. IInv /\ [Next]_vars => [Pool!Next]_(Pool!vars)
  BY StepSim
<1> QED BY Invariance, <1>1, <1>2, PTL DEF Spec, Implements, Pool!Spec

-----------------------------------------------------------------------------
(* What is proved of Runners holds of the scheduler *)

Proved == INSTANCE RunnersProofs WITH
    offer   <- runners,
    loading <- LoadingModel,
    lease   <- Leases,
    model   <- Models,
    proc    <- Procs

LEMMA SameSpec == Pool!Spec => Proved!Spec
<1>1. Pool!Init => Proved!Init
  BY DEF Pool!Init, Proved!Init
<1>2. [Pool!Next]_(Pool!vars) => [Proved!Next]_(Proved!vars)
  BY Zenon DEF Pool!Next, Proved!Next, Pool!vars, Proved!vars, Pool!LoadStarts, Proved!LoadStarts,
     Pool!LoadFails, Proved!LoadFails, Pool!LoadDone, Proved!LoadDone, Pool!Lease, Proved!Lease,
     Pool!Return, Proved!Return, Pool!Withdraw, Proved!Withdraw, Pool!Exit, Proved!Exit,
     Pool!ShutDown, Proved!ShutDown, Pool!Used, Proved!Used, Pool!Offered, Proved!Offered,
     Pool!Leased, Proved!Leased, Pool!KeepUsed, Proved!KeepUsed
<1> QED BY <1>1, <1>2, PTL DEF Pool!Spec, Proved!Spec

\* A request only ever uses a runner of the model it asked for, and two requests on one
\* runner ask for the same model, through every eviction, reload and cancelled delete.
THEOREM RightRunner == Spec => []Pool!RightModel
<1>1. Proved!RightModel => Pool!RightModel
  BY DEF Proved!RightModel, Pool!RightModel
<1> QED BY <1>1, SchedulerImplements, SameSpec, Proved!LeasesRightModel, PTL DEF Implements

\* The process of a runner that a request uses runs, or has exited by itself, until the
\* daemon goes down.
THEOREM RunnerStays == Spec => []Pool!LeasedRuns
<1>1. Proved!LeasedRuns => Pool!LeasedRuns
  BY DEF Proved!LeasedRuns, Pool!LeasedRuns
<1> QED BY <1>1, SchedulerImplements, SameSpec, Proved!LeasedAlwaysRuns, PTL DEF Implements
=============================================================================
