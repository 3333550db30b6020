----------------------------- MODULE Scheduler -----------------------------
(***************************************************************************)
(* The runner scheduler: one child process per loaded model.               *)
(*                                                                         *)
(* Requests lease a runner and load it when it is not there; every lease   *)
(* that ends restarts the runner's keep-alive clock; a reaper unloads the  *)
(* runners whose clock ran out and forgets the ones that died.  The map of *)
(* runners is guarded by a mutex that is never held across a wait, so each *)
(* critical section is one action; what a thread read in one section and   *)
(* uses in a later one is part of the state (tgt, hold, expired, dead).    *)
(*                                                                         *)
(* Time is abstracted to whether a runner's deadline is set and has        *)
(* passed; which idle runner is the least recently used is kept exactly.   *)
(***************************************************************************)
EXTENDS Integers, FiniteSets

CONSTANTS
    Model,            \* manifest digests, the keys of the runner map
    Request,          \* tasks that serve a request
    Runner,           \* identities of runner objects, reused once dropped
    Reaper,           \* the reaper task
    None,             \* no runner, no model, no task
    MaxLoaded,        \* OLLAYA_MAX_LOADED_MODELS
    DefaultKeepAlive, \* OLLAYA_KEEP_ALIVE: "for" (a duration) or "forever"
    Asks,             \* the keep_alive values requests bring, "default" for none
    Preloaded,        \* OLLAYA_PRELOAD: models a task pins right after start
    GpuThenCpu        \* models whose launch plan retries a failed load on the CPU

KeepAlive == {"for", "forever"}
Thread == Request \cup {Reaper}

ASSUME SchedulerAssumption ==
    /\ IsFiniteSet(Request)
    /\ Reaper \notin Request
    /\ None \notin Model \cup Runner \cup Thread
    /\ MaxLoaded \in Nat
    /\ DefaultKeepAlive \in KeepAlive
    /\ Asks \subseteq KeepAlive \cup {"default"}
    /\ Preloaded \cup GpuThenCpu \subseteq Model

VARIABLES
    runners,    \* the runner map: the runner of each loaded model
    runner,     \* what each runner object holds
    older,      \* pairs <<m, n>>: the runner of m was last used before that of n
    load_lock,  \* the request holding the load lock
    pc,         \* where each thread is
    req,        \* what each request asked for, and the keep_alive of its lease
    run,        \* the runner a request leases, or is loading
    tgt,        \* the digest a thread is about to unload
    hold,       \* the runner a thread took out of the map to unload
    expired,    \* digests the reaper found expired and has not unloaded yet
    dead,       \* digests the reaper found exited and has not forgotten yet
    down        \* Scheduler::shutdown has run

reapVars == <<expired, dead>>
vars == <<runners, runner, older, load_lock, pc, req, run, tgt, hold, expired,
          dead, down>>

-----------------------------------------------------------------------------
(* States of a thread.  Loading: between taking the load lock and having a *)
(* runner.  Leasing: between counting a lease and giving it back.          *)

Spawning == {"loading", "loading_cpu"}
Loading  == {"room", "spawn"} \cup Spawning
Leasing  == {"leased", "release", "unlease"}
Unloading == {"take", "drain"}

RequestPC == {"idle", "wait"} \cup Loading \cup Leasing \cup Unloading
ReaperPC  == {"scan", "reap", "forget"} \cup Unloading

\* A runner object: its process, the lease counter, its deadline, the two flags.
RunnerState ==
    [proc    : {"none", "loading", "up", "exited", "killed"},
     leases  : Nat,
     expires : {"none", "set", "due"},
     forever : BOOLEAN,
     pinned  : BOOLEAN]

Fresh == [proc |-> "none", leases |-> 0, expires |-> "none",
          forever |-> FALSE, pinned |-> FALSE]

\* A request: the model, the keep_alive it brought ("default": none), the one its
\* lease will apply, and whether it is an OLLAYA_PRELOAD load.
RequestState ==
    [model : Model \cup {None}, ask : KeepAlive \cup {"default"},
     keep : KeepAlive, pin : BOOLEAN]

NoRequest == [model |-> None, ask |-> "default", keep |-> "for", pin |-> FALSE]

TypeOK ==
    /\ runners \in [Model -> Runner \cup {None}]
    /\ runner \in [Runner -> RunnerState]
    /\ older \subseteq Model \X Model
    /\ load_lock \in Request \cup {None}
    /\ pc \in [Thread -> RequestPC \cup ReaperPC]
    /\ pc[Reaper] \in ReaperPC
    /\ \A q \in Request : pc[q] \in RequestPC
    /\ req \in [Request -> RequestState]
    /\ run \in [Request -> Runner \cup {None}]
    /\ tgt \in [Thread -> Model \cup {None}]
    /\ hold \in [Thread -> Runner \cup {None}]
    /\ expired \subseteq Model
    /\ dead \subseteq Model
    /\ down \in BOOLEAN

Init ==
    /\ runners = [m \in Model |-> None]
    /\ runner = [r \in Runner |-> Fresh]
    /\ older = {}
    /\ load_lock = None
    /\ pc = [t \in Thread |-> IF t = Reaper THEN "scan" ELSE "idle"]
    /\ req = [q \in Request |-> NoRequest]
    /\ run = [q \in Request |-> None]
    /\ tgt = [t \in Thread |-> None]
    /\ hold = [t \in Thread |-> None]
    /\ expired = {}
    /\ dead = {}
    /\ down = FALSE

-----------------------------------------------------------------------------
(* Helpers *)

Loaded == {m \in Model : runners[m] # None}
Idle(r) == runner[r].leases = 0
Lessees(r) == {q \in Request : run[q] = r /\ pc[q] \in Leasing}

\* Somebody still has a reference to the runner object.
Held(r) ==
    \/ \E m \in Model : runners[m] = r
    \/ \E q \in Request : run[q] = r
    \/ \E t \in Thread : hold[t] = r

\* Dropping the last reference drops the child, which kill_on_drop kills.
DropUnheld(f) == [r \in Runner |-> IF Held(r)' THEN f[r] ELSE Fresh]

\* The keep_alive a lease will apply, decided when the lease is taken.
LeaseKeep(a, pinned) ==
    IF a # "default" THEN a ELSE IF pinned THEN "forever" ELSE DefaultKeepAlive

\* The model m is now the most recently used one.
Touch(m) == {p \in older : p[1] # m} \cup ((Loaded \ {m}) \X {m})

\* last_used goes with the runner that leaves the map.
Forgotten(m) == {p \in older : m \notin {p[1], p[2]}}

Asked(m, a, pin) == [model |-> m, ask |-> a, keep |-> "for", pin |-> pin]
Leased(m, k, pin) == [model |-> m, ask |-> "default", keep |-> k, pin |-> pin]

\* Lease the runner loaded for model m to request q, in the map's critical section.
LeaseTo(q, m, a, pin) ==
    LET r == runners[m] IN
    /\ runners[m] # None
    /\ runner' = [runner EXCEPT ![r].leases = @ + 1, ![r].expires = "none"]
    /\ run' = [run EXCEPT ![q] = r]
    /\ req' = [req EXCEPT ![q] = Leased(m, LeaseKeep(a, runner[r].pinned), pin)]
    /\ pc' = [pc EXCEPT ![q] = "leased"]

\* Where a thread goes on once its unload is over: the loader that made room
\* spawns, the reaper takes its next digest, an unload request is done.
AfterUnload(t) ==
    CASE t = Reaper    -> "reap"
      [] t = load_lock -> "spawn"
      [] OTHER         -> "idle"

-----------------------------------------------------------------------------
(* Scheduler::acquire *)

\* The runner is loaded: no lock but the map's is needed.
LeaseLoaded(q) ==
    /\ pc[q] = "idle" /\ ~down
    /\ \E m \in Model, a \in Asks : LeaseTo(q, m, a, FALSE)
    /\ UNCHANGED <<runners, older, load_lock, tgt, hold, reapVars, down>>

\* It is not: queue for the load lock.
Queue(q) ==
    /\ pc[q] = "idle" /\ ~down
    /\ \E m \in Model, a \in Asks :
          /\ runners[m] = None
          /\ req' = [req EXCEPT ![q] = Asked(m, a, FALSE)]
    /\ pc' = [pc EXCEPT ![q] = "wait"]
    /\ UNCHANGED <<runners, runner, older, load_lock, run, tgt, hold, reapVars, down>>

\* A preload task: keep_alive -1, and the runner is pinned once leased.
Preload(q) ==
    /\ pc[q] = "idle" /\ ~down
    /\ \E m \in Preloaded :
          \/ LeaseTo(q, m, "forever", TRUE)
          \/ /\ runners[m] = None
             /\ req' = [req EXCEPT ![q] = Asked(m, "forever", TRUE)]
             /\ pc' = [pc EXCEPT ![q] = "wait"]
             /\ UNCHANGED <<runner, run>>
    /\ UNCHANGED <<runners, older, load_lock, tgt, hold, reapVars, down>>

\* Behind the lock, the model turns out to have been loaded meanwhile.
LeaseAfterWait(q) ==
    /\ pc[q] = "wait" /\ load_lock = None
    /\ LeaseTo(q, req[q].model, req[q].ask, req[q].pin)
    /\ UNCHANGED <<runners, older, load_lock, tgt, hold, reapVars, down>>

\* Fault: behind the lock, the map is not read again.
TakeLoadLockBlind(q) ==
    /\ pc[q] = "wait" /\ load_lock = None
    /\ load_lock' = q
    /\ pc' = [pc EXCEPT ![q] = "room"]
    /\ UNCHANGED <<runners, runner, older, req, run, tgt, hold, reapVars, down>>

TakeLoadLock(q) ==
    /\ pc[q] = "wait" /\ load_lock = None
    /\ runners[req[q].model] = None
    /\ load_lock' = q
    /\ pc' = [pc EXCEPT ![q] = "room"]
    /\ UNCHANGED <<runners, runner, older, req, run, tgt, hold, reapVars, down>>

\* Loaded models no request leases, and the least recently used of them.
Victims ==
    LET idle == {m \in Loaded : Idle(runners[m])} IN
    {m \in idle : \A n \in idle : <<n, m>> \notin older}

\* Below the limit, or with every runner busy, the load goes ahead.
MakeRoom(q) ==
    /\ pc[q] = "room"
    /\ IF \/ Cardinality(Loaded) < (IF MaxLoaded = 0 THEN 1 ELSE MaxLoaded)
          \/ \A m \in Loaded : ~Idle(runners[m])
       THEN pc' = [pc EXCEPT ![q] = "spawn"] /\ UNCHANGED tgt
       ELSE \E m \in Victims : /\ tgt' = [tgt EXCEPT ![q] = m]
                               /\ pc' = [pc EXCEPT ![q] = "take"]
    /\ UNCHANGED <<runners, runner, older, load_lock, req, run, hold, reapVars, down>>

Spawn(q) ==
    /\ pc[q] = "spawn"
    /\ \E r \in Runner :
          /\ ~Held(r)
          /\ runner' = [runner EXCEPT ![r] = [Fresh EXCEPT !.proc = "loading"]]
          /\ run' = [run EXCEPT ![q] = r]
    /\ pc' = [pc EXCEPT ![q] = "loading"]
    /\ UNCHANGED <<runners, older, load_lock, req, tgt, hold, reapVars, down>>

\* Fault: the guard is dropped before the second launch.
FallBackUnlocked(q) ==
    /\ pc[q] = "loading" /\ req[q].model \in GpuThenCpu
    /\ load_lock' = None
    /\ pc' = [pc EXCEPT ![q] = "loading_cpu"]
    /\ UNCHANGED <<runners, runner, older, req, run, tgt, hold, reapVars, down>>

\* The GPU launch failed: that process is killed and a CPU launch replaces it.
FallBackToCpu(q) ==
    /\ pc[q] = "loading" /\ req[q].model \in GpuThenCpu
    /\ pc' = [pc EXCEPT ![q] = "loading_cpu"]
    /\ UNCHANGED <<runners, runner, older, load_lock, req, run, tgt, hold, reapVars, down>>

\* Fault: the loader's own lease is not counted.
LoadDoneUncounted(q) ==
    LET r == run[q]  m == req[q].model IN
    /\ pc[q] \in Spawning
    /\ runner' = [runner EXCEPT ![r].proc = "up"]
    /\ runners' = [runners EXCEPT ![m] = r]
    /\ older' = Touch(m)
    /\ req' = [req EXCEPT ![q] = Leased(m, LeaseKeep(req[q].ask, FALSE), req[q].pin)]
    /\ load_lock' = None
    /\ pc' = [pc EXCEPT ![q] = "leased"]
    /\ UNCHANGED <<run, tgt, hold, reapVars, down>>

\* The runner announced itself: it enters the map with the loader's lease.
LoadDone(q) ==
    LET r == run[q]  m == req[q].model IN
    /\ pc[q] \in Spawning
    /\ runner' = [runner EXCEPT ![r].proc = "up", ![r].leases = @ + 1]
    /\ runners' = [runners EXCEPT ![m] = r]
    /\ older' = Touch(m)
    /\ req' = [req EXCEPT ![q] = Leased(m, LeaseKeep(req[q].ask, FALSE), req[q].pin)]
    /\ load_lock' = None
    /\ pc' = [pc EXCEPT ![q] = "leased"]
    /\ UNCHANGED <<run, tgt, hold, reapVars, down>>

\* Fault: a load that failed is tried again, for ever.
LoadFailsRetrying(q) ==
    /\ \/ pc[q] = "loading" /\ req[q].model \notin GpuThenCpu
       \/ pc[q] = "loading_cpu"
    /\ run' = [run EXCEPT ![q] = None]
    /\ load_lock' = None
    /\ pc' = [pc EXCEPT ![q] = "wait"]
    /\ UNCHANGED <<runners, older, req, tgt, hold, reapVars, down>>
    /\ runner' = DropUnheld(runner)

\* It exited, timed out or said nothing: its process is killed, the request fails.
LoadFails(q) ==
    /\ \/ pc[q] = "loading" /\ req[q].model \notin GpuThenCpu
       \/ pc[q] = "loading_cpu"
    /\ run' = [run EXCEPT ![q] = None]
    /\ load_lock' = None
    /\ req' = [req EXCEPT ![q] = NoRequest]
    /\ pc' = [pc EXCEPT ![q] = "idle"]
    /\ UNCHANGED <<runners, older, tgt, hold, reapVars, down>>
    /\ runner' = DropUnheld(runner)

-----------------------------------------------------------------------------
(* A lease in use, and Lease::drop *)

\* Fault: a cancelled request gives its lease back without restarting the clock.
DecideSkippingClock(q) ==
    /\ pc[q] = "leased" /\ ~req[q].pin
    /\ \E at \in {"release", "unlease"} : pc' = [pc EXCEPT ![q] = at]
    /\ UNCHANGED <<runners, runner, older, load_lock, req, run, tgt, hold, reapVars, down>>

\* The request ran on its runner, failed there, or was cancelled before it ran.
Decide(q) ==
    /\ pc[q] = "leased" /\ ~req[q].pin
    /\ pc' = [pc EXCEPT ![q] = "release"]
    /\ UNCHANGED <<runners, runner, older, load_lock, req, run, tgt, hold, reapVars, down>>

Pin(q) ==
    /\ pc[q] = "leased" /\ req[q].pin
    /\ runner' = [runner EXCEPT ![run[q]].pinned = TRUE, ![run[q]].forever = TRUE]
    /\ pc' = [pc EXCEPT ![q] = "release"]
    /\ UNCHANGED <<runners, older, load_lock, req, run, tgt, hold, reapVars, down>>

\* The first half of Lease::drop: restart the keep-alive clock.
StartClock(q) ==
    LET r == run[q]  m == req[q].model IN
    /\ pc[q] = "release"
    /\ runner' = IF req[q].keep = "forever"
                 THEN [runner EXCEPT ![r].forever = TRUE]
                 ELSE [runner EXCEPT ![r].forever = FALSE, ![r].expires = "set"]
    /\ older' = IF runners[m] = r THEN Touch(m) ELSE older
    /\ pc' = [pc EXCEPT ![q] = "unlease"]
    /\ UNCHANGED <<runners, load_lock, req, run, tgt, hold, reapVars, down>>

\* Fault: the lease ends without being counted back.
UnleaseUncounted(q) ==
    /\ pc[q] = "unlease"
    /\ run' = [run EXCEPT ![q] = None]
    /\ req' = [req EXCEPT ![q] = NoRequest]
    /\ pc' = [pc EXCEPT ![q] = "idle"]
    /\ UNCHANGED <<runners, older, load_lock, tgt, hold, reapVars, down>>
    /\ runner' = DropUnheld(runner)

\* The second half: count the lease back, then drop the reference.
Unlease(q) ==
    /\ pc[q] = "unlease"
    /\ run' = [run EXCEPT ![q] = None]
    /\ req' = [req EXCEPT ![q] = NoRequest]
    /\ pc' = [pc EXCEPT ![q] = "idle"]
    /\ UNCHANGED <<runners, older, load_lock, tgt, hold, reapVars, down>>
    /\ runner' = DropUnheld([runner EXCEPT ![run[q]].leases = @ - 1])

-----------------------------------------------------------------------------
(* Scheduler::unload: by a loader making room, the reaper, or a request.   *)

\* keep_alive 0 without a state, or a delete.
Stop(q) ==
    /\ pc[q] = "idle" /\ ~down
    /\ \E m \in Model : tgt' = [tgt EXCEPT ![q] = m]
    /\ pc' = [pc EXCEPT ![q] = "take"]
    /\ UNCHANGED <<runners, runner, older, load_lock, req, run, hold, reapVars, down>>

\* Whatever the map holds now under the digest is taken out of it.
UnloadTake(t) ==
    /\ pc[t] = "take"
    /\ hold' = [hold EXCEPT ![t] = runners[tgt[t]]]
    /\ runners' = [runners EXCEPT ![tgt[t]] = None]
    /\ older' = Forgotten(tgt[t])
    /\ pc' = [pc EXCEPT ![t] = IF runners[tgt[t]] = None THEN AfterUnload(t) ELSE "drain"]
    /\ tgt' = [tgt EXCEPT ![t] = None]
    /\ UNCHANGED <<runner, load_lock, req, run, reapVars, down>>

\* Fault: it does not wait for the leases.
UnloadKillAtOnce(t) ==
    /\ pc[t] = "drain"
    /\ hold' = [hold EXCEPT ![t] = None]
    /\ runner' = [runner EXCEPT ![hold[t]] = Fresh]
    /\ pc' = [pc EXCEPT ![t] = AfterUnload(t)]
    /\ UNCHANGED <<runners, older, load_lock, req, run, tgt, reapVars, down>>

\* Once no request leases it, kill it.
UnloadKill(t) ==
    /\ pc[t] = "drain"
    /\ Idle(hold[t])
    /\ hold' = [hold EXCEPT ![t] = None]
    /\ runner' = [runner EXCEPT ![hold[t]] = Fresh]
    /\ pc' = [pc EXCEPT ![t] = AfterUnload(t)]
    /\ UNCHANGED <<runners, older, load_lock, req, run, tgt, reapVars, down>>

\* The client of a delete left: its handler is dropped while it waits.
DeleteDropped(q) ==
    /\ pc[q] = "drain" /\ load_lock # q
    /\ hold' = [hold EXCEPT ![q] = None]
    /\ pc' = [pc EXCEPT ![q] = "idle"]
    /\ UNCHANGED <<runners, older, load_lock, req, run, tgt, reapVars, down>>
    /\ runner' = DropUnheld(runner)

-----------------------------------------------------------------------------
(* Scheduler::reap *)

\* Fault: the test of the keep-forever flag is inverted.
ReapScanInverted ==
    /\ pc[Reaper] = "scan"
    /\ expired' = {m \in Loaded : /\ Idle(runners[m])
                                  /\ runner[runners[m]].expires = "due"
                                  /\ runner[runners[m]].forever}
    /\ pc' = [pc EXCEPT ![Reaper] = "reap"]
    /\ UNCHANGED <<runners, runner, older, load_lock, req, run, tgt, hold, dead, down>>

\* Under the map's lock: every idle runner whose clock ran out.
ReapScan ==
    /\ pc[Reaper] = "scan"
    /\ expired' = {m \in Loaded : /\ Idle(runners[m])
                                  /\ runner[runners[m]].expires = "due"
                                  /\ ~runner[runners[m]].forever}
    /\ pc' = [pc EXCEPT ![Reaper] = "reap"]
    /\ UNCHANGED <<runners, runner, older, load_lock, req, run, tgt, hold, dead, down>>

\* Unload the next of them.
ReapNext ==
    /\ pc[Reaper] = "reap"
    /\ \E m \in expired : /\ tgt' = [tgt EXCEPT ![Reaper] = m]
                          /\ expired' = expired \ {m}
    /\ pc' = [pc EXCEPT ![Reaper] = "take"]
    /\ UNCHANGED <<runners, runner, older, load_lock, req, run, hold, dead, down>>

\* Fault: only idle runners are looked at.
ReapDeadIdle ==
    /\ pc[Reaper] = "reap" /\ expired = {}
    /\ dead' = {m \in Loaded : Idle(runners[m]) /\ runner[runners[m]].proc = "exited"}
    /\ pc' = [pc EXCEPT ![Reaper] = IF dead' = {} THEN "scan" ELSE "forget"]
    /\ UNCHANGED <<runners, runner, older, load_lock, req, run, tgt, hold, expired, down>>

\* Under the map's lock again: every runner whose process exited.
ReapDead ==
    /\ pc[Reaper] = "reap" /\ expired = {}
    /\ dead' = {m \in Loaded : runner[runners[m]].proc = "exited"}
    /\ pc' = [pc EXCEPT ![Reaper] = IF dead' = {} THEN "scan" ELSE "forget"]
    /\ UNCHANGED <<runners, runner, older, load_lock, req, run, tgt, hold, expired, down>>

\* Fault: the runner forgotten is killed too.
ForgetKilling ==
    /\ pc[Reaper] = "forget"
    /\ \E m \in dead : /\ runners' = [runners EXCEPT ![m] = None]
                       /\ older' = Forgotten(m)
                       /\ dead' = dead \ {m}
                       /\ runner' = [r \in Runner |-> IF runners[m] = r THEN Fresh ELSE runner[r]]
    /\ pc' = [pc EXCEPT ![Reaper] = IF dead' = {} THEN "scan" ELSE "forget"]
    /\ UNCHANGED <<load_lock, req, run, tgt, hold, expired, down>>

\* Forget the next of them: whatever the map holds now under its digest.
Forget ==
    /\ pc[Reaper] = "forget"
    /\ \E m \in dead : /\ runners' = [runners EXCEPT ![m] = None]
                       /\ older' = Forgotten(m)
                       /\ dead' = dead \ {m}
    /\ pc' = [pc EXCEPT ![Reaper] = IF dead' = {} THEN "scan" ELSE "forget"]
    /\ UNCHANGED <<load_lock, req, run, tgt, hold, expired, down>>
    /\ runner' = DropUnheld(runner)

-----------------------------------------------------------------------------
(* The environment, and the end of the daemon *)

\* Time passes a runner's deadline.
Expire(r) ==
    /\ runner[r].expires = "set"
    /\ runner' = [runner EXCEPT ![r].expires = "due"]
    /\ UNCHANGED <<runners, older, load_lock, pc, req, run, tgt, hold, reapVars, down>>

\* A runner process dies on its own: a crash, the OOM killer.
Crash(r) ==
    /\ runner[r].proc = "up"
    /\ runner' = [runner EXCEPT ![r].proc = "exited"]
    /\ UNCHANGED <<runners, older, load_lock, pc, req, run, tgt, hold, reapVars, down>>

\* Scheduler::shutdown: the map is drained and its runners killed, leased or not.
Shutdown ==
    /\ ~down
    /\ down' = TRUE
    /\ runners' = [m \in Model |-> None]
    /\ older' = {}
    /\ UNCHANGED <<load_lock, pc, req, run, tgt, hold, reapVars>>
    /\ runner' = DropUnheld([r \in Runner |->
                    IF \E m \in Model : runners[m] = r
                    THEN [runner[r] EXCEPT !.proc = "killed"] ELSE runner[r]])

-----------------------------------------------------------------------------
Acquire(q) ==
    LeaseLoaded(q) \/ Queue(q) \/ Preload(q) \/ LeaseAfterWait(q) \/ TakeLoadLock(q)
Load(q) == MakeRoom(q) \/ Spawn(q) \/ FallBackToCpu(q) \/ LoadDone(q) \/ LoadFails(q)
Use(q) == Decide(q) \/ Pin(q) \/ StartClock(q) \/ Unlease(q)
Unload(t) == UnloadTake(t) \/ UnloadKill(t)
Reap == ReapScan \/ ReapNext \/ ReapDead \/ Forget

Next ==
    \/ \E q \in Request : Acquire(q) \/ Load(q) \/ Use(q) \/ Stop(q) \/ DeleteDropped(q)
    \/ \E t \in Thread : Unload(t)
    \/ Reap
    \/ \E r \in Runner : Expire(r) \/ Crash(r)
    \/ Shutdown

Spec == Init /\ [][Next]_vars

\* The tokio mutex is FIFO, so a request that waits for the load lock gets it
\* (SF); tasks are scheduled, loads end (OLLAYA_LOAD_TIMEOUT), and the forward
\* passes that leases wait for end (WF).  Nothing is assumed of new requests,
\* crashes, or the shutdown.
Fairness ==
    /\ \A q \in Request : /\ WF_vars(Load(q) \/ Use(q) \/ Unload(q))
                          /\ SF_vars(LeaseAfterWait(q) \/ TakeLoadLock(q))
    /\ WF_vars(Reap \/ Unload(Reaper))
    /\ \A r \in Runner : WF_vars(Expire(r))

FairSpec == Spec /\ Fairness

-----------------------------------------------------------------------------
(* Safety *)

\* The lease counter, which unload and make_room read outside any lock the
\* leases are dropped under, is exactly the number of requests using the runner.
LeaseCountExact ==
    \A r \in Runner : runner[r].leases = Cardinality(Lessees(r))

\* Unloading - to make room, on expiry, on request - never kills a runner a
\* request is using: only a crash or the daemon's shutdown takes it away.
LeasedNotKilled ==
    \A q \in Request : pc[q] \in Leasing =>
        \/ runner[run[q]].proc \in {"up", "exited"}
        \/ runner[run[q]].proc = "killed" /\ down

\* An idle loaded runner has a deadline or is kept on purpose: none can stay
\* loaded for good because a request ended on a path that set no clock.
IdleHasDeadline ==
    \A m \in Loaded : Idle(runners[m]) =>
        runner[runners[m]].forever \/ runner[runners[m]].expires # "none"

\* One process loads at a time, and it belongs to the holder of the load lock.
OneLoad ==
    \A q \in Request : pc[q] \in Spawning =>
        /\ load_lock = q
        /\ \A r \in Runner : runner[r].proc = "loading" => r = run[q]

\* A load never replaces a loaded runner of the same model: requests that
\* waited for the load use it instead of starting a second one.
NoSecondLoad ==
    [][\A m \in Model : runners[m] # None => runners'[m] \in {runners[m], None}]_runners

-----------------------------------------------------------------------------
(* Liveness *)

\* A request that waits for the load lock ends, answered or failed.
WaitersFinish == \A q \in Request : pc[q] = "wait" ~> pc[q] = "idle"

\* A runner taken out of the map to be unloaded is killed or dropped.
DrainsEnd == \A t \in Thread : pc[t] = "drain" ~> pc[t] # "drain"

\* An idle runner whose clock ran out does not stay loaded unless it is used.
ExpiredUnloaded ==
    \A m \in Model :
        ( /\ runners[m] # None
          /\ runner[runners[m]].expires = "due" /\ ~runner[runners[m]].forever )
        ~> \/ runners[m] = None
           \/ runner[runners[m]].expires # "due" \/ runner[runners[m]].forever

\* A runner that died is forgotten, so that the next request loads it again.
DeadForgotten ==
    \A m \in Model :
        (runners[m] # None /\ runner[runners[m]].proc = "exited")
        ~> (runners[m] = None \/ runner[runners[m]].proc # "exited")

=============================================================================
