---------------------------- MODULE SchedulerInv ----------------------------
(***************************************************************************)
(* The inductive invariant of the scheduler: who holds the load lock, who  *)
(* refers to a runner object and in which state its process then is.       *)
(***************************************************************************)
EXTENDS Scheduler

\* The load lock is held exactly while a request loads, evictions included, and
\* the model it loads stays out of the map meanwhile.
LockInv ==
    /\ \A q \in Request : pc[q] \in Loading => load_lock = q
    /\ \A q \in Request : load_lock = q =>
          /\ pc[q] \in Loading \cup Unloading
          /\ req[q].model \in Model
          /\ runners[req[q].model] = None

\* What each thread remembers is there exactly in the states that use it.
MemoryInv ==
    /\ \A q \in Request : pc[q] \in {"wait"} \cup Leasing => req[q].model \in Model
    /\ \A q \in Request : run[q] # None <=> pc[q] \in Spawning \cup Leasing
    /\ \A t \in Thread : hold[t] # None <=> pc[t] = "drain"
    /\ \A t \in Thread : pc[t] = "take" => tgt[t] \in Model

\* A runner object has one owner at a time: the map under one digest, the
\* thread that unloads it, or the request that spawns it.
OneOwner ==
    /\ \A m, n \in Model : runners[m] # None /\ runners[m] = runners[n] => m = n
    /\ \A t, u \in Thread : hold[t] # None /\ hold[t] = hold[u] => t = u
    /\ \A t \in Thread, m \in Model : hold[t] # None => runners[m] # hold[t]
    /\ \A q \in Request : pc[q] \in Spawning =>
          /\ \A m \in Model : runners[m] # run[q]
          /\ \A t \in Thread : hold[t] # run[q]
          /\ \A p \in Request : run[p] = run[q] => p = q

\* The state of the process follows from who refers to the object.
ProcessInv ==
    /\ \A r \in Runner : ~Held(r) => runner[r] = Fresh
    /\ \A q \in Request : pc[q] \in Spawning => runner[run[q]].proc = "loading"
    /\ \A r \in Runner : runner[r].proc = "loading" =>
          \E q \in Request : pc[q] \in Spawning /\ run[q] = r
    /\ \A m \in Model : runners[m] # None =>
          runner[runners[m]].proc \in {"up", "exited"}

\* The clock of a loaded runner is stopped only while a request that will
\* restart it uses the runner.
ClockInv ==
    \A m \in Model : runners[m] # None =>
        LET r == runners[m] IN
        \/ runner[r].forever \/ runner[r].expires # "none"
        \/ \E q \in Request : run[q] = r /\ pc[q] \in {"leased", "release"}

\* The parts together, with the type and the two claims they support.
IInv ==
    /\ TypeOK
    /\ LockInv
    /\ MemoryInv
    /\ OneOwner
    /\ ProcessInv
    /\ ClockInv
    /\ LeaseCountExact
    /\ LeasedNotKilled

=============================================================================
