-------------------------- MODULE SchedulerRefines --------------------------
(***************************************************************************)
(* The scheduler implements Runners: its map is the offer, the load in     *)
(* progress is that of the load lock's holder, and the process of a runner *)
(* is seen while the map or a request has it.                              *)
(***************************************************************************)
EXTENDS SchedulerInv

LoadingModel ==
    IF load_lock # None /\ pc[load_lock] \in Spawning THEN req[load_lock].model ELSE None

Leases == [q \in Request |-> IF pc[q] \in Leasing THEN run[q] ELSE None]
Models == [q \in Request |-> IF pc[q] \in Leasing THEN req[q].model ELSE None]

InUse(r) == (\E m \in Model : runners[m] = r) \/ (\E q \in Request : Leases[q] = r)
Procs == [r \in Runner |-> IF InUse(r) THEN runner[r].proc ELSE "none"]

Pool == INSTANCE Runners WITH
    offer   <- runners,
    loading <- LoadingModel,
    lease   <- Leases,
    model   <- Models,
    proc    <- Procs

\* Every step of the scheduler, its evictions, reaping, cancelled deletes and falls back
\* included, is a step of Runners or none: no interleaving of them hands a request a
\* runner of another model, ends one in use or loads a model that is loaded.
Implements == Pool!Spec
=============================================================================
