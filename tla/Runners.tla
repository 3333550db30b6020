------------------------------ MODULE Runners ------------------------------
(***************************************************************************)
(* What the rest of the daemon relies on from its scheduler, whatever it   *)
(* does to keep it: a model is loaded once, by one request at a time; a    *)
(* request leases the runner that is offered for its model; a runner in    *)
(* use ends only by itself or with the daemon, and is not used for         *)
(* another model before its last request gives it back.                    *)
(*                                                                         *)
(* Scheduler implements this (SchedulerRefines).                           *)
(***************************************************************************)
CONSTANTS Model, Request, Runner, None

VARIABLES
    offer,      \* the runner a new request for a model gets
    loading,    \* the model that is being loaded
    lease,      \* the runner each request uses
    model,      \* the model it uses it for
    proc,       \* the processes of the runners offered or leased
    down        \* the daemon is going down

vars == <<offer, loading, lease, model, proc, down>>

-----------------------------------------------------------------------------
TypeOK ==
    /\ offer \in [Model -> Runner \cup {None}]
    /\ loading \in Model \cup {None}
    /\ lease \in [Request -> Runner \cup {None}]
    /\ model \in [Request -> Model \cup {None}]
    /\ proc \in [Runner -> {"none", "up", "exited", "killed"}]
    /\ down \in BOOLEAN

Init ==
    /\ offer = [m \in Model |-> None]
    /\ loading = None
    /\ lease = [q \in Request |-> None]
    /\ model = [q \in Request |-> None]
    /\ proc = [r \in Runner |-> "none"]
    /\ down = FALSE

Offered(r) == \E m \in Model : offer[m] = r
Leased(r) == \E q \in Request : lease[q] = r
Used(r) == Offered(r) \/ Leased(r)

\* A runner that is neither offered nor leased any more is nobody's business.
KeepUsed(f) == [r \in Runner |-> IF Used(r)' THEN f[r] ELSE "none"]

-----------------------------------------------------------------------------
LoadStarts(m) ==
    /\ loading = None /\ offer[m] = None
    /\ loading' = m
    /\ UNCHANGED <<offer, lease, model, proc, down>>

LoadFails ==
    /\ loading # None
    /\ loading' = None
    /\ UNCHANGED <<offer, lease, model, proc, down>>

\* The model is offered, on a new runner, and the loader has the first lease.
LoadDone(q, r) ==
    /\ loading # None /\ offer[loading] = None
    /\ lease[q] = None /\ ~Used(r)
    /\ offer' = [offer EXCEPT ![loading] = r]
    /\ lease' = [lease EXCEPT ![q] = r]
    /\ model' = [model EXCEPT ![q] = loading]
    /\ proc' = [proc EXCEPT ![r] = "up"]
    /\ loading' = None
    /\ UNCHANGED down

Lease(q, m) ==
    /\ offer[m] # None /\ lease[q] = None
    /\ lease' = [lease EXCEPT ![q] = offer[m]]
    /\ model' = [model EXCEPT ![q] = m]
    /\ UNCHANGED <<offer, loading, proc, down>>

Return(q) ==
    /\ lease[q] # None
    /\ lease' = [lease EXCEPT ![q] = None]
    /\ model' = [model EXCEPT ![q] = None]
    /\ UNCHANGED <<offer, loading, down>>
    /\ proc' = KeepUsed(proc)

\* Nobody gets the runner any more; those who have it keep it.
Withdraw(m) ==
    /\ offer[m] # None
    /\ offer' = [offer EXCEPT ![m] = None]
    /\ UNCHANGED <<loading, lease, model, down>>
    /\ proc' = KeepUsed(proc)

Exit(r) ==
    /\ proc[r] = "up"
    /\ proc' = [proc EXCEPT ![r] = "exited"]
    /\ UNCHANGED <<offer, loading, lease, model, down>>

\* The daemon kills what it offers.
ShutDown ==
    /\ ~down
    /\ down' = TRUE
    /\ offer' = [m \in Model |-> None]
    /\ UNCHANGED <<loading, lease, model>>
    /\ proc' = KeepUsed([r \in Runner |-> IF Offered(r) THEN "killed" ELSE proc[r]])

Next ==
    \/ \E m \in Model : LoadStarts(m) \/ Withdraw(m)
    \/ \E q \in Request, m \in Model : Lease(q, m)
    \/ \E q \in Request, r \in Runner : LoadDone(q, r)
    \/ \E q \in Request : Return(q)
    \/ \E r \in Runner : Exit(r)
    \/ LoadFails \/ ShutDown

Spec == Init /\ [][Next]_vars

-----------------------------------------------------------------------------
\* A runner that a request leases is of that request's model: two requests on one runner
\* want the same model, and it is offered for no other.
RightModel ==
    /\ \A q, p \in Request : lease[q] # None /\ lease[q] = lease[p] => model[q] = model[p]
    /\ \A q \in Request, m \in Model : lease[q] # None /\ lease[q] = offer[m] => model[q] = m

\* A leased runner runs, or has exited by itself, until the daemon goes down.
LeasedRuns ==
    \A q \in Request : lease[q] # None =>
        proc[lease[q]] \in {"up", "exited"} \/ (proc[lease[q]] = "killed" /\ down)

\* The parts of the inductive invariant that say what is offered.
OffersApart == \A m, n \in Model : offer[m] # None /\ offer[m] = offer[n] => m = n
OffersRun == \A m \in Model : offer[m] # None => proc[offer[m]] \in {"up", "exited"}

PoolInv == TypeOK /\ RightModel /\ LeasedRuns /\ OffersApart /\ OffersRun
=============================================================================
