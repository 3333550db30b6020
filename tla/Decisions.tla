----------------------------- MODULE Decisions -----------------------------
(***************************************************************************)
(* A decision's way through the daemon and its runner.                     *)
(*                                                                         *)
(* The handler counts itself against the queue bound and starts a task     *)
(* detached from the connection; a client that leaves gives the count back *)
(* and sets the task's flag.  The task leases a loaded runner, looks at    *)
(* the flag once, and posts the decision; the runner's one model thread    *)
(* runs the posted jobs in order.                                          *)
(*                                                                         *)
(* The scheduler is abstracted to its promise: a lease or an error, after  *)
(* a while (Scheduler, WaitersFinish).                                     *)
(***************************************************************************)
EXTENDS Integers, Sequences, FiniteSets

CONSTANTS
    Client,     \* connections, each with one request at a time
    Task,       \* identities of detached tasks, reused once they have ended
    None,       \* no task, no client
    MaxQueue    \* OLLAYA_MAX_QUEUE

ASSUME DecisionsAssumption ==
    /\ IsFiniteSet(Client)
    /\ None \notin Client \cup Task
    /\ MaxQueue \in Nat

VARIABLES
    in_flight,  \* the daemon's counter of decision slots
    client,     \* what each connection's handler is doing
    task,       \* the detached tasks
    jobs,       \* jobs posted to the model thread and not begun
    model       \* the task whose job the model thread is running

vars == <<in_flight, client, task, jobs, model>>

-----------------------------------------------------------------------------
\* refused: counted over the bound, and not yet uncounted.  held: counted, and
\* waiting for the task.
ClientState == [at : {"idle", "refused", "held"}, task : Task \cup {None}]

\* A decision, or a request without a state that only loads its model.
Kind == {"decide", "load"}

\* Where a task is; left is where it was when its client left it.  posted: on the
\* loopback connection to the runner.  answered: the runner's reply or an error.
Stage == {"acquire", "posted", "queued", "running", "answered", "done"}

TaskState ==
    [at     : Stage \cup {"none"},
     kind   : Kind,
     client : Client \cup {None},
     left   : Stage \cup {"stays"}]

TypeOK ==
    /\ in_flight \in Nat
    /\ client \in [Client -> ClientState]
    /\ task \in [Task -> TaskState]
    /\ jobs \in Seq(Task)
    /\ model \in Task \cup {None}

Absent == [at |-> "none", kind |-> "decide", client |-> None, left |-> "stays"]
Idle   == [at |-> "idle", task |-> None]

Init ==
    /\ in_flight = 0
    /\ client = [c \in Client |-> Idle]
    /\ task = [t \in Task |-> Absent]
    /\ jobs = <<>>
    /\ model = None

Cancelled(t) == task[t].left # "stays"
At(t, stage) == task' = [task EXCEPT ![t].at = stage]
Held == {c \in Client : client[c].at = "held"}

-----------------------------------------------------------------------------
(* The handler *)

\* A fault: the bound itself is let in.
AskOneMore(c) ==
    /\ client[c].at = "idle"
    /\ in_flight' = in_flight + 1
    /\ IF in_flight > MaxQueue
       THEN /\ client' = [client EXCEPT ![c].at = "refused"]
            /\ UNCHANGED task
       ELSE \E t \in Task, k \in Kind :
               /\ task[t].at = "none"
               /\ client' = [client EXCEPT ![c] = [at |-> "held", task |-> t]]
               /\ task' = [task EXCEPT ![t] =
                              [at |-> "acquire", kind |-> k, client |-> c, left |-> "stays"]]
    /\ UNCHANGED <<jobs, model>>

\* slot counts first and compares after; the handler that got the slot starts the
\* task.
Ask(c) ==
    /\ client[c].at = "idle"
    /\ in_flight' = in_flight + 1
    /\ IF in_flight >= MaxQueue
       THEN /\ client' = [client EXCEPT ![c].at = "refused"]
            /\ UNCHANGED task
       ELSE \E t \in Task, k \in Kind :
               /\ task[t].at = "none"
               /\ client' = [client EXCEPT ![c] = [at |-> "held", task |-> t]]
               /\ task' = [task EXCEPT ![t] =
                              [at |-> "acquire", kind |-> k, client |-> c, left |-> "stays"]]
    /\ UNCHANGED <<jobs, model>>

Refuse(c) ==
    /\ client[c].at = "refused"
    /\ in_flight' = in_flight - 1
    /\ client' = [client EXCEPT ![c] = Idle]
    /\ UNCHANGED <<task, jobs, model>>

\* The task is joined: the response is written and the slot dropped.
Respond(c) ==
    /\ client[c].at = "held"
    /\ task[client[c].task].at = "done"
    /\ in_flight' = in_flight - 1
    /\ client' = [client EXCEPT ![c] = Idle]
    /\ task' = [task EXCEPT ![client[c].task] = Absent]
    /\ UNCHANGED <<jobs, model>>

\* A fault: the slot goes with the response alone.
LeaveUncounted(c) ==
    /\ client[c].at = "held"
    /\ LET t == client[c].task IN
          task' = [task EXCEPT ![t] =
                      IF @.at = "done" THEN Absent
                      ELSE [@ EXCEPT !.client = None, !.left = task[t].at]]
    /\ client' = [client EXCEPT ![c] = Idle]
    /\ UNCHANGED <<in_flight, jobs, model>>

\* The connection closes: the handler is dropped, its slot and its flag with it.
Leave(c) ==
    /\ client[c].at = "held"
    /\ LET t == client[c].task IN
          task' = [task EXCEPT ![t] =
                      IF @.at = "done" THEN Absent
                      ELSE [@ EXCEPT !.client = None, !.left = task[t].at]]
    /\ in_flight' = in_flight - 1
    /\ client' = [client EXCEPT ![c] = Idle]
    /\ UNCHANGED <<jobs, model>>

-----------------------------------------------------------------------------
(* The task *)

\* A task that nobody joins is gone when it ends.
End(t) ==
    task' = [task EXCEPT ![t] =
                IF task[t].client = None THEN Absent ELSE [@ EXCEPT !.at = "done"]]

\* A fault: the flag is not looked at.
AcquiredBlind(t) ==
    /\ task[t].at = "acquire"
    /\ \/ End(t)
       \/ task[t].kind = "decide" /\ At(t, "posted")
    /\ UNCHANGED <<in_flight, client, jobs, model>>

\* The scheduler has a lease for the task, or fails it.  With the lease, a load is
\* done, and a decision goes ahead unless its client has left.
Acquired(t) ==
    /\ task[t].at = "acquire"
    /\ \/ End(t)
       \/ task[t].kind = "decide" /\ ~Cancelled(t) /\ At(t, "posted")
    /\ UNCHANGED <<in_flight, client, jobs, model>>

Finish(t) ==
    /\ task[t].at = "answered"
    /\ End(t)
    /\ UNCHANGED <<in_flight, client, jobs, model>>

-----------------------------------------------------------------------------
(* The runner *)

\* A fault: the newest job runs first.
PostFirst(t) ==
    /\ task[t].at = "posted"
    /\ jobs' = <<t>> \o jobs
    /\ At(t, "queued")
    /\ UNCHANGED <<in_flight, client, model>>

\* The runner's handler gives the job to the model thread.
Post(t) ==
    /\ task[t].at = "posted"
    /\ jobs' = Append(jobs, t)
    /\ At(t, "queued")
    /\ UNCHANGED <<in_flight, client, model>>

Begin ==
    /\ model = None /\ jobs # <<>>
    /\ model' = Head(jobs)
    /\ jobs' = Tail(jobs)
    /\ At(Head(jobs), "running")
    /\ UNCHANGED <<in_flight, client>>

\* The pass ends with answers, an error, or a panic the thread outlives.
PassEnds ==
    /\ model # None
    /\ At(model, "answered")
    /\ model' = None
    /\ UNCHANGED <<in_flight, client, jobs>>

\* A fault: the jobs of a runner that exited go to the next.
RunnerExitsKeepingJobs ==
    /\ task' = [t \in Task |->
                  IF task[t].at \in {"posted", "queued", "running"}
                  THEN [task[t] EXCEPT !.at = "answered"] ELSE task[t]]
    /\ task' # task
    /\ model' = None
    /\ UNCHANGED <<in_flight, client, jobs>>

\* The process exits: every connection to it breaks.  The next lease is of another.
RunnerExits ==
    /\ task' = [t \in Task |->
                  IF task[t].at \in {"posted", "queued", "running"}
                  THEN [task[t] EXCEPT !.at = "answered"] ELSE task[t]]
    /\ task' # task
    /\ jobs' = <<>>
    /\ model' = None
    /\ UNCHANGED <<in_flight, client>>

-----------------------------------------------------------------------------
Next ==
    \/ \E c \in Client : Ask(c) \/ Refuse(c) \/ Respond(c) \/ Leave(c)
    \/ \E t \in Task : Acquired(t) \/ Post(t) \/ Finish(t)
    \/ Begin \/ PassEnds \/ RunnerExits

Spec == Init /\ [][Next]_vars

\* Handlers and tasks are scheduled, the scheduler answers, and a pass ends.
FairSpec ==
    /\ Spec
    /\ \A c \in Client : WF_vars(Refuse(c)) /\ WF_vars(Respond(c))
    /\ \A t \in Task : WF_vars(Acquired(t)) /\ WF_vars(Post(t)) /\ WF_vars(Finish(t))
    /\ WF_vars(Begin) /\ WF_vars(PassEnds)

-----------------------------------------------------------------------------
(* Properties *)

\* Every slot taken is given back once, whether its request is answered, refused or
\* left, so the counter never drifts into refusing an idle server.
SlotsCounted ==
    in_flight = Cardinality(Held) + Cardinality({c \in Client : client[c].at = "refused"})

\* However requests interleave with the count and its compare, no more than
\* OLLAYA_MAX_QUEUE clients wait for a decision.
AtMostMaxQueue == Cardinality(Held) <= MaxQueue

\* docs/api.md, 10: a decision whose client left while its model was loading is
\* skipped, though the load goes on.
SkippedIfLeftLoading ==
    \A t \in Task : task[t].left = "acquire" => task[t].at \notin {"posted", "queued", "running"}

\* A job is on the model thread's queue once, or running, exactly while its task says
\* so: no pass is run twice or lost, panics and exits of the runner included.
JobsExact ==
    /\ \A i, j \in 1..Len(jobs) : jobs[i] = jobs[j] => i = j
    /\ \A t \in Task : (\E i \in 1..Len(jobs) : jobs[i] = t) <=> task[t].at = "queued"
    /\ \A t \in Task : model = t <=> task[t].at = "running"

\* Every request that stays is answered or refused, though others keep coming: the
\* thread's queue serves the jobs in order.
Answered == \A c \in Client : client[c].at # "idle" ~> client[c].at = "idle"
-----------------------------------------------------------------------------
(* The inductive invariant *)

Counted == {c \in Client : client[c].at # "idle"}

\* A handler that waits has a task of its own, which knows it.
Linked ==
    /\ \A c \in Client : client[c].at = "held" =>
          client[c].task \in Task /\ task[client[c].task].client = c
    /\ \A t \in Task : task[t].at = "none" => task[t] = Absent
    /\ \A t \in Task : task[t].left # "stays" => task[t].client = None

DecisionsInv ==
    /\ TypeOK /\ Linked
    /\ in_flight = Cardinality(Counted) /\ AtMostMaxQueue
    /\ SkippedIfLeftLoading /\ JobsExact
=============================================================================
