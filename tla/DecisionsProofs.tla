-------------------------- MODULE DecisionsProofs --------------------------
(***************************************************************************)
(* The safety properties of Decisions, for any number of clients, tasks    *)
(* and decision slots.                                                     *)
(***************************************************************************)
EXTENDS Decisions, FiniteSetTheorems, TLAPS

\* The counted clients are finitely many.
LEMMA CountedFinite == IsFiniteSet(Counted) /\ IsFiniteSet(Held)
BY FS_Subset, DecisionsAssumption DEF Counted, Held

\* Where the tasks, the queue and the model thread stand after a step, for those who
\* only look at the counts.
Quiet == UNCHANGED <<in_flight, client>>

\* The counts and the bound only depend on the clients and on in_flight.
LEMMA CountsQuiet ==
    ASSUME in_flight = Cardinality(Counted), AtMostMaxQueue, Quiet
    PROVE  in_flight' = Cardinality(Counted') /\ AtMostMaxQueue'
BY DEF Counted, AtMostMaxQueue, Held, Quiet

\* A client that is counted is one more, and within the bound if it is held.
LEMMA CountsUp ==
    ASSUME TypeOK, in_flight = Cardinality(Counted), AtMostMaxQueue,
           NEW c \in Client, client[c].at = "idle",
           NEW s \in ClientState, s.at # "idle", s.at = "held" => in_flight < MaxQueue,
           client' = [client EXCEPT ![c] = s], in_flight' = in_flight + 1
    PROVE  in_flight' = Cardinality(Counted') /\ AtMostMaxQueue'
<1>1. Counted' = Counted \cup {c} /\ c \notin Counted
  BY DEF Counted, TypeOK
<1>2. in_flight' = Cardinality(Counted')
  BY <1>1, CountedFinite, FS_AddElement
<1>3. CASE s.at # "held"
  <2>1. Held' = Held
    BY <1>3 DEF Held, TypeOK
  <2> QED BY <2>1, <1>2 DEF AtMostMaxQueue
<1>4. CASE s.at = "held"
  <2>1. Held' = Held \cup {c} /\ c \notin Held /\ Held \subseteq Counted
    BY <1>4 DEF Held, Counted, TypeOK
  <2>2. Cardinality(Held) <= Cardinality(Counted) /\ Cardinality(Held) \in Nat
    BY <2>1, CountedFinite, FS_Subset, FS_CardinalityType
  <2>3. Cardinality(Held') = Cardinality(Held) + 1
    BY <2>1, CountedFinite, FS_AddElement
  <2> QED BY <1>2, <1>4, <2>2, <2>3, DecisionsAssumption DEF AtMostMaxQueue, TypeOK
<1> QED BY <1>3, <1>4

\* A client that is counted no more is one less.
LEMMA CountsDown ==
    ASSUME TypeOK, in_flight = Cardinality(Counted), AtMostMaxQueue,
           NEW c \in Client, client[c].at # "idle",
           client' = [client EXCEPT ![c] = Idle], in_flight' = in_flight - 1
    PROVE  in_flight' = Cardinality(Counted') /\ AtMostMaxQueue' /\ in_flight' \in Nat
<1>1. Counted' = Counted \ {c} /\ c \in Counted
  BY DEF Counted, TypeOK, Idle
<1>2. Cardinality(Counted') = Cardinality(Counted) - 1 /\ Cardinality(Counted') \in Nat
  BY <1>1, CountedFinite, FS_RemoveElement, FS_CardinalityType
<1>3. Held' \subseteq Held
  BY DEF Held, TypeOK, Idle
<1>4. Cardinality(Held') <= Cardinality(Held)
  BY <1>3, CountedFinite, FS_Subset
<1>5. Cardinality(Held') \in Nat /\ Cardinality(Held) \in Nat
  BY <1>3, CountedFinite, FS_Subset, FS_CardinalityType
<1> QED BY <1>2, <1>4, <1>5, DecisionsAssumption DEF AtMostMaxQueue

LEMMA InitInv == Init => DecisionsInv
<1> SUFFICES ASSUME Init PROVE DecisionsInv
  OBVIOUS
<1> USE DEF Init
<1>1. TypeOK
  BY DEF TypeOK, ClientState, TaskState, Kind, Stage, Absent, Idle
<1>2. Linked
  BY DEF Linked, Idle, Absent
<1>3. Counted = {} /\ Held = {}
  BY DEF Counted, Held, Idle
<1>4. in_flight = Cardinality(Counted) /\ AtMostMaxQueue
  BY <1>3, FS_EmptySet, DecisionsAssumption DEF AtMostMaxQueue
<1>5. SkippedIfLeftLoading
  BY DEF SkippedIfLeftLoading, Absent
<1>6. JobsExact
  BY DecisionsAssumption DEF JobsExact, Absent
<1> QED BY <1>1, <1>2, <1>4, <1>5, <1>6 DEF DecisionsInv

\* The queue of the model thread, of which a task joins the end or leaves the head.
LEMMA StepInv == DecisionsInv /\ [Next]_vars => DecisionsInv'
<1> SUFFICES ASSUME DecisionsInv, [Next]_vars PROVE DecisionsInv'
  OBVIOUS
<1> USE DEF DecisionsInv
<1>1. ASSUME NEW c \in Client, Ask(c) PROVE DecisionsInv'
  <2>1. CASE in_flight >= MaxQueue
    <3>0. client[c].at = "idle" /\ in_flight' = in_flight + 1
      BY <1>1 DEF Ask
    <3>1. UNCHANGED <<task, jobs, model>> /\ client' = [client EXCEPT ![c].at = "refused"]
      BY <1>1, <2>1 DEF Ask
    <3>2. PICK s \in ClientState : s = [client[c] EXCEPT !.at = "refused"]
      BY DEF TypeOK, ClientState
    <3>3. in_flight' = Cardinality(Counted') /\ AtMostMaxQueue'
      <4>1. client' = [client EXCEPT ![c] = s] /\ s.at = "refused"
        BY <3>1, <3>2 DEF TypeOK, ClientState
      <4> QED BY <4>1, <3>0, CountsUp
    <3>4. TypeOK'
      BY <3>0, <3>1, <3>2 DEF TypeOK, ClientState
    <3>5. Linked' /\ SkippedIfLeftLoading' /\ JobsExact'
      BY <3>1 DEF Linked, SkippedIfLeftLoading, JobsExact, TypeOK, ClientState
    <3> QED BY <3>3, <3>4, <3>5
  <2>2. CASE ~(in_flight >= MaxQueue)
    <3>0. client[c].at = "idle" /\ in_flight' = in_flight + 1 /\ UNCHANGED <<jobs, model>>
      BY <1>1 DEF Ask
    <3>1. PICK t \in Task, k \in Kind :
            /\ task[t].at = "none"
            /\ client' = [client EXCEPT ![c] = [at |-> "held", task |-> t]]
            /\ task' = [task EXCEPT ![t] =
                           [at |-> "acquire", kind |-> k, client |-> c, left |-> "stays"]]
      BY <1>1, <2>2 DEF Ask
    <3>2. in_flight' = Cardinality(Counted') /\ AtMostMaxQueue'
      <4>1. [at |-> "held", task |-> t] \in ClientState /\ in_flight < MaxQueue
        BY <2>2, DecisionsAssumption DEF ClientState, TypeOK
      <4> QED BY <3>0, <3>1, <4>1, CountsUp
    <3>3. TypeOK'
      BY <3>0, <3>1 DEF TypeOK, ClientState, TaskState, Stage
    <3>4. Linked'
      BY <3>1, DecisionsAssumption DEF Linked, TypeOK, Absent, TaskState
    <3>5. SkippedIfLeftLoading' /\ JobsExact'
      BY <3>0, <3>1 DEF SkippedIfLeftLoading, JobsExact, TypeOK
    <3> QED BY <3>2, <3>3, <3>4, <3>5
  <2> QED BY <2>1, <2>2
<1>2. ASSUME NEW c \in Client, Refuse(c) PROVE DecisionsInv'
  <2> USE <1>2 DEF Refuse
  <2>1. in_flight' = Cardinality(Counted') /\ AtMostMaxQueue' /\ in_flight' \in Nat
    BY CountsDown
  <2>2. TypeOK'
    BY <2>1 DEF TypeOK, ClientState, Idle
  <2>3. Linked' /\ SkippedIfLeftLoading' /\ JobsExact'
    BY DEF Linked, SkippedIfLeftLoading, JobsExact, TypeOK, Idle
  <2> QED BY <2>1, <2>2, <2>3
<1>3. ASSUME NEW c \in Client, Respond(c) PROVE DecisionsInv'
  <2> USE <1>3 DEF Respond
  <2>1. in_flight' = Cardinality(Counted') /\ AtMostMaxQueue' /\ in_flight' \in Nat
    BY CountsDown
  <2>2. TypeOK'
    BY <2>1 DEF TypeOK, ClientState, TaskState, Idle, Absent, Kind, Stage
  <2>3. Linked'
    BY DecisionsAssumption DEF Linked, TypeOK, Idle, Absent
  <2>4. SkippedIfLeftLoading' /\ JobsExact'
    BY DEF Linked, SkippedIfLeftLoading, JobsExact, TypeOK, Absent
  <2> QED BY <2>1, <2>2, <2>3, <2>4
<1>4. ASSUME NEW c \in Client, Leave(c) PROVE DecisionsInv'
  <2> DEFINE t == client[c].task
  <2>0. t \in Task /\ task[t].client = c /\ task[t].at # "none"
    BY <1>4, DecisionsAssumption DEF Leave, Linked, Absent
  <2> USE <1>4 DEF Leave
  <2>1. in_flight' = Cardinality(Counted') /\ AtMostMaxQueue' /\ in_flight' \in Nat
    BY CountsDown
  <2>2. TypeOK'
    <3>1. Absent \in TaskState /\ [task[t] EXCEPT !.client = None, !.left = task[t].at] \in TaskState
      BY <2>0 DEF TypeOK, TaskState, Absent, Kind, Stage
    <3>2. task' \in [Task -> TaskState]
      BY <3>1 DEF TypeOK
    <3>3. client' \in [Client -> ClientState]
      BY DEF TypeOK, ClientState, Idle
    <3> QED BY <2>1, <3>2, <3>3 DEF TypeOK
  <2>3. Linked'
    BY <2>0, DecisionsAssumption DEF Linked, TypeOK, Idle, Absent, TaskState
  <2>4. SkippedIfLeftLoading'
    BY <2>0 DEF SkippedIfLeftLoading, TypeOK, Absent
  <2>5. JobsExact'
    BY <2>0 DEF JobsExact, TypeOK, Absent, TaskState
  <2> QED BY <2>1, <2>2, <2>3, <2>4, <2>5
<1>5. ASSUME NEW t \in Task, Acquired(t) PROVE DecisionsInv'
  <2> USE <1>5 DEF Acquired, End, At
  <2>1. in_flight' = Cardinality(Counted') /\ AtMostMaxQueue'
    BY CountsQuiet DEF Quiet
  <2>2. TypeOK'
    <3>1. /\ Absent \in TaskState
          /\ [task[t] EXCEPT !.at = "done"] \in TaskState
          /\ [task[t] EXCEPT !.at = "posted"] \in TaskState
      BY DEF TypeOK, TaskState, Absent, Kind, Stage
    <3>2. task' \in [Task -> TaskState]
      BY <3>1 DEF TypeOK
    <3> QED BY <3>2 DEF TypeOK
  <2>3. Linked'
    BY DecisionsAssumption DEF Linked, TypeOK, Absent, TaskState
  <2>4. SkippedIfLeftLoading'
    BY DEF SkippedIfLeftLoading, TypeOK, Absent, TaskState, Cancelled
  <2>5. JobsExact'
    BY DEF JobsExact, TypeOK, Absent, TaskState
  <2> QED BY <2>1, <2>2, <2>3, <2>4, <2>5
<1>6. ASSUME NEW t \in Task, Finish(t) PROVE DecisionsInv'
  <2> USE <1>6 DEF Finish, End
  <2>1. in_flight' = Cardinality(Counted') /\ AtMostMaxQueue'
    BY CountsQuiet DEF Quiet
  <2>2. TypeOK'
    BY DEF TypeOK, TaskState, Absent, Kind, Stage
  <2>3. Linked'
    BY DecisionsAssumption DEF Linked, TypeOK, Absent, TaskState
  <2>4. SkippedIfLeftLoading'
    BY DEF SkippedIfLeftLoading, TypeOK, Absent, TaskState
  <2>5. JobsExact'
    BY DEF JobsExact, TypeOK, Absent, TaskState
  <2> QED BY <2>1, <2>2, <2>3, <2>4, <2>5
<1>7. ASSUME NEW t \in Task, Post(t) PROVE DecisionsInv'
  <2> USE <1>7 DEF Post, At
  <2>1. in_flight' = Cardinality(Counted') /\ AtMostMaxQueue'
    BY CountsQuiet DEF Quiet
  <2>2. TypeOK'
    <3>1. [task[t] EXCEPT !.at = "queued"] \in TaskState
      BY DEF TypeOK, TaskState, Stage
    <3>2. task' \in [Task -> TaskState]
      BY <3>1 DEF TypeOK
    <3>3. jobs' \in Seq(Task)
      BY DEF TypeOK
    <3> QED BY <3>2, <3>3 DEF TypeOK
  <2>3. Linked' /\ SkippedIfLeftLoading'
    BY DEF Linked, SkippedIfLeftLoading, TypeOK, Absent, TaskState
  <2>4. JobsExact'
    <3>1. Len(jobs') = Len(jobs) + 1 /\ Len(jobs) \in Nat /\ jobs'[Len(jobs) + 1] = t
      BY DEF TypeOK
    <3>2. \A i \in 1..Len(jobs) : jobs'[i] = jobs[i] /\ jobs[i] # t
      BY DEF TypeOK, JobsExact
    <3>3. \A i \in 1..Len(jobs') : i \in 1..Len(jobs) \/ i = Len(jobs) + 1
      BY <3>1
    <3>4. \A i, j \in 1..Len(jobs') : jobs'[i] = jobs'[j] => i = j
      BY <3>1, <3>2, <3>3 DEF JobsExact
    <3>5. \A u \in Task : (\E i \in 1..Len(jobs') : jobs'[i] = u) <=>
                              u = t \/ \E i \in 1..Len(jobs) : jobs[i] = u
      BY <3>1, <3>2, <3>3
    <3>6. \A u \in Task : (\E i \in 1..Len(jobs') : jobs'[i] = u) <=> task'[u].at = "queued"
      BY <3>5 DEF JobsExact, TypeOK, TaskState
    <3>7. \A u \in Task : model' = u <=> task'[u].at = "running"
      BY DEF JobsExact, TypeOK, TaskState
    <3> QED BY <3>4, <3>6, <3>7 DEF JobsExact
  <2> QED BY <2>1, <2>2, <2>3, <2>4
<1>8. ASSUME Begin PROVE DecisionsInv'
  <2> DEFINE h == Head(jobs)
  <2>0. /\ h \in Task /\ h = jobs[1] /\ Len(jobs) \in Nat /\ Len(jobs) >= 1
        /\ Len(jobs') = Len(jobs) - 1
        /\ \A i \in 1..Len(jobs') : jobs'[i] = jobs[i + 1] /\ i + 1 \in 1..Len(jobs)
    BY <1>8 DEF Begin, TypeOK
  <2>1. task[h].at = "queued"
    BY <2>0 DEF JobsExact
  <2> USE <1>8 DEF Begin, At
  <2>2. in_flight' = Cardinality(Counted') /\ AtMostMaxQueue'
    BY CountsQuiet DEF Quiet
  <2>3. TypeOK'
    <3>0. task[h] \in TaskState
      BY <2>0 DEF TypeOK
    <3>1. [task[h] EXCEPT !.at = "running"] \in TaskState
      <4> HIDE DEF h
      <4> QED BY <3>0 DEF TaskState, Stage
    <3>2. task' \in [Task -> TaskState]
      BY <2>0, <3>1 DEF TypeOK
    <3>3. jobs' \in Seq(Task)
      BY DEF TypeOK
    <3> QED BY <2>0, <3>2, <3>3 DEF TypeOK
  <2>4. Linked' /\ SkippedIfLeftLoading'
    BY <2>0, <2>1 DEF Linked, SkippedIfLeftLoading, TypeOK, Absent, TaskState
  <2>5. JobsExact'
    <3>1. \A i, j \in 1..Len(jobs') : jobs'[i] = jobs'[j] => i = j
      BY <2>0 DEF JobsExact
    <3>2. ASSUME NEW u \in Task
          PROVE  (\E i \in 1..Len(jobs') : jobs'[i] = u) <=>
                     u # h /\ \E i \in 1..Len(jobs) : jobs[i] = u
      <4>1. ASSUME NEW i \in 1..Len(jobs'), jobs'[i] = u
            PROVE  u # h /\ \E k \in 1..Len(jobs) : jobs[k] = u
        <5>1. jobs[i + 1] = u /\ i + 1 \in 1..Len(jobs) /\ i + 1 # 1 /\ 1 \in 1..Len(jobs)
          BY <2>0, <4>1
        <5> QED BY <5>1, <2>0 DEF JobsExact
      <4>2. ASSUME u # h, NEW k \in 1..Len(jobs), jobs[k] = u
            PROVE  \E i \in 1..Len(jobs') : jobs'[i] = u
        <5>1. k # 1 /\ k - 1 \in 1..Len(jobs') /\ (k - 1) + 1 = k
          BY <2>0, <4>2
        <5>2. jobs'[k - 1] = u
          BY <2>0, <4>2, <5>1
        <5> QED BY <5>1, <5>2
      <4> QED BY <4>1, <4>2
    <3>3. \A u \in Task : (\E i \in 1..Len(jobs') : jobs'[i] = u) <=> task'[u].at = "queued"
      BY <2>0, <3>2 DEF JobsExact, TypeOK, TaskState
    <3>4. \A u \in Task : model' = u <=> task'[u].at = "running"
      BY <2>0, DecisionsAssumption DEF JobsExact, TypeOK, TaskState
    <3> QED BY <3>1, <3>3, <3>4 DEF JobsExact
  <2> QED BY <2>2, <2>3, <2>4, <2>5
<1>9. ASSUME PassEnds PROVE DecisionsInv'
  <2>0. model \in Task /\ task[model].at = "running"
    BY <1>9 DEF PassEnds, TypeOK, JobsExact
  <2> USE <1>9 DEF PassEnds, At
  <2>1. in_flight' = Cardinality(Counted') /\ AtMostMaxQueue'
    BY CountsQuiet DEF Quiet
  <2>2. TypeOK'
    BY <2>0 DEF TypeOK, TaskState, Stage
  <2>3. Linked' /\ SkippedIfLeftLoading'
    BY <2>0 DEF Linked, SkippedIfLeftLoading, TypeOK, Absent, TaskState
  <2>4. JobsExact'
    BY <2>0, DecisionsAssumption DEF JobsExact, TypeOK, TaskState
  <2> QED BY <2>1, <2>2, <2>3, <2>4
<1>10. ASSUME RunnerExits PROVE DecisionsInv'
  <2> USE <1>10 DEF RunnerExits
  <2>1. in_flight' = Cardinality(Counted') /\ AtMostMaxQueue'
    BY CountsQuiet DEF Quiet
  <2>2. TypeOK'
    BY DEF TypeOK, TaskState, Stage
  <2>3. Linked' /\ SkippedIfLeftLoading'
    BY DEF Linked, SkippedIfLeftLoading, TypeOK, Absent, TaskState
  <2>4. JobsExact'
    BY DecisionsAssumption DEF JobsExact, TypeOK, TaskState
  <2> QED BY <2>1, <2>2, <2>3, <2>4
<1>11. ASSUME UNCHANGED vars PROVE DecisionsInv'
  <2>1. in_flight' = Cardinality(Counted') /\ AtMostMaxQueue'
    BY <1>11, CountsQuiet DEF Quiet, vars
  <2>2. TypeOK' /\ Linked' /\ SkippedIfLeftLoading' /\ JobsExact'
    BY <1>11 DEF vars, TypeOK, Linked, SkippedIfLeftLoading, JobsExact
  <2> QED BY <2>1, <2>2
<1> QED BY <1>1, <1>2, <1>3, <1>4, <1>5, <1>6, <1>7, <1>8, <1>9, <1>10, <1>11 DEF Next

LEMMA Invariance == Spec => []DecisionsInv
BY InitInv, StepInv, PTL DEF Spec

\* Decisions keeps its types.
THEOREM DecisionsTyped == Spec => []TypeOK
<1>1. DecisionsInv => TypeOK
  BY DEF DecisionsInv
<1> QED BY Invariance, <1>1, PTL

\* Every decision slot taken is given back once, whatever the number of requests that
\* are answered, refused or left.
THEOREM SlotsAlwaysCounted == Spec => []SlotsCounted
<1>1. ASSUME DecisionsInv PROVE SlotsCounted
  <2> DEFINE Refused == {c \in Client : client[c].at = "refused"}
  <2>1. Counted = Held \cup Refused /\ Held \cap Refused = {}
    BY <1>1 DEF DecisionsInv, TypeOK, ClientState, Counted, Held
  <2>2. IsFiniteSet(Held) /\ IsFiniteSet(Refused)
    BY <2>1, CountedFinite, FS_Subset
  <2>3. Cardinality(Counted) = Cardinality(Held) + Cardinality(Refused)
    <3>1. Cardinality(Held \cup Refused) =
            Cardinality(Held) + Cardinality(Refused) - Cardinality(Held \cap Refused)
      BY <2>2, FS_Union
    <3>2. Cardinality(Held \cap Refused) = 0
      BY <2>1, FS_EmptySet
    <3>3. Cardinality(Held) \in Nat /\ Cardinality(Refused) \in Nat
      BY <2>2, FS_CardinalityType
    <3> HIDE DEF Refused
    <3> QED BY <3>1, <3>2, <3>3, <2>1
  <2> QED BY <1>1, <2>3 DEF DecisionsInv, SlotsCounted
<1> QED BY Invariance, <1>1, PTL

\* No more than OLLAYA_MAX_QUEUE clients ever wait for a decision.
THEOREM BoundHolds == Spec => []AtMostMaxQueue
<1>1. DecisionsInv => AtMostMaxQueue
  BY DEF DecisionsInv
<1> QED BY Invariance, <1>1, PTL

\* The decision of a client that left during the load never reaches the runner.
THEOREM EarlyLeaversSkipped == Spec => []SkippedIfLeftLoading
<1>1. DecisionsInv => SkippedIfLeftLoading
  BY DEF DecisionsInv
<1> QED BY Invariance, <1>1, PTL

\* No job of the model thread is lost, doubled or run for a task that is not waiting.
THEOREM JobsAlwaysExact == Spec => []JobsExact
<1>1. DecisionsInv => JobsExact
  BY DEF DecisionsInv
<1> QED BY Invariance, <1>1, PTL
=============================================================================
