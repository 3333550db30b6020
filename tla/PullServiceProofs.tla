------------------------- MODULE PullServiceProofs -------------------------
(***************************************************************************)
(* The safety properties of PullService, for any number of clients, pulls  *)
(* and names, channels of any capacity, and any number of progress events. *)
(***************************************************************************)
EXTENDS PullService, TLAPS

-----------------------------------------------------------------------------
(* Channels *)

\* The events of a channel that a receiver may still read stay where they are.
Grown(p) ==
    /\ Len(sent'[p]) >= Len(sent[p])
    /\ \A i \in 1..Len(sent[p]) : sent'[p][i] = sent[p][i]

\* What a task adds comes after all that it sent before.
LEMMA AppendKeeps ==
    ASSUME NEW s \in Seq(Event), NEW e \in Event
    PROVE  /\ Append(s, e) \in Seq(Event)
           /\ Len(Append(s, e)) = Len(s) + 1
           /\ Append(s, e)[Len(s) + 1] = e
           /\ \A i \in 1..Len(s) : Append(s, e)[i] = s[i]
           /\ \A n \in Nat : n <= Len(s) => Plain(s, n) <=> Plain(Append(s, e), n)
BY DEF Plain

\* The shape of a channel depends on its task, its events and whether it has a
\* receiver.
LEMMA ShapeKept ==
    ASSUME NEW p \in Pull, ChannelShape(p),
           task'[p] = task[p], sent'[p] = sent[p], (Receivers(p) = {}) => (Receivers(p)' = {})
    PROVE  ChannelShape(p)'
BY DEF ChannelShape, Plain

\* A reader stays where it was when its channel grows.
LEMMA ReaderKept ==
    ASSUME TypeOK, NEW c \in Client, ReaderPlace(c), client'[c] = client[c],
           client[c].at \in Attached => Grown(client[c].pull)
    PROVE  ReaderPlace(c)'
<1> SUFFICES ASSUME client[c].at \in Attached PROVE ReaderPlace(c)'
  BY DEF ReaderPlace
<1> DEFINE p == client[c].pull
<1>2. p \in Pull /\ client[c].next \in Nat /\ Len(sent[p]) \in Nat
  BY DEF TypeOK, ClientState, ReaderPlace
<1>3. \A i \in 1..(client[c].next - 1) : i \in 1..Len(sent[p])
  BY <1>2 DEF ReaderPlace
<1> QED BY <1>2, <1>3 DEF ReaderPlace, Grown

\* Whatever comes before a progress event is progress.
LEMMA PlainBefore ==
    ASSUME TypeOK, NEW p \in Pull, ChannelShape(p), task[p].at = "closed" => Receivers(p) # {},
           NEW j \in 1..Len(sent[p]), sent[p][j] \in {"line", "layer"}
    PROVE  Plain(sent[p], j)
<1>1. /\ task[p].at \in {"pulling", "ended", "report", "closed"}
      /\ task[p].result \in {"ok", "failed", "abandoned"}
      /\ Len(sent[p]) \in Nat
  BY DEF TypeOK, TaskState
<1> QED BY <1>1 DEF ChannelShape, Plain

\* A step of one task keeps the channels' invariant if its own channel has the shape
\* of its new state and its receivers lose nothing.
LEMMA TaskStep ==
    ASSUME TypeOK, ChannelInv, NEW p \in Pull, NEW r, NEW s,
           UNCHANGED client,
           task' = [task EXCEPT ![p] = r], sent' = [sent EXCEPT ![p] = s],
           Receivers(p) # {} => Grown(p), ChannelShape(p)'
    PROVE  ChannelInv'
<1>1. \A q \in Pull : Receivers(q)' = Receivers(q)
  BY DEF Receivers
<1>2. ASSUME NEW q \in Pull PROVE ChannelShape(q)'
  <2>1. CASE q = p
    BY <2>1
  <2>2. CASE q # p
    <3>1. task'[q] = task[q] /\ sent'[q] = sent[q]
      BY <2>2 DEF TypeOK
    <3>2. ChannelShape(q)
      BY DEF ChannelInv
    <3> QED BY <1>1, <3>1, <3>2, ShapeKept
  <2> QED BY <2>1, <2>2
<1>3. ASSUME NEW c \in Client PROVE ReaderPlace(c)'
  <2>1. ReaderPlace(c)
    BY DEF ChannelInv
  <2>2. ASSUME client[c].at \in Attached PROVE Grown(client[c].pull)
    <3>1. client[c].pull \in Pull /\ c \in Receivers(client[c].pull)
      BY <2>1, <2>2 DEF ReaderPlace, Receivers
    <3>2. CASE client[c].pull = p
      BY <3>1, <3>2
    <3>3. CASE client[c].pull # p
      <4>1. sent'[client[c].pull] = sent[client[c].pull] /\ Len(sent[client[c].pull]) \in Nat
        BY <3>1, <3>3 DEF TypeOK
      <4> QED BY <4>1 DEF Grown
    <3> QED BY <3>2, <3>3
  <2>3. client'[c] = client[c]
    OBVIOUS
  <2> QED BY <2>1, <2>2, <2>3, ReaderKept
<1> QED BY <1>2, <1>3 DEF ChannelInv

-----------------------------------------------------------------------------
(* The table *)

\* A pull that has left the table, or never was in it, is not found there.
LEMMA NotInTable ==
    ASSUME TypeOK, TableExact, NEW p \in Pull, task[p].at \notin {"pulling", "ended"}
    PROVE  \A f \in File : pulls[f] # p
<1> SUFFICES ASSUME NEW f \in File, pulls[f] = p PROVE FALSE
  OBVIOUS
<1>1. p # None
  BY PullAssumption
<1> QED BY <1>1 DEF TableExact, FileOfPull

\* A pull in the table is found by its own file alone.
LEMMA InTable ==
    ASSUME TypeOK, TableExact, NEW p \in Pull, task[p].at \in {"pulling", "ended"}
    PROVE  /\ task[p].key \in Key /\ FileOfPull(p) \in File /\ pulls[FileOfPull(p)] = p
           /\ \A f \in File : pulls[f] = p => f = FileOfPull(p)
<1>1. p # None
  BY PullAssumption
<1>2. task[p].key \in Key /\ pulls[FileOfPull(p)] = p
  BY DEF TableExact
<1>3. FileOfPull(p) \in File
  BY <1>2, PullAssumption DEF FileOfPull
<1> QED BY <1>1, <1>2, <1>3 DEF TableExact

\* A step that keeps the table, and a task in it where it was, keeps it exact.
LEMMA TableKept ==
    ASSUME TypeOK, TableExact, NEW p \in Pull, UNCHANGED <<pulls, creating>>,
           NEW r \in TaskState, task' = [task EXCEPT ![p] = r],
           task[p].at \in {"pulling", "ended"} =>
               r.at \in {"pulling", "ended"} /\ r.key = task[p].key,
           task[p].at \notin {"pulling", "ended"} => r.at \notin {"pulling", "ended"}
    PROVE  TableExact'
<1>1. ASSUME NEW q \in Pull
      PROVE  (task[q].at \in {"pulling", "ended"} <=>
                 task[q].key \in Key /\ pulls[FileOfPull(q)] = q)'
  <2>1. CASE q # p
    BY <2>1 DEF TypeOK, TableExact, FileOfPull
  <2>2. CASE q = p /\ task[p].at \in {"pulling", "ended"}
    BY <2>2 DEF TypeOK, TableExact, FileOfPull
  <2>3. CASE q = p /\ task[p].at \notin {"pulling", "ended"}
    <3>1. \A f \in File : pulls[f] # p
      BY <2>3, NotInTable
    <3>2. r.key \in Key => FileOf[r.key] \in File
      BY PullAssumption
    <3> QED BY <2>3, <3>1, <3>2 DEF TypeOK, FileOfPull
  <2> QED BY <2>1, <2>2, <2>3
<1>2. ASSUME NEW f \in File, pulls[f] # None
      PROVE  f \notin creating /\ task'[pulls[f]].key \in Key /\ FileOf[task'[pulls[f]].key] = f
  <2>1. f \notin creating /\ task[pulls[f]].key \in Key /\ FileOf[task[pulls[f]].key] = f
    BY <1>2 DEF TableExact, FileOfPull
  <2>2. pulls[f] \in Pull
    BY <1>2 DEF TypeOK
  <2>3. CASE pulls[f] # p
    BY <2>1, <2>2, <2>3 DEF TypeOK
  <2>4. CASE pulls[f] = p
    <3>1. task[p].at \in {"pulling", "ended"}
      BY <2>4, NotInTable
    <3> QED BY <2>1, <2>4, <3>1 DEF TypeOK
  <2> QED BY <2>3, <2>4
<1> QED BY <1>1, <1>2 DEF TableExact, FileOfPull

-----------------------------------------------------------------------------
(* A client that drops its receiver *)

LEMMA DetachStep ==
    ASSUME PullInv, NEW c \in Client, client[c].at \in Attached,
           NEW at \in Told \cup {"idle"}, Detach(c, at), UNCHANGED <<pulls, creating>>
    PROVE  PullInv'
<1> USE DEF PullInv
<1>1. PICK p \in Pull : p = client[c].pull /\ c \in Receivers(p)
  BY DEF ChannelInv, ReaderPlace, Receivers
<1>2. client' = [client EXCEPT ![c] = [Away EXCEPT !.at = at]]
  BY DEF Detach
<1>3. client' \in [Client -> ClientState] /\ client'[c].at \notin Attached
  BY <1>2 DEF TypeOK, ClientState, Away, Told, Attached
<1>4. \A q \in Pull : Receivers(q)' = Receivers(q) \ {c}
  BY <1>2, <1>3 DEF Receivers, TypeOK
<1>5. CASE task[p].at = "closed" /\ Receivers(p) = {c}
  <2>1. task' = [task EXCEPT ![p] = Closed] /\ sent' = [sent EXCEPT ![p] = <<>>]
    BY <1>1, <1>5 DEF Detach, Free
  <2>2. Closed \in TaskState
    BY DEF Closed, TaskState
  <2>3. TypeOK'
    BY <1>1, <1>3, <2>1, <2>2 DEF TypeOK
  <2>4. TableExact'
    BY <1>1, <1>5, <2>1, <2>2, TableKept DEF Closed
  <2>5. ASSUME NEW q \in Pull PROVE ChannelShape(q)'
    <3>1. CASE q = p
      <4>1. task'[p] = Closed
        BY <1>1, <2>1 DEF TypeOK
      <4>2. Receivers(p)' = {}
        BY <1>1, <1>4, <1>5
      <4>3. ChannelShape(p)'
        BY <4>1, <4>2 DEF ChannelShape, Closed
      <4> QED BY <3>1, <4>3
    <3>2. CASE q # p
      <4>1. task'[q] = task[q] /\ sent'[q] = sent[q]
        BY <3>2, <2>1 DEF TypeOK
      <4>2. ChannelShape(q)
        BY DEF ChannelInv
      <4> QED BY <1>4, <4>1, <4>2, ShapeKept
    <3> QED BY <3>1, <3>2
  <2>6. ASSUME NEW d \in Client PROVE ReaderPlace(d)'
    <3>1. CASE d = c
      BY <1>3, <3>1 DEF ReaderPlace
    <3>2. CASE d # c
      <4>1. client'[d] = client[d] /\ ReaderPlace(d)
        BY <1>2, <3>2 DEF TypeOK, ChannelInv
      <4>2. ASSUME client[d].at \in Attached PROVE Grown(client[d].pull)
        <5>1. client[d].pull \in Pull /\ client[d].pull # p
          BY <4>1, <4>2, <1>5, <3>2 DEF ReaderPlace, Receivers
        <5>2. sent'[client[d].pull] = sent[client[d].pull] /\ Len(sent[client[d].pull]) \in Nat
          BY <5>1, <2>1 DEF TypeOK
        <5> QED BY <5>2 DEF Grown
      <4> QED BY <4>1, <4>2, ReaderKept
    <3> QED BY <3>1, <3>2
  <2> QED BY <2>3, <2>4, <2>5, <2>6 DEF ChannelInv
<1>6. CASE ~(task[p].at = "closed" /\ Receivers(p) = {c})
  <2>1. UNCHANGED <<task, sent>>
    BY <1>1, <1>6 DEF Detach
  <2>2. TypeOK' /\ TableExact'
    BY <1>3, <2>1 DEF TypeOK, TableExact, FileOfPull
  <2>3. ASSUME NEW q \in Pull PROVE ChannelShape(q)'
    <3>1. ChannelShape(q)
      BY DEF ChannelInv
    <3> QED BY <1>4, <2>1, <3>1, ShapeKept
  <2>4. ASSUME NEW d \in Client PROVE ReaderPlace(d)'
    <3>1. CASE d = c
      BY <1>3, <3>1 DEF ReaderPlace
    <3>2. CASE d # c
      BY <1>2, <2>1, <3>2 DEF TypeOK, ChannelInv, ReaderPlace
    <3> QED BY <3>1, <3>2
  <2> QED BY <2>2, <2>3, <2>4 DEF ChannelInv
<1> QED BY <1>5, <1>6

-----------------------------------------------------------------------------
(* The inductive invariant *)

LEMMA InitInv == Init => PullInv
<1> SUFFICES ASSUME Init PROVE PullInv
  OBVIOUS
<1> USE DEF Init
<1>1. TypeOK
  BY DEF TypeOK, TaskState, ClientState, Closed, Away
<1>2. TableExact
  BY PullAssumption DEF TableExact, Closed
<1>3. \A p \in Pull : Receivers(p) = {}
  BY DEF Receivers, Away, Attached
<1>4. ChannelInv
  BY <1>3 DEF ChannelInv, ChannelShape, ReaderPlace, Closed, Away, Attached
<1> QED BY <1>1, <1>2, <1>4 DEF PullInv

LEMMA StartStep ==
    ASSUME PullInv, NEW c \in Client, NEW k \in Key, Start(c, k)
    PROVE  PullInv'
<1> USE DEF PullInv
<1>1. PICK p \in Pull :
        /\ task[p].at = "closed" /\ Receivers(p) = {}
        /\ pulls' = [pulls EXCEPT ![FileOf[k]] = p]
        /\ task' = [task EXCEPT ![p] = [at |-> "pulling", key |-> k, result |-> "abandoned"]]
        /\ sent' = [sent EXCEPT ![p] = <<>>]
        /\ client' = [client EXCEPT ![c] = [at |-> "head", pull |-> p, next |-> 1]]
  BY DEF Start, Attach
<1>2. /\ client[c].at \notin Attached /\ creating' = creating
      /\ pulls[FileOf[k]] = None /\ FileOf[k] \notin creating /\ FileOf[k] \in File
  BY PullAssumption DEF Start, Waiting
<1>3. TypeOK'
  BY <1>1, <1>2 DEF TypeOK, TaskState, ClientState, Attached
<1>4. \A f \in File : pulls[f] # p
  BY <1>1, NotInTable
<1>5. TableExact'
  <2>1. ASSUME NEW q \in Pull
        PROVE  (task[q].at \in {"pulling", "ended"} <=>
                   task[q].key \in Key /\ pulls[FileOfPull(q)] = q)'
    <3>1. CASE q = p
      BY <1>1, <1>2, <3>1 DEF TypeOK, FileOfPull
    <3>2. CASE q # p
      <4>1. task'[q] = task[q]
        BY <1>1, <3>2 DEF TypeOK
      <4>2. task[q].key \in Key => FileOf[task[q].key] \in File
        BY PullAssumption
      <4>3. q # None
        BY PullAssumption
      <4> QED BY <1>1, <1>2, <3>2, <4>1, <4>2, <4>3 DEF TypeOK, TableExact, FileOfPull
    <3> QED BY <3>1, <3>2
  <2>2. ASSUME NEW f \in File, pulls'[f] # None
        PROVE  f \notin creating /\ task'[pulls'[f]].key \in Key /\ FileOf[task'[pulls'[f]].key] = f
    <3>1. CASE f = FileOf[k]
      BY <1>1, <1>2, <3>1 DEF TypeOK
    <3>2. CASE f # FileOf[k]
      <4>1. pulls'[f] = pulls[f] /\ pulls[f] \in Pull /\ pulls[f] # p
        BY <1>1, <1>4, <2>2, <3>2 DEF TypeOK
      <4>2. task'[pulls[f]] = task[pulls[f]]
        BY <1>1, <4>1 DEF TypeOK
      <4> QED BY <2>2, <4>1, <4>2 DEF TableExact, FileOfPull
    <3> QED BY <3>1, <3>2
  <2> QED BY <1>2, <2>1, <2>2 DEF TableExact, FileOfPull
<1>6. ASSUME NEW q \in Pull PROVE ChannelShape(q)'
  <2>1. CASE q = p
    <3>1. task'[p].at = "pulling" /\ sent'[p] = <<>>
      BY <1>1 DEF TypeOK
    <3> QED BY <2>1, <3>1 DEF ChannelShape, Plain
  <2>2. CASE q # p
    <3>1. task'[q] = task[q] /\ sent'[q] = sent[q] /\ ChannelShape(q)
      BY <1>1, <2>2 DEF TypeOK, ChannelInv
    <3>2. Receivers(q)' = Receivers(q)
      BY <1>1, <1>2, <2>2 DEF Receivers, TypeOK
    <3> QED BY <3>1, <3>2, ShapeKept
  <2> QED BY <2>1, <2>2
<1>7. ASSUME NEW d \in Client PROVE ReaderPlace(d)'
  <2>1. CASE d = c
    BY <1>1, <2>1 DEF ReaderPlace, TypeOK
  <2>2. CASE d # c
    <3>1. client'[d] = client[d] /\ ReaderPlace(d)
      BY <1>1, <2>2 DEF TypeOK, ChannelInv
    <3>2. ASSUME client[d].at \in Attached PROVE Grown(client[d].pull)
      <4>1. client[d].pull \in Pull /\ client[d].pull # p
        BY <1>1, <3>1, <3>2 DEF ReaderPlace, Receivers
      <4>2. sent'[client[d].pull] = sent[client[d].pull] /\ Len(sent[client[d].pull]) \in Nat
        BY <1>1, <4>1 DEF TypeOK
      <4> QED BY <4>2 DEF Grown
    <3> QED BY <3>1, <3>2, ReaderKept
  <2> QED BY <2>1, <2>2
<1> QED BY <1>3, <1>5, <1>6, <1>7 DEF ChannelInv

LEMMA JoinStep ==
    ASSUME PullInv, NEW c \in Client, NEW k \in Key, Join(c, k)
    PROVE  PullInv'
<1> USE DEF PullInv
<1>1. PICK p \in Pull :
        /\ p = pulls[FileOf[k]] /\ task[p].at \in {"pulling", "ended"}
        /\ client' = [client EXCEPT ![c] = [at |-> "head", pull |-> p, next |-> Len(sent[p]) + 1]]
  <2>1. FileOf[k] \in File
    BY PullAssumption
  <2>2. pulls[FileOf[k]] \in Pull
    BY <2>1 DEF Join, TypeOK
  <2>3. FileOfPull(pulls[FileOf[k]]) = FileOf[k] /\ task[pulls[FileOf[k]]].key \in Key
    BY <2>1, <2>2, PullAssumption DEF TableExact
  <2> QED BY <2>2, <2>3 DEF Join, Attach, TableExact
<1>2. client[c].at \notin Attached /\ UNCHANGED <<pulls, creating, task, sent>>
  BY DEF Join, Waiting
<1>3. Len(sent[p]) \in Nat
  BY DEF TypeOK
<1>4. TypeOK' /\ TableExact'
  BY <1>1, <1>2, <1>3 DEF TypeOK, ClientState, Attached, TableExact, FileOfPull
<1>5. ASSUME NEW q \in Pull PROVE ChannelShape(q)'
  <2>1. CASE q = p
    BY <1>1, <1>2, <2>1 DEF ChannelInv, ChannelShape, Plain
  <2>2. CASE q # p
    <3>1. Receivers(q)' = Receivers(q)
      BY <1>1, <1>2, <2>2 DEF Receivers, TypeOK
    <3>2. ChannelShape(q)
      BY DEF ChannelInv
    <3> QED BY <1>2, <3>1, <3>2, ShapeKept
  <2> QED BY <2>1, <2>2
<1>6. \A i \in 1..Len(sent[p]) : sent[p][i] \in {"line", "layer", "success"}
  <2>1. ChannelShape(p) /\ task[p].result \in {"ok", "failed", "abandoned"}
    BY DEF ChannelInv, TypeOK, TaskState
  <2> QED BY <1>1, <1>3, <2>1 DEF ChannelShape, Plain
<1>7. ASSUME NEW d \in Client PROVE ReaderPlace(d)'
  <2>1. CASE d = c
    BY <1>1, <1>2, <1>3, <1>6, <2>1 DEF ReaderPlace, TypeOK
  <2>2. CASE d # c
    BY <1>1, <1>2, <2>2 DEF TypeOK, ChannelInv, ReaderPlace
  <2> QED BY <2>1, <2>2
<1> QED BY <1>4, <1>5, <1>7 DEF ChannelInv

\* A client that reads on, having been told nothing yet.
LEMMA ReceiveStep ==
    ASSUME PullInv, NEW c \in Client, Receive(c)
    PROVE  PullInv'
<1> USE DEF PullInv
<1>1. PICK p \in Pull : p = client[c].pull /\ c \in Receivers(p)
  BY DEF Receive, ChannelInv, ReaderPlace, Receivers
<1>2. PICK at \in Hears(client[c].at, sent[p][Place(c)]) :
        IF at \in Told
        THEN Detach(c, at)
        ELSE /\ client' = [client EXCEPT ![c] = [@ EXCEPT !.at = at, !.next = Place(c) + 1]]
             /\ UNCHANGED <<task, sent>>
  BY <1>1 DEF Receive
<1>3. client[c].at \in Attached /\ UNCHANGED <<pulls, creating>> /\ Place(c) <= Len(sent[p])
  BY <1>1 DEF Receive
<1>4. CASE at \in Told
  BY <1>2, <1>3, <1>4, DetachStep
<1>5. CASE at \notin Told
  <2>1. /\ client' = [client EXCEPT ![c] = [@ EXCEPT !.at = at, !.next = Place(c) + 1]]
        /\ UNCHANGED <<pulls, creating, task, sent>>
    BY <1>2, <1>3, <1>5
  <2>2. /\ Place(c) \in 1..Len(sent[p]) /\ Len(sent[p]) \in Nat
        /\ client[c].next \in Nat /\ client[c].next >= 1
    BY <1>1, <1>3, PullAssumption DEF Place, Oldest, TypeOK, ClientState, ChannelInv, ReaderPlace
  <2>3. at \in Attached /\ sent[p][Place(c)] \in {"line", "layer"}
    <3>1. sent[p][Place(c)] \in Event
      BY <2>2 DEF TypeOK
    <3> QED BY <1>2, <1>3, <1>5, <3>1 DEF Hears, Told, Attached, Event
  <2>4. Plain(sent[p], Place(c))
    <3>1. ChannelShape(p) /\ Receivers(p) # {}
      BY <1>1 DEF ChannelInv
    <3> QED BY <2>2, <2>3, <3>1, PlainBefore
  <2>5. client'[c] = [at |-> at, pull |-> p, next |-> Place(c) + 1]
    BY <1>1, <2>1 DEF TypeOK, ClientState
  <2>6. TypeOK' /\ TableExact'
    BY <2>1, <2>2, <2>3, <2>5 DEF TypeOK, ClientState, TableExact, FileOfPull
  <2>7. \A q \in Pull : Receivers(q)' = Receivers(q)
    BY <1>1, <1>3, <2>1, <2>3, <2>5 DEF Receivers, TypeOK
  <2>8. ASSUME NEW q \in Pull PROVE ChannelShape(q)'
    <3>1. ChannelShape(q)
      BY DEF ChannelInv
    <3> QED BY <2>1, <2>7, <3>1, ShapeKept
  <2>9. ASSUME NEW d \in Client PROVE ReaderPlace(d)'
    <3>1. CASE d = c
      <4>1. PICK n \in 1..Len(sent[p]) : n = Place(c)
        BY <2>2
      <4>2. client'[c].at = at /\ client'[c].pull = p /\ client'[c].next = n + 1
        BY <2>5, <4>1
      <4>5. sent'[p] = sent[p]
        BY <2>1
      <4>6. n + 1 >= 1 /\ n + 1 <= Len(sent[p]) + 1 /\ (n + 1) - 1 = n
        BY <2>2, <4>1
      <4>3. \A i \in 1..n : sent[p][i] \in {"line", "layer"}
        BY <2>4, <4>1 DEF Plain
      <4>4. ReaderPlace(c)'
        BY <4>2, <4>3, <4>5, <4>6 DEF ReaderPlace
      <4> QED BY <3>1, <4>4
    <3>2. CASE d # c
      BY <2>1, <3>2 DEF TypeOK, ChannelInv, ReaderPlace
    <3> QED BY <3>1, <3>2
  <2> QED BY <2>6, <2>8, <2>9 DEF ChannelInv
<1> QED BY <1>4, <1>5

\* Progress and success: the task sends one event from where it pulls.
LEMMA SendStep ==
    ASSUME PullInv, NEW p \in Pull, task[p].at = "pulling", NEW e \in Event, Send(p, e),
           NEW r \in TaskState, task' = [task EXCEPT ![p] = r], r.key = task[p].key,
           \/ r.at = "pulling" /\ e \in {"line", "layer"}
           \/ r.at = "ended" /\ r.result = "ok" /\ e = "success",
           UNCHANGED <<pulls, creating, client>>
    PROVE  PullInv'
<1> USE DEF PullInv
<1>1. sent[p] \in Seq(Event) /\ Len(sent[p]) \in Nat
  BY DEF TypeOK
<1>2. sent' = [sent EXCEPT ![p] = Append(sent[p], e)] /\ sent'[p] = Append(sent[p], e)
  BY DEF Send, TypeOK
<1>3. /\ sent'[p] \in Seq(Event) /\ Len(sent'[p]) = Len(sent[p]) + 1
      /\ sent'[p][Len(sent[p]) + 1] = e /\ Grown(p)
      /\ Plain(sent[p], Len(sent[p])) <=> Plain(sent'[p], Len(sent[p]))
  BY <1>1, <1>2, AppendKeeps DEF Grown
<1>4. TypeOK'
  BY <1>2, <1>3 DEF TypeOK
<1>5. TableExact'
  BY TableKept
<1>6. Plain(sent'[p], Len(sent[p])) /\ task'[p] = r
  BY <1>3 DEF ChannelInv, ChannelShape, TypeOK
<1>7. ChannelShape(p)'
  <2>1. CASE r.at = "pulling" /\ e \in {"line", "layer"}
    BY <1>1, <1>3, <1>6, <2>1 DEF ChannelShape, Plain
  <2>2. CASE r.at = "ended" /\ r.result = "ok" /\ e = "success"
    BY <1>1, <1>3, <1>6, <2>2 DEF ChannelShape
  <2> QED BY <2>1, <2>2
<1>8. ChannelInv'
  BY <1>2, <1>3, <1>7, TaskStep
<1> QED BY <1>4, <1>5, <1>8

\* The select ends without a success: the download failed, or was given up.
LEMMA EndStep ==
    ASSUME PullInv, NEW p \in Pull, task[p].at = "pulling", NEW how \in {"failed", "abandoned"},
           Ends(p, how), UNCHANGED <<pulls, creating, sent, client>>
    PROVE  PullInv'
<1> USE DEF PullInv
<1> DEFINE r == [task[p] EXCEPT !.at = "ended", !.result = how]
<1>1. PICK q \in TaskState : /\ q.at = "ended" /\ q.result = how /\ q.key = task[p].key
                            /\ task' = [task EXCEPT ![p] = q]
  <2>1. r \in TaskState /\ r.at = "ended" /\ r.result = how /\ r.key = task[p].key
    BY DEF TypeOK, TaskState
  <2> QED BY <2>1 DEF Ends, TypeOK
<1>2. TypeOK'
  BY <1>1 DEF TypeOK
<1>3. TableExact'
  BY <1>1, TableKept
<1>4. task'[p] = q /\ Plain(sent[p], Len(sent[p]))
  BY <1>1 DEF TypeOK, ChannelInv, ChannelShape
<1>5. ChannelShape(p)'
  BY <1>1, <1>4 DEF ChannelShape, Plain
<1>6. sent' = [sent EXCEPT ![p] = sent[p]] /\ Grown(p)
  BY DEF TypeOK, Grown
<1>7. ChannelInv'
  BY <1>1, <1>5, <1>6, TaskStep
<1> QED BY <1>2, <1>3, <1>7

LEMMA LeaveTableStep ==
    ASSUME PullInv, NEW p \in Pull, LeaveTable(p)
    PROVE  PullInv'
<1> USE DEF PullInv
<1>1. PICK r \in TaskState : /\ r.at = "report" /\ r.result = task[p].result /\ r.key = task[p].key
                            /\ task' = [task EXCEPT ![p] = r]
  <2>1. LET r == [task[p] EXCEPT !.at = "report"] IN
        r \in TaskState /\ r.at = "report" /\ r.result = task[p].result /\ r.key = task[p].key
    BY DEF TypeOK, TaskState
  <2> QED BY <2>1 DEF LeaveTable, TypeOK
<1>2. /\ task[p].at = "ended" /\ UNCHANGED <<creating, sent, client>>
      /\ pulls' = [pulls EXCEPT ![FileOfPull(p)] = None]
  BY DEF LeaveTable
<1>3. /\ FileOfPull(p) \in File /\ pulls[FileOfPull(p)] = p /\ task'[p] = r
      /\ \A f \in File : pulls[f] = p => f = FileOfPull(p)
  BY <1>1, <1>2, InTable DEF TypeOK
<1>4. TypeOK'
  BY <1>1, <1>2 DEF TypeOK
<1>5. TableExact'
  <2>1. ASSUME NEW q \in Pull
        PROVE  (task[q].at \in {"pulling", "ended"} <=>
                   task[q].key \in Key /\ pulls[FileOfPull(q)] = q)'
    <3>0. q # None
      BY PullAssumption
    <3>1. CASE q = p
      BY <1>1, <1>2, <1>3, <3>0, <3>1 DEF TypeOK, FileOfPull
    <3>2. CASE q # p
      <4>1. task'[q] = task[q] /\ FileOfPull(q)' = FileOfPull(q)
        BY <1>1, <3>2 DEF TypeOK, FileOfPull
      <4>2. task[q].key \in Key => FileOfPull(q) \in File
        BY PullAssumption DEF FileOfPull
      <4>3. task[q].key \in Key => (pulls'[FileOfPull(q)] = q <=> pulls[FileOfPull(q)] = q)
        BY <1>2, <1>3, <3>0, <3>2, <4>2 DEF TypeOK
      <4> QED BY <4>1, <4>3 DEF TableExact
    <3> QED BY <3>1, <3>2
  <2>2. ASSUME NEW f \in File, pulls'[f] # None
        PROVE  f \notin creating /\ task'[pulls'[f]].key \in Key /\ FileOf[task'[pulls'[f]].key] = f
    <3>1. pulls'[f] = pulls[f] /\ pulls[f] \in Pull /\ pulls[f] # p
      BY <1>2, <1>3, <2>2 DEF TypeOK
    <3>2. task'[pulls[f]] = task[pulls[f]]
      BY <1>1, <3>1 DEF TypeOK
    <3> QED BY <2>2, <3>1, <3>2 DEF TableExact, FileOfPull
  <2> QED BY <1>2, <2>1, <2>2 DEF TableExact, FileOfPull
<1>6. ChannelShape(p)'
  BY <1>1, <1>2, <1>3 DEF ChannelInv, ChannelShape, Plain
<1>7. sent' = [sent EXCEPT ![p] = sent[p]] /\ Grown(p)
  BY <1>2 DEF TypeOK, Grown
<1>8. ChannelInv'
  BY <1>1, <1>2, <1>6, <1>7, TaskStep
<1> QED BY <1>4, <1>5, <1>8

\* The task drops its sender, after the end of its download if it has one to tell.
LEMMA ReportStep ==
    ASSUME PullInv, NEW p \in Pull, Report(p)
    PROVE  PullInv'
<1> USE DEF PullInv
<1>0. task[p].at = "report" /\ UNCHANGED <<pulls, creating, client>> /\ Len(sent[p]) \in Nat
  BY DEF Report, TypeOK
<1>1. CASE Receivers(p) = {}
  <2>1. task' = [task EXCEPT ![p] = Closed] /\ sent' = [sent EXCEPT ![p] = <<>>]
    BY <1>1 DEF Report, Free
  <2>2. Closed \in TaskState /\ task'[p] = Closed /\ Receivers(p)' = {}
    BY <1>0, <1>1, <2>1 DEF Closed, TaskState, TypeOK, Receivers
  <2>3. TypeOK'
    BY <1>0, <2>1, <2>2 DEF TypeOK
  <2>4. TableExact'
    BY <1>0, <2>1, <2>2, TableKept DEF Closed
  <2>5. ChannelShape(p)'
    BY <2>2 DEF ChannelShape, Closed
  <2>6. ChannelInv'
    BY <1>0, <1>1, <2>1, <2>5, TaskStep
  <2> QED BY <2>3, <2>4, <2>6
<1>2. CASE Receivers(p) # {}
  <2>1. PICK r \in TaskState : /\ r.at = "closed" /\ r.result = task[p].result
                              /\ task' = [task EXCEPT ![p] = r]
    <3>1. LET r == [task[p] EXCEPT !.at = "closed"] IN
          r \in TaskState /\ r.at = "closed" /\ r.result = task[p].result
      BY DEF TypeOK, TaskState
    <3> QED BY <1>2, <3>1 DEF Report, TypeOK
  <2>2. task'[p] = r /\ r.result \in {"ok", "failed", "abandoned"}
    BY <2>1 DEF TypeOK, TaskState
  <2>3. TableExact'
    BY <1>0, <2>1, TableKept
  <2>4. CASE task[p].result = "abandoned"
    <3>1. sent' = sent /\ Plain(sent[p], Len(sent[p]))
      BY <1>0, <1>2, <2>4 DEF Report, ChannelInv, ChannelShape
    <3>2. TypeOK'
      BY <1>0, <2>1, <3>1 DEF TypeOK
    <3>3. ChannelShape(p)'
      BY <2>1, <2>2, <2>4, <3>1 DEF ChannelShape, Plain
    <3>4. sent' = [sent EXCEPT ![p] = sent[p]] /\ Grown(p)
      BY <1>0, <3>1 DEF TypeOK, Grown
    <3>5. ChannelInv'
      BY <1>0, <2>1, <3>3, <3>4, TaskStep
    <3> QED BY <2>3, <3>2, <3>5
  <2>5. CASE task[p].result # "abandoned"
    <3> DEFINE n == Len(sent[p])
    <3>1. PICK e \in {"done", "failed"} :
            /\ e = "done" <=> task[p].result = "ok"
            /\ sent' = [sent EXCEPT ![p] = Append(sent[p], e)]
      BY <1>2, <2>1, <2>2, <2>5 DEF Report, Outcome
    <3>2. e \in Event /\ sent[p] \in Seq(Event) /\ sent'[p] = Append(sent[p], e)
      BY <3>1 DEF TypeOK, Event
    <3>3. /\ sent'[p] \in Seq(Event) /\ Len(sent'[p]) = n + 1 /\ sent'[p][n + 1] = e
          /\ \A i \in 1..n : sent'[p][i] = sent[p][i]
      BY <3>2, AppendKeeps
    <3>4. TypeOK'
      BY <1>0, <2>1, <3>1, <3>3 DEF TypeOK
    <3>5. Grown(p)
      BY <1>0, <3>3 DEF Grown
    <3>6. ChannelShape(p)'
      <4>1. CASE task[p].result = "ok"
        <5>1. n >= 1 /\ sent[p][n] = "success" /\ Plain(sent[p], n - 1)
          BY <1>0, <4>1 DEF ChannelInv, ChannelShape
        <5>2. /\ Len(sent'[p]) >= 2 /\ Len(sent'[p]) - 1 = n /\ Len(sent'[p]) - 2 = n - 1
              /\ sent'[p][n] = "success" /\ sent'[p][Len(sent'[p])] = "done"
          BY <1>0, <3>1, <3>3, <4>1, <5>1
        <5>3. Plain(sent'[p], n - 1)
          BY <1>0, <3>3, <5>1 DEF Plain
        <5> HIDE DEF n
        <5> QED BY <2>1, <2>2, <4>1, <5>2, <5>3 DEF ChannelShape
      <4>2. CASE task[p].result = "failed"
        <5>1. Plain(sent[p], n)
          BY <1>0, <4>2 DEF ChannelInv, ChannelShape
        <5>2. /\ Len(sent'[p]) >= 1 /\ Len(sent'[p]) - 1 = n
              /\ sent'[p][Len(sent'[p])] = "failed"
          BY <1>0, <3>1, <3>3, <4>2
        <5>3. Plain(sent'[p], n)
          BY <1>0, <3>3, <5>1 DEF Plain
        <5> HIDE DEF n
        <5> QED BY <2>1, <2>2, <4>2, <5>2, <5>3 DEF ChannelShape
      <4> QED BY <2>1, <2>2, <2>5, <4>1, <4>2
    <3>7. ChannelInv'
      BY <1>0, <2>1, <3>1, <3>5, <3>6, TaskStep
    <3> QED BY <2>3, <3>4, <3>7
  <2> QED BY <2>4, <2>5
<1> QED BY <1>1, <1>2

LEMMA StepInv == PullInv /\ [Next]_vars => PullInv'
<1> SUFFICES ASSUME PullInv, [Next]_vars PROVE PullInv'
  OBVIOUS
<1> USE DEF PullInv
<1>1. ASSUME NEW c \in Client, NEW k \in Key, Start(c, k) PROVE PullInv'
  BY <1>1, StartStep
<1>2. ASSUME NEW c \in Client, NEW k \in Key, Join(c, k) PROVE PullInv'
  BY <1>2, JoinStep
<1>3. ASSUME NEW c \in Client, Receive(c) PROVE PullInv'
  BY <1>3, ReceiveStep
<1>4. ASSUME NEW c \in Client, ReceiveClosed(c) PROVE PullInv'
  <2>1. "cut" \in Told \cup {"idle"}
    BY DEF Told
  <2> QED BY <1>4, <2>1, DetachStep DEF ReceiveClosed
<1>5. ASSUME NEW c \in Client, Leave(c) PROVE PullInv'
  BY <1>5, DetachStep DEF Leave
<1>6. ASSUME NEW f \in File, CreateStarts(f) PROVE PullInv'
  <2>1. TypeOK' /\ TableExact'
    BY <1>6 DEF CreateStarts, TypeOK, TableExact, FileOfPull
  <2>2. ChannelInv'
    BY <1>6 DEF CreateStarts, ChannelInv, ChannelShape, ReaderPlace, Receivers, Plain
  <2> QED BY <2>1, <2>2
<1>7. ASSUME NEW f \in File, CreateEnds(f) PROVE PullInv'
  <2>1. TypeOK' /\ TableExact'
    BY <1>7 DEF CreateEnds, TypeOK, TableExact, FileOfPull
  <2>2. ChannelInv'
    BY <1>7 DEF CreateEnds, ChannelInv, ChannelShape, ReaderPlace, Receivers, Plain
  <2> QED BY <2>1, <2>2
<1>8. ASSUME NEW p \in Pull, Progress(p) PROVE PullInv'
  <2>1. PICK e \in {"line", "layer"} : Send(p, e)
    BY <1>8 DEF Progress
  <2>2. task[p] \in TaskState /\ task' = [task EXCEPT ![p] = task[p]] /\ e \in Event
    BY <1>8 DEF Progress, TypeOK, Event
  <2> QED BY <1>8, <2>1, <2>2, SendStep DEF Progress
<1>9. ASSUME NEW p \in Pull, PullOk(p) PROVE PullInv'
  <2>1. PICK r \in TaskState : /\ r.at = "ended" /\ r.result = "ok" /\ r.key = task[p].key
                              /\ task' = [task EXCEPT ![p] = r]
    <3>1. LET r == [task[p] EXCEPT !.at = "ended", !.result = "ok"] IN
          r \in TaskState /\ r.at = "ended" /\ r.result = "ok" /\ r.key = task[p].key
      BY DEF TypeOK, TaskState
    <3> QED BY <1>9, <3>1 DEF PullOk, Ends, TypeOK
  <2>2. "success" \in Event
    BY DEF Event
  <2> QED BY <1>9, <2>1, <2>2, SendStep DEF PullOk
<1>10. ASSUME NEW p \in Pull, PullFails(p) PROVE PullInv'
  BY <1>10, EndStep DEF PullFails
<1>11. ASSUME NEW p \in Pull, Abandon(p) PROVE PullInv'
  BY <1>11, EndStep DEF Abandon
<1>12. ASSUME NEW p \in Pull, LeaveTable(p) PROVE PullInv'
  BY <1>12, LeaveTableStep
<1>13. ASSUME NEW p \in Pull, Report(p) PROVE PullInv'
  BY <1>13, ReportStep
<1>14. ASSUME UNCHANGED vars PROVE PullInv'
  <2>1. TypeOK' /\ TableExact'
    BY <1>14 DEF vars, TypeOK, TableExact, FileOfPull
  <2>2. ChannelInv'
    BY <1>14 DEF vars, ChannelInv, ChannelShape, ReaderPlace, Receivers, Plain
  <2> QED BY <2>1, <2>2
<1> HIDE DEF PullInv
<1> QED BY <1>1, <1>2, <1>3, <1>4, <1>5, <1>6, <1>7, <1>8, <1>9, <1>10, <1>11, <1>12,
           <1>13, <1>14 DEF Next

LEMMA Invariance == Spec => []PullInv
BY InitInv, StepInv, PTL DEF Spec

-----------------------------------------------------------------------------
(* The theorems *)

\* PullService keeps its types.
THEOREM PullsTyped == Spec => []TypeOK
<1>1. PullInv => TypeOK
  BY DEF PullInv
<1> QED BY Invariance, <1>1, PTL

\* However claims, ends and creates interleave, the table's entry of a file is the pull
\* that claimed it and still holds it, so the removal by file in the task's last
\* steps never takes another pull's entry.
THEOREM TableAlwaysExact == Spec => []TableExact
<1>1. PullInv => TableExact
  BY DEF PullInv
<1> QED BY Invariance, <1>1, PTL

\* The end a client reads, of all that its channel still holds, is its pull's.
LEMMA ToldRight ==
    ASSUME Capacity > 1, PullInv, NEW c \in Client, Receive(c), client'[c].at \in Told
    PROVE  client'[c].at = (CASE task[client[c].pull].result = "ok" -> "success"
                              [] task[client[c].pull].result = "failed" -> "failed"
                              [] task[client[c].pull].result = "abandoned" -> "cut")
<1> USE DEF PullInv
<1>1. PICK p \in Pull : p = client[c].pull /\ c \in Receivers(p)
  BY DEF Receive, ChannelInv, ReaderPlace, Receivers
<1>2. PICK i \in 1..Len(sent[p]) : i = Place(c)
  <2>1. Place(c) <= Len(sent[p]) /\ Len(sent[p]) \in Nat /\ client[c].at \in Attached
    BY <1>1 DEF Receive, TypeOK
  <2> QED BY <1>1, <2>1, PullAssumption
            DEF Place, Oldest, TypeOK, ClientState, ChannelInv, ReaderPlace
<1>3. client'[c].at \in Hears(client[c].at, sent[p][i])
  <2>1. PICK at \in Hears(client[c].at, sent[p][i]) :
          IF at \in Told
          THEN Detach(c, at)
          ELSE client' = [client EXCEPT ![c] = [@ EXCEPT !.at = at, !.next = Place(c) + 1]]
    BY <1>1, <1>2 DEF Receive
  <2> QED BY <2>1 DEF Detach, TypeOK, ClientState, Away
<1>4. /\ ChannelShape(p) /\ ReaderPlace(c) /\ client[c].at \in Attached /\ Len(sent[p]) \in Nat
      /\ task[p].at \in {"pulling", "ended", "report", "closed"}
      /\ task[p].result \in {"ok", "failed", "abandoned"}
      /\ sent[p][i] \in Event /\ client[c].next \in Nat
  BY <1>2 DEF Receive, ChannelInv, TypeOK, TaskState, ClientState
<1>5. CASE sent[p][i] = "failed"
  <2>1. client'[c].at = "failed"
    BY <1>3, <1>5 DEF Hears
  <2>2. task[p].result = "failed"
    BY <1>1, <1>4, <1>5 DEF ChannelShape, Plain
  <2> QED BY <1>1, <2>1, <2>2
<1>6. CASE sent[p][i] = "success"
  <2>1. client'[c].at = "success"
    BY <1>3, <1>6 DEF Hears
  <2>2. task[p].result = "ok"
    BY <1>1, <1>4, <1>6 DEF ChannelShape, Plain
  <2> QED BY <1>1, <2>1, <2>2
<1>7. CASE sent[p][i] = "done"
  <2>1. /\ task[p].at = "closed" /\ task[p].result = "ok" /\ i = Len(sent[p])
        /\ Len(sent[p]) >= 2 /\ sent[p][Len(sent[p]) - 1] = "success"
    BY <1>1, <1>4, <1>7 DEF ChannelShape, Plain
  <2>2. client[c].at # "lines"
    <3> SUFFICES ASSUME client[c].at = "lines" PROVE FALSE
      OBVIOUS
    <3>1. \A k \in 1..(client[c].next - 1) : sent[p][k] # "success"
      BY <1>1, <1>4 DEF ReaderPlace
    <3>2. Len(sent[p]) - 1 \notin 1..(client[c].next - 1)
      BY <2>1, <3>1
    <3>3. client[c].next <= Len(sent[p]) - 1
      BY <1>4, <2>1, <3>2
    <3>4. Oldest(p) <= Len(sent[p]) - 1
      BY <1>4, <2>1, PullAssumption DEF Oldest
    <3>5. Place(c) <= Len(sent[p]) - 1
      BY <1>1, <3>3, <3>4 DEF Place
    <3> QED BY <1>2, <1>4, <2>1, <3>5
  <2>3. client'[c].at = "success"
    BY <1>3, <1>7, <2>2 DEF Hears
  <2> QED BY <1>1, <2>1, <2>3
<1>8. CASE sent[p][i] \in {"line", "layer"}
  BY <1>3, <1>4, <1>8 DEF Hears, Told, Attached
<1> QED BY <1>4, <1>5, <1>6, <1>7, <1>8 DEF Event

\* A client finds its channel closed and empty only if the pull was given up.
LEMMA CutRight ==
    ASSUME PullInv, NEW c \in Client, ReceiveClosed(c)
    PROVE  client'[c].at = "cut" /\ task[client[c].pull].result = "abandoned"
<1> USE DEF PullInv
<1>1. PICK p \in Pull : p = client[c].pull /\ c \in Receivers(p)
  BY DEF ReceiveClosed, ChannelInv, ReaderPlace, Receivers
<1>2. /\ client[c].at \in Attached /\ task[p].at = "closed" /\ Place(c) > Len(sent[p])
      /\ client'[c].at = "cut"
  BY <1>1 DEF ReceiveClosed, Detach, TypeOK, ClientState, Away
<1>3. /\ ChannelShape(p) /\ ReaderPlace(c) /\ Len(sent[p]) \in Nat /\ client[c].next \in Nat
      /\ task[p].result \in {"ok", "failed", "abandoned"}
  BY DEF ChannelInv, TypeOK, TaskState, ClientState
<1>4. ASSUME task[p].result # "abandoned" PROVE FALSE
  <2>1. Len(sent[p]) >= 1 /\ sent[p][Len(sent[p])] \in {"done", "failed"}
    BY <1>1, <1>2, <1>3, <1>4 DEF ChannelShape
  <2>2. client[c].next <= Len(sent[p])
    <3>1. Len(sent[p]) \notin 1..(client[c].next - 1)
      BY <1>1, <1>2, <1>3, <2>1 DEF ReaderPlace
    <3> QED BY <1>3, <2>1, <3>1
  <2>3. Place(c) <= Len(sent[p])
    BY <1>1, <1>3, <2>1, <2>2, PullAssumption DEF Place, Oldest
  <2> QED BY <1>2, <1>3, <2>3, <1>1, PullAssumption DEF Place, Oldest
<1> QED BY <1>1, <1>2, <1>4

\* A client that hears no step of its own keeps its place.
LEMMA StepTells ==
    ASSUME Capacity > 1, PullInv, [Next]_vars, NEW c \in Client,
           client[c].at \in Attached, client'[c].at \in Told
    PROVE  client'[c].at = (CASE task[client[c].pull].result = "ok" -> "success"
                              [] task[client[c].pull].result = "failed" -> "failed"
                              [] task[client[c].pull].result = "abandoned" -> "cut")
<1>1. client'[c] # client[c]
  BY DEF Attached, Told
<1>2. Receive(c) \/ ReceiveClosed(c)
  <2>1. TypeOK
    BY DEF PullInv
  <2>2. ASSUME NEW d \in Client, NEW k \in Key, Start(d, k) \/ Join(d, k) PROVE FALSE
    BY <1>1, <2>1, <2>2 DEF Start, Join, Waiting, Attach, TypeOK
  <2>3. ASSUME NEW d \in Client, Leave(d) PROVE FALSE
    <3>1. client' = [client EXCEPT ![d] = [Away EXCEPT !.at = "idle"]]
      BY <2>3 DEF Leave, Detach
    <3>2. CASE d = c
      BY <2>1, <3>1, <3>2 DEF TypeOK, Away, Told
    <3> QED BY <1>1, <2>1, <3>1, <3>2 DEF TypeOK
  <2>4. ASSUME NEW d \in Client, d # c, Receive(d) \/ ReceiveClosed(d) PROVE FALSE
    BY <1>1, <2>1, <2>4 DEF Receive, ReceiveClosed, Detach, TypeOK
  <2>5. client' # client
    BY <1>1
  <2> QED BY <2>2, <2>3, <2>4, <2>5 DEF Next, vars, CreateStarts, CreateEnds, Progress, PullOk,
              PullFails, Abandon, LeaveTable, Report
<1>3. CASE Receive(c)
  BY <1>3, ToldRight
<1>4. CASE ReceiveClosed(c)
  BY <1>4, CutRight
<1> QED BY <1>2, <1>3, <1>4

\* With a channel of more than one slot, every client that is told an end is told its
\* pull's, however far it lagged and whenever it joined.  (A channel of one slot would
\* let the success be overwritten by the end after it.)
THEOREM EveryoneIsToldRight == ASSUME Capacity > 1 PROVE Spec => TellsOutcome
<1>1. ASSUME PullInv, [Next]_vars
      PROVE  [\A c \in Client :
                LET p == client[c].pull IN
                client[c].at \in Attached /\ client'[c].at \in Told =>
                    client'[c].at = (CASE task[p].result = "ok" -> "success"
                                       [] task[p].result = "failed" -> "failed"
                                       [] task[p].result = "abandoned" -> "cut")]_vars
  BY <1>1, StepTells
<1> QED BY Invariance, <1>1, PTL DEF Spec, TellsOutcome

=============================================================================
