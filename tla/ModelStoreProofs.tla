-------------------------- MODULE ModelStoreProofs --------------------------
(***************************************************************************)
(* Proofs about the model store, for every number of tasks, names,         *)
(* manifests and blobs: one pull or create writes a name at a time; a      *)
(* delete that meets no other task leaves nothing no model needs; and, as  *)
(* long as deletes and copies meet no other task and no two tasks bring    *)
(* one missing blob at a time, or when nothing happens but deletes,        *)
(* however many at once, no model is ever listed that is not fully         *)
(* present.  In the first of these cases the store implements Shelf.       *)
(***************************************************************************)
EXTENDS StoreRefines, TLAPS

-----------------------------------------------------------------------------
(* Types and claims *)

\* All a task remembers but where the file it opened is now.
Kept(p) ==
    /\ ops'[p].at = ops[p].at /\ ops'[p].kind = ops[p].kind
    /\ ops'[p].name = ops[p].name /\ ops'[p].from = ops[p].from
    /\ ops'[p].key = ops[p].key
    /\ ops'[p].manifest = ops[p].manifest
    /\ ops'[p].todo = ops[p].todo /\ ops'[p].blob = ops[p].blob

\* A step of one task, with what it does to the files others opened.
Steps(o, s) ==
    /\ s \in OpState /\ Proper(s) /\ RightKind(s)
    /\ ops' \in [Op -> OpState] /\ ops'[o] = s
    /\ \A p \in Op \ {o} : Kept(p)

\* A task that goes on keeps its name, its kind and its claim.
GoesOn(o, s) ==
    /\ ops[o].at # "idle" /\ s.at # "idle"
    /\ s.name = ops[o].name /\ s.kind = ops[o].kind

\* What a task was asked.
Same(s, t) == s.kind = t.kind /\ s.name = t.name /\ s.key = t.key /\ s.from = t.from

\* The ways a task goes on.
LEMMA SetAt ==
    ASSUME NEW s \in OpState, NEW p \in Points
    PROVE  LET t == [s EXCEPT !.at = p] IN
           /\ t \in OpState /\ t.at = p /\ Same(t, s)
           /\ t.manifest = s.manifest /\ t.todo = s.todo /\ t.blob = s.blob
           /\ t.file = s.file
BY DEF OpState, Same

LEMMA SetFile ==
    ASSUME NEW s \in OpState, NEW p \in Points, NEW f \in {"temp", "final", "gone"}
    PROVE  LET t == [s EXCEPT !.at = p, !.file = f] IN
           /\ t \in OpState
           /\ t.at = p /\ t.file = f /\ Same(t, s)
           /\ t.manifest = s.manifest /\ t.todo = s.todo /\ t.blob = s.blob
<1> DEFINE t == [s EXCEPT !.at = p, !.file = f]
<1>1. t \in OpState
  BY Zenon DEF OpState
<1>2. /\ t.at = p /\ t.file = f /\ Same(t, s)
      /\ t.manifest = s.manifest /\ t.todo = s.todo /\ t.blob = s.blob
  BY DEF OpState, Same
<1> QED BY <1>1, <1>2

LEMMA SetFetched ==
    ASSUME NEW s \in OpState, NEW p \in Points
    PROVE  LET t == [s EXCEPT !.at = p, !.file = "gone", !.lost = FALSE] IN
           /\ t \in OpState
           /\ t.at = p /\ Same(t, s)
           /\ t.manifest = s.manifest /\ t.todo = s.todo /\ t.blob = s.blob
<1> DEFINE t == [s EXCEPT !.at = p, !.file = "gone", !.lost = FALSE]
<1>1. t \in OpState
  BY Zenon DEF OpState
<1>2. /\ t.at = p /\ Same(t, s)
      /\ t.manifest = s.manifest /\ t.todo = s.todo /\ t.blob = s.blob
  BY DEF OpState, Same
<1> QED BY <1>1, <1>2

LEMMA SetOpened ==
    ASSUME NEW s \in OpState, NEW p \in Points, NEW b \in Blob
    PROVE  LET t == [s EXCEPT !.at = p, !.blob = b, !.file = "temp", !.lost = FALSE] IN
           /\ t \in OpState
           /\ t.at = p /\ t.blob = b /\ t.file = "temp" /\ Same(t, s)
           /\ t.manifest = s.manifest /\ t.todo = s.todo
<1> DEFINE t == [s EXCEPT !.at = p, !.blob = b, !.file = "temp", !.lost = FALSE]
<1>1. t \in OpState
  BY Zenon DEF OpState
<1>2. /\ t.at = p /\ t.blob = b /\ t.file = "temp" /\ Same(t, s)
      /\ t.manifest = s.manifest /\ t.todo = s.todo
  BY DEF OpState, Same
<1> QED BY <1>1, <1>2

LEMMA SetBlob ==
    ASSUME NEW s \in OpState, NEW p \in Points, NEW b \in Blob
    PROVE  LET t == [s EXCEPT !.at = p, !.blob = b] IN
           /\ t \in OpState
           /\ t.at = p /\ t.blob = b /\ Same(t, s)
           /\ t.manifest = s.manifest /\ t.todo = s.todo
<1> DEFINE t == [s EXCEPT !.at = p, !.blob = b]
<1>1. t \in OpState
  BY Zenon DEF OpState
<1>2. /\ t.at = p /\ t.blob = b /\ Same(t, s)
      /\ t.manifest = s.manifest /\ t.todo = s.todo
  BY DEF OpState, Same
<1> QED BY <1>1, <1>2

LEMMA SetBrought ==
    ASSUME NEW s \in OpState, NEW p \in Points, NEW B \in SUBSET Blob
    PROVE  LET t == [s EXCEPT !.at = p, !.todo = B, !.blob = None] IN
           /\ t \in OpState
           /\ t.at = p /\ t.todo = B /\ Same(t, s)
           /\ t.manifest = s.manifest
<1> DEFINE t == [s EXCEPT !.at = p, !.todo = B, !.blob = None]
<1>1. t \in OpState
  BY Zenon DEF OpState
<1>2. /\ t.at = p /\ t.todo = B /\ Same(t, s)
      /\ t.manifest = s.manifest
  BY DEF OpState, Same
<1> QED BY <1>1, <1>2

LEMMA SetLayers ==
    ASSUME NEW s \in OpState, NEW p \in Points, NEW m \in Manifest, NEW B \in SUBSET Blob
    PROVE  LET t == [s EXCEPT !.at = p, !.manifest = m, !.todo = B] IN
           /\ t \in OpState
           /\ t.at = p /\ t.manifest = m /\ t.todo = B /\ Same(t, s)
<1> DEFINE t == [s EXCEPT !.at = p, !.manifest = m, !.todo = B]
<1>1. t \in OpState
  BY Zenon DEF OpState
<1>2. t.at = p /\ t.manifest = m /\ t.todo = B /\ Same(t, s)
  BY DEF OpState, Same
<1> QED BY <1>1, <1>2

LEMMA SetManifest ==
    ASSUME NEW s \in OpState, NEW p \in Points, NEW m \in Manifest
    PROVE  LET t == [s EXCEPT !.at = p, !.manifest = m] IN
           /\ t \in OpState
           /\ t.at = p /\ t.manifest = m /\ Same(t, s)
<1> DEFINE t == [s EXCEPT !.at = p, !.manifest = m]
<1>1. t \in OpState
  BY Zenon DEF OpState
<1>2. t.at = p /\ t.manifest = m /\ Same(t, s)
  BY DEF OpState, Same
<1> QED BY <1>1, <1>2

LEMMA SetTodo ==
    ASSUME NEW s \in OpState, NEW p \in Points, NEW B \in SUBSET Blob
    PROVE  LET t == [s EXCEPT !.at = p, !.todo = B] IN
           /\ t \in OpState
           /\ t.at = p /\ t.todo = B /\ Same(t, s) /\ t.temps = s.temps
<1> DEFINE t == [s EXCEPT !.at = p, !.todo = B]
<1>1. t \in OpState
  BY Zenon DEF OpState
<1>2. t.at = p /\ t.todo = B /\ Same(t, s) /\ t.temps = s.temps
  BY DEF OpState, Same
<1> QED BY <1>1, <1>2

LEMMA SetSweep ==
    ASSUME NEW s \in OpState, NEW p \in Points, NEW B \in SUBSET Blob, NEW T \in SUBSET Blob
    PROVE  LET t == [s EXCEPT !.at = p, !.todo = B, !.temps = T] IN
           /\ t \in OpState
           /\ t.at = p /\ t.todo = B /\ t.temps = T /\ Same(t, s)
<1> DEFINE t == [s EXCEPT !.at = p, !.todo = B, !.temps = T]
<1>1. t \in OpState
  BY Zenon DEF OpState
<1>2. t.at = p /\ t.todo = B /\ t.temps = T /\ Same(t, s)
  BY DEF OpState, Same
<1> QED BY <1>1, <1>2

LEMMA SetEnd ==
    ASSUME NEW s \in OpState, NEW p \in Points
    PROVE  LET t == [s EXCEPT !.at = p, !.todo = {}, !.blob = None, !.file = "gone",
                              !.lost = FALSE]
           IN  /\ t \in OpState
               /\ t.at = p /\ Same(t, s) /\ t.manifest = s.manifest
<1> DEFINE t == [s EXCEPT !.at = p, !.todo = {}, !.blob = None, !.file = "gone",
                          !.lost = FALSE]
<1>1. t \in OpState
  BY Zenon DEF OpState
<1>2. t.at = p /\ Same(t, s) /\ t.manifest = s.manifest
  BY DEF OpState, Same
<1> QED BY <1>1, <1>2

LEMMA StepTyped ==
    ASSUME TableInv, NEW o \in Op, NEW s, Steps(o, s), DiskOK',
           pulls' \in [Name -> Key \cup {None}], creating' \subseteq Name
    PROVE  TypeOK' /\ KindInv'
<1>1. ASSUME NEW p \in Op PROVE Proper(ops'[p]) /\ RightKind(ops'[p])
  <2>1. CASE p = o
    BY <2>1 DEF Steps
  <2>2. CASE p # o
    BY <2>2 DEF Steps, Kept, TableInv, TypeOK, KindInv, Proper, RightKind
  <2> QED BY <2>1, <2>2
<1> QED BY <1>1 DEF Steps, TypeOK, KindInv

LEMMA StepGoesOn ==
    ASSUME TableInv, NEW o \in Op, NEW s, Steps(o, s), GoesOn(o, s), DiskOK',
           UNCHANGED <<pulls, creating>>
    PROVE  TableInv'
<1>1. TypeOK' /\ KindInv'
  BY StepTyped DEF TableInv, TypeOK
<1>2. \A p \in Op : /\ ops'[p].kind = ops[p].kind /\ ops'[p].name = ops[p].name
                    /\ ops'[p].at = "idle" <=> ops[p].at = "idle"
  BY DEF Steps, GoesOn, Kept
<1>3. \A n \in Name : Writers(n)' = Writers(n)
  BY <1>2 DEF Writers
<1>4. ClaimInv'
  BY <1>2, <1>3 DEF ClaimInv, TableInv, Writers
<1> QED BY <1>1, <1>4 DEF TableInv

\* A copy or a delete starts or ends without a claim.
LEMMA StepUnclaimed ==
    ASSUME TableInv, NEW o \in Op, NEW s, Steps(o, s), DiskOK',
           UNCHANGED <<pulls, creating>>,
           ops[o].at = "idle" \/ ops[o].kind \notin Claimed,
           s.at = "idle" \/ s.kind \notin Claimed
    PROVE  TableInv'
<1>1. TypeOK' /\ KindInv'
  BY StepTyped DEF TableInv, TypeOK
<1>2. \A n \in Name : /\ Writers(n)' = Writers(n)
                      /\ \A p \in Writers(n) : ops'[p].kind = ops[p].kind
  BY DEF Steps, Kept, Writers
<1>3. ClaimInv'
  BY <1>2 DEF ClaimInv, TableInv
<1> QED BY <1>1, <1>3 DEF TableInv

LEMMA IdleType == Idle \in OpState /\ Proper(Idle) /\ RightKind(Idle)
<1>1. Idle \in OpState
  BY DEF Idle, OpState, Points, Kind, Key
<1>2. Proper(Idle) /\ RightKind(Idle)
  BY DEF Idle, Proper, RightKind, Fetching, Bringing, Installing, Making
<1> QED BY <1>1, <1>2

LEMMA StartsFrom ==
    ASSUME NEW p \in Points, NEW k \in Kind, NEW c \in Name, NEW d \in Name
    PROVE  LET t == [Idle EXCEPT !.at = p, !.kind = k, !.name = c, !.from = d] IN
           t \in OpState /\ t.at = p /\ t.kind = k /\ t.name = c /\ t.from = d
<1> DEFINE t == [Idle EXCEPT !.at = p, !.kind = k, !.name = c, !.from = d]
<1>1. t \in OpState
  BY IdleType, Zenon DEF OpState
<1>2. t.at = p /\ t.kind = k /\ t.name = c /\ t.from = d
  BY DEF Idle
<1> QED BY <1>1, <1>2

LEMMA StartsPull ==
    ASSUME NEW p \in Points, NEW c \in Name, NEW k \in Key
    PROVE  LET t == [Idle EXCEPT !.at = p, !.name = c, !.key = k] IN
           t \in OpState /\ t.at = p /\ t.kind = "pull" /\ t.name = c /\ t.key = k
<1> DEFINE t == [Idle EXCEPT !.at = p, !.name = c, !.key = k]
<1>1. t \in OpState
  BY IdleType, Zenon DEF OpState
<1>2. t.at = p /\ t.kind = "pull" /\ t.name = c /\ t.key = k
  BY DEF Idle
<1> QED BY <1>1, <1>2

LEMMA StartsDelete ==
    ASSUME NEW p \in Points, NEW k \in Kind, NEW c \in Name
    PROVE  LET t == [Idle EXCEPT !.at = p, !.kind = k, !.name = c] IN
           t \in OpState /\ t.at = p /\ t.kind = k /\ t.name = c
<1> DEFINE t == [Idle EXCEPT !.at = p, !.kind = k, !.name = c]
<1>1. t \in OpState
  BY IdleType, Zenon DEF OpState
<1>2. t.at = p /\ t.kind = k /\ t.name = c
  BY DEF Idle
<1> QED BY <1>1, <1>2

\* What is known of a task.
LEMMA Known ==
    ASSUME TableInv, NEW o \in Op
    PROVE  ops[o] \in OpState /\ Proper(ops[o]) /\ RightKind(ops[o])
BY DEF TableInv, TypeOK, KindInv

\* The end of a task: a pull or a create still has to drop its claim.
LEMMA Ends ==
    ASSUME TableInv, NEW o \in Op, ops[o].at # "idle"
    PROVE  /\ Finished(o) \in OpState /\ Proper(Finished(o)) /\ RightKind(Finished(o))
           /\ ops[o].kind \in Claimed => GoesOn(o, Finished(o)) /\ Finished(o).at = "release"
           /\ ops[o].kind \notin Claimed => Finished(o).at = "idle"
<1>1. CASE ops[o].kind \in Claimed
  <2> DEFINE s == [ops[o] EXCEPT !.at = "release", !.todo = {}, !.blob = None,
                                 !.file = "gone", !.lost = FALSE]
  <2>1. Finished(o) = s
    BY <1>1 DEF Finished
  <2>2. s \in OpState /\ s.at = "release" /\ s.name = ops[o].name /\ s.kind = ops[o].kind
    <3>1. ops[o] \in OpState /\ "release" \in Points
      BY Known DEF Points
    <3>2. s \in OpState /\ s.at = "release" /\ Same(s, ops[o])
      BY <3>1, SetEnd, Zenon
    <3> QED BY <3>2 DEF Same
  <2>3. Proper(s) /\ RightKind(s) /\ GoesOn(o, s)
    BY <2>2, <1>1, Known DEF Proper, RightKind, GoesOn, Fetching, Bringing, Installing, Making
  <2> QED BY <2>1, <2>2, <2>3, <1>1
<1>2. CASE ops[o].kind \notin Claimed
  BY <1>2, IdleType DEF Finished, Idle
<1> QED BY <1>1, <1>2

\* Files that move keep everything else their writers remember.
LEMMA MovedKept ==
    ASSUME TableInv, NEW W, NEW f \in {ToFinal, TempGone, FinalGone}
    PROVE  /\ Moved(W, f) \in [Op -> OpState]
           /\ \A p \in Op :
                 LET t == Moved(W, f)[p] IN
                 /\ t.at = ops[p].at /\ t.kind = ops[p].kind
                 /\ t.name = ops[p].name /\ t.key = ops[p].key /\ t.from = ops[p].from
                 /\ t.manifest = ops[p].manifest
                 /\ t.todo = ops[p].todo /\ t.temps = ops[p].temps /\ t.blob = ops[p].blob
<1>1. \A w \in {"temp", "final", "gone"} : f[w] \in {"temp", "final", "gone"}
  BY DEF ToFinal, TempGone, FinalGone
<1>2. ASSUME NEW p \in Op
      PROVE  LET t == [ops[p] EXCEPT !.file = f[@]] IN
             /\ t \in OpState
             /\ t.at = ops[p].at /\ t.kind = ops[p].kind
             /\ t.name = ops[p].name /\ t.key = ops[p].key /\ t.from = ops[p].from
             /\ t.manifest = ops[p].manifest
             /\ t.todo = ops[p].todo /\ t.temps = ops[p].temps /\ t.blob = ops[p].blob
  BY <1>1, Known DEF OpState
<1> QED BY <1>2, Known DEF Moved

LEMMA MovedSteps ==
    ASSUME TableInv, NEW o \in Op, NEW s \in OpState, Proper(s), RightKind(s),
           NEW W, NEW f \in {ToFinal, TempGone, FinalGone},
           ops' = [Moved(W, f) EXCEPT ![o] = s]
    PROVE  Steps(o, s)
<1> DEFINE moved == Moved(W, f)
<1>1. /\ moved \in [Op -> OpState]
      /\ \A p \in Op : /\ moved[p].at = ops[p].at /\ moved[p].kind = ops[p].kind
                       /\ moved[p].name = ops[p].name /\ moved[p].from = ops[p].from
                       /\ moved[p].key = ops[p].key
                       /\ moved[p].manifest = ops[p].manifest
                       /\ moved[p].todo = ops[p].todo /\ moved[p].blob = ops[p].blob
  BY MovedKept
<1>2. ops' = [moved EXCEPT ![o] = s]
  OBVIOUS
<1> HIDE DEF moved
<1>3. ops' \in [Op -> OpState] /\ ops'[o] = s
  BY <1>1, <1>2
<1>4. ASSUME NEW p \in Op \ {o} PROVE Kept(p)
  <2>1. ops'[p] = moved[p]
    BY <1>1, <1>2
  <2> QED BY <1>1, <2>1 DEF Kept
<1> QED BY <1>3, <1>4 DEF Steps

\* So do writers whose file is truncated.
LEMMA TruncatedKept ==
    ASSUME TableInv, NEW b
    PROVE  /\ Truncated(b) \in [Op -> OpState]
           /\ \A p \in Op :
                 LET t == Truncated(b)[p] IN
                 /\ t.at = ops[p].at /\ t.kind = ops[p].kind
                 /\ t.name = ops[p].name /\ t.key = ops[p].key /\ t.from = ops[p].from
                 /\ t.manifest = ops[p].manifest
                 /\ t.todo = ops[p].todo /\ t.blob = ops[p].blob
<1>1. ASSUME NEW p \in Op
      PROVE  LET t == [ops[p] EXCEPT !.lost = TRUE] IN
             /\ t \in OpState
             /\ t.at = ops[p].at /\ t.kind = ops[p].kind
             /\ t.name = ops[p].name /\ t.key = ops[p].key /\ t.from = ops[p].from
             /\ t.manifest = ops[p].manifest
             /\ t.todo = ops[p].todo /\ t.blob = ops[p].blob
  BY Known DEF OpState
<1> QED BY <1>1, Known DEF Truncated

\* A file operation that no task takes: everyone keeps what it remembers.
LEMMA StepNobody ==
    ASSUME TableInv, DiskOK', UNCHANGED <<pulls, creating>>,
           ops' \in [Op -> OpState], \A p \in Op : Kept(p)
    PROVE  TableInv'
<1>1. \A p \in Op : Proper(ops'[p]) /\ RightKind(ops'[p])
  BY DEF Kept, TableInv, TypeOK, KindInv, Proper, RightKind
<1>2. \A n \in Name : Writers(n)' = Writers(n)
  BY DEF Kept, Writers
<1>3. ClaimInv'
  BY <1>2 DEF ClaimInv, TableInv, Writers, Kept
<1> QED BY <1>1, <1>3 DEF TableInv, TypeOK, KindInv

LEMMA InitTable == Init => TableInv
<1> SUFFICES ASSUME Init PROVE TableInv
  OBVIOUS
<1>1. DiskOK
  BY StoreAssumption DEF Init, DiskOK, Content
<1>2. TypeOK /\ KindInv
  BY <1>1, IdleType DEF Init, TypeOK, KindInv
<1>3. ClaimInv
  <2>1. \A o \in Op : ops[o].at = "idle"
    BY DEF Init, Idle
  <2>2. \A n \in Name : pulls[n] = None /\ n \notin creating
    BY Zenon DEF Init
  <2>3. \A n \in Name : Writers(n) = {}
    BY <2>1 DEF Writers
  <2> SUFFICES ASSUME NEW n \in Name
               PROVE  (/\ \A o, p \in Writers(n) : o = p
                       /\ pulls[n] # None <=> \E o \in Writers(n) : ops[o].kind = "pull"
                       /\ n \in creating <=> \E o \in Writers(n) : ops[o].kind = "create")
    BY Zenon DEF ClaimInv
  <2> QED BY <2>2, <2>3
<1> QED BY <1>2, <1>3 DEF TableInv

LEMMA PullStartTable == ASSUME TableInv, NEW o \in Op, PullStart(o) PROVE TableInv'
<1>0. PICK n \in Pulls, k \in {"tag"} \cup Manifest :
        /\ ~Busy(n)
        /\ pulls' = [pulls EXCEPT ![n] = k]
        /\ ops' = [ops EXCEPT ![o] = [Idle EXCEPT !.at = "fetch_manifest", !.name = n,
                                                  !.key = k]]
  BY ZenonT(60) DEF PullStart
<1>a. n \in Name /\ k \in Key /\ k # None
  BY <1>0, StoreAssumption DEF Key
<1> DEFINE s == [Idle EXCEPT !.at = "fetch_manifest", !.name = n, !.key = k]
<1>1. s \in OpState
  BY <1>0, <1>a, IdleType DEF OpState, Points, Kind
<1>2. Proper(s) /\ RightKind(s)
  BY <1>0, <1>a, Known DEF PullStart, OpState, Proper, RightKind, Fetching, Making, Bringing,
       Installing, Claimed, Idle
<1>3. Steps(o, s)
  BY <1>0, <1>a, <1>1, <1>2 DEF PullStart, Steps, Kept, TableInv, TypeOK
<1>4. DiskOK'
  BY <1>0, <1>a, Known DEF PullStart, disk, DiskOK, TableInv, TypeOK
<1>5. TypeOK' /\ KindInv'
  BY <1>0, <1>a, <1>3, <1>4, StepTyped DEF PullStart, TableInv, TypeOK, Key
<1>6. ClaimInv'
  BY <1>0, <1>a, <1>3 DEF PullStart, Steps, Kept, TableInv, ClaimInv, KindInv, RightKind,
       TypeOK, Busy, Writers, Claimed, Key, Idle
<1> QED BY <1>5, <1>6 DEF TableInv

LEMMA FetchManifestTable == ASSUME TableInv, NEW o \in Op, FetchManifest(o) PROVE TableInv'
<1>0. PICK m \in Offers[ops[o].name] :
        ops' = [ops EXCEPT ![o] = [@ EXCEPT !.at = "layers", !.manifest = m,
                                            !.todo = BlobsOf[m]]]
  BY ZenonT(60) DEF FetchManifest
<1>a. m \in Manifest /\ BlobsOf[m] \subseteq Blob
  BY <1>0, StoreAssumption, Known DEF FetchManifest, Proper
<1> DEFINE s == [ops[o] EXCEPT !.at = "layers", !.manifest = m, !.todo = BlobsOf[m]]
<1>1. s \in OpState
  <2>1. ops[o] \in OpState /\ "layers" \in Points /\ BlobsOf[m] \in SUBSET Blob
    BY <1>a, Known DEF Points
  <2> QED BY <2>1, <1>a, SetLayers, Zenon
<1>2. Proper(s) /\ RightKind(s) /\ GoesOn(o, s)
  BY <1>0, <1>a, Known DEF FetchManifest, OpState, Proper, RightKind, GoesOn, Fetching, Making,
       Bringing, Installing, Claimed
<1>3. Steps(o, s)
  BY <1>0, <1>a, <1>1, <1>2 DEF FetchManifest, Steps, Kept, TableInv, TypeOK
<1>4. DiskOK'
  BY <1>0, <1>a, Known DEF FetchManifest, disk, DiskOK, TableInv, TypeOK
<1> QED BY <1>0, <1>a, <1>1, <1>2, <1>3, <1>4, StepGoesOn DEF FetchManifest, disk

LEMMA PullStopsTable == ASSUME TableInv, NEW o \in Op, PullStops(o) PROVE TableInv'
<1>1. Steps(o, Finished(o)) /\ GoesOn(o, Finished(o))
  BY Ends, Known DEF PullStops, Finish, Steps, Kept, TableInv, TypeOK, RightKind, Claimed
<1>2. DiskOK'
  BY DEF PullStops, disk, DiskOK, TableInv, TypeOK
<1> QED BY <1>1, <1>2, StepGoesOn DEF PullStops, disk

LEMMA PullAbandonsTable == ASSUME TableInv, NEW o \in Op, PullAbandons(o) PROVE TableInv'
<1>1. ops[o].at # "idle" /\ ops[o].kind \in Claimed
  BY Zenon DEF PullAbandons, Opens, Claimed, Bringing, Fetching
<1>2. Steps(o, Finished(o)) /\ GoesOn(o, Finished(o))
  BY <1>1, Ends DEF PullAbandons, Finish, Steps, Kept, TableInv, TypeOK
<1>3. PICK b \in Blob, call \in Call : late' = late \cup {<<b, call>>}
  BY Zenon DEF PullAbandons
<1>4. DiskOK'
  BY <1>3 DEF PullAbandons, DiskOK, TableInv, TypeOK
<1> QED BY <1>2, <1>4, StepGoesOn DEF PullAbandons

LEMMA SkipBlobTable == ASSUME TableInv, NEW o \in Op, SkipBlob(o) PROVE TableInv'
<1>0. PICK b \in ops[o].todo : ops' = [ops EXCEPT ![o].todo = @ \ {b}]
  BY DEF SkipBlob
<1> DEFINE s == [ops[o] EXCEPT !.todo = @ \ {b}]
<1>1. s \in OpState
  BY <1>0, Known DEF OpState, Points
<1>2. Proper(s) /\ RightKind(s) /\ GoesOn(o, s)
  BY <1>0, Known DEF SkipBlob, OpState, Proper, RightKind, GoesOn, Fetching, Making, Bringing,
       Installing, Claimed
<1>3. Steps(o, s)
  BY <1>0, <1>1, <1>2 DEF SkipBlob, Steps, Kept, TableInv, TypeOK
<1>4. DiskOK'
  BY <1>0, Known DEF SkipBlob, disk, DiskOK, TableInv, TypeOK
<1> QED BY <1>0, <1>1, <1>2, <1>3, <1>4, StepGoesOn DEF SkipBlob, disk

LEMMA OpenPartialTable == ASSUME TableInv, NEW o \in Op, OpenPartial(o) PROVE TableInv'
<1> DEFINE opened(b) == [ops[o] EXCEPT !.at = "download", !.blob = b, !.file = "temp",
                                       !.lost = FALSE]
<1>1. PICK b \in Blob :
        /\ Opens(o, b)
        /\ \/ /\ \E c \in {"short", "wrong"} : partial' = [partial EXCEPT ![b] = c]
              /\ ops' = [Truncated(b) EXCEPT ![o] = opened(b)]
           \/ ops' = [ops EXCEPT ![o] = opened(b)] /\ UNCHANGED partial
  BY ZenonT(60) DEF OpenPartial
<1>2. ops[o].at \in {"layers", "download"} /\ ops[o].kind = "pull"
  BY <1>1, Known DEF Opens, RightKind, Fetching
<1>3. opened(b) \in OpState
  <2>1. ops[o] \in OpState /\ "download" \in Points
    BY Known DEF Points
  <2> QED BY <2>1, SetOpened, Zenon
<1>4. Proper(opened(b)) /\ RightKind(opened(b)) /\ GoesOn(o, opened(b))
  BY <1>2, Known DEF OpState, Proper, RightKind, GoesOn, Fetching, Bringing, Installing,
       Making, Claimed
<1> HIDE DEF opened
<1>5. Steps(o, opened(b))
  <2> DEFINE cut == Truncated(b)
  <2>1. /\ cut \in [Op -> OpState]
        /\ \A p \in Op : /\ cut[p].at = ops[p].at /\ cut[p].kind = ops[p].kind
                         /\ cut[p].name = ops[p].name /\ cut[p].from = ops[p].from
                         /\ cut[p].key = ops[p].key
                         /\ cut[p].manifest = ops[p].manifest
                         /\ cut[p].todo = ops[p].todo /\ cut[p].blob = ops[p].blob
    BY TruncatedKept
  <2>2. CASE ops' = [cut EXCEPT ![o] = opened(b)]
    <3> HIDE DEF cut
    <3> QED BY <1>3, <1>4, <2>1, <2>2 DEF Steps, Kept
  <2>3. CASE ops' = [ops EXCEPT ![o] = opened(b)]
    BY <1>3, <1>4, <2>3 DEF Steps, Kept, TableInv, TypeOK
  <2> QED BY <1>1, <2>2, <2>3
<1>6. DiskOK'
  BY <1>1 DEF OpenPartial, Content, DiskOK, TableInv, TypeOK
<1> QED BY <1>4, <1>5, <1>6, StepGoesOn DEF OpenPartial

LEMMA FetchDoneTable == ASSUME TableInv, NEW o \in Op, FetchDone(o) PROVE TableInv'
<1> DEFINE s == [ops[o] EXCEPT !.at = "verify", !.file = "gone", !.lost = FALSE]
<1>1. s \in OpState
  <2>1. ops[o] \in OpState /\ "verify" \in Points
    BY Known DEF Points
  <2> QED BY <2>1, SetFetched, Zenon
<1>2. Proper(s) /\ RightKind(s) /\ GoesOn(o, s)
  BY Known DEF FetchDone, OpState, Proper, RightKind, GoesOn, Fetching, Bringing, Installing, Making
<1>3. Steps(o, s)
  BY <1>1, <1>2 DEF FetchDone, Goto, Steps, Kept, TableInv, TypeOK
<1>4. ops[o].blob \in Blob
  BY Known DEF FetchDone, Proper, Fetching, Making
<1>5. /\ \/ \E c \in Content : partial' = [partial EXCEPT ![ops[o].blob] = c]
         \/ UNCHANGED partial
      /\ \/ \E c \in Content : blobs' = [blobs EXCEPT ![ops[o].blob] = c]
         \/ UNCHANGED blobs
  BY <1>4 DEF FetchDone, TableInv, TypeOK, DiskOK, Content
<1>6. DiskOK'
  <2>1. UNCHANGED <<manifests, temp, stale, made, late, pulls, creating>>
    BY Zenon DEF FetchDone
  <2> QED BY <1>4, <1>5, <2>1 DEF DiskOK, TableInv, TypeOK
<1> QED BY <1>2, <1>3, <1>6, StepGoesOn, Zenon DEF FetchDone

LEMMA VerifyTable == ASSUME TableInv, NEW o \in Op, Verify(o) PROVE TableInv'
<1> DEFINE s == [ops[o] EXCEPT !.at = "rename"]
           b == ops[o].blob
<1>1. b \in Blob /\ ops[o].kind \in Claimed
  BY Known DEF Verify, Proper, RightKind, Fetching, Making, Claimed
<1>2. CASE partial[b] = "good"
  <2>1. s \in OpState
    BY Known DEF OpState, Points
  <2>2. Proper(s) /\ RightKind(s) /\ GoesOn(o, s)
    BY Known DEF Verify, OpState, Proper, RightKind, GoesOn, Fetching, Bringing, Installing, Making
  <2>3. Steps(o, s)
    BY <1>2, <2>1, <2>2 DEF Verify, Goto, Steps, Kept, TableInv, TypeOK
  <2>4. DiskOK'
    BY <1>2 DEF Verify, DiskOK, TableInv, TypeOK
  <2> QED BY <2>2, <2>3, <2>4, StepGoesOn DEF Verify
<1>3. CASE partial[b] # "good"
  <2> DEFINE moved == Moved(Downloading({b}), TempGone)
  <2>1. /\ ops' = [moved EXCEPT ![o] = Finished(o)]
        /\ partial' = [partial EXCEPT ![b] = "absent"]
    BY <1>3 DEF Verify
  <2>2. /\ moved \in [Op -> OpState]
        /\ \A p \in Op : /\ moved[p].at = ops[p].at /\ moved[p].kind = ops[p].kind
                         /\ moved[p].name = ops[p].name /\ moved[p].from = ops[p].from
                         /\ moved[p].key = ops[p].key
                         /\ moved[p].manifest = ops[p].manifest
                         /\ moved[p].todo = ops[p].todo /\ moved[p].blob = ops[p].blob
    BY MovedKept
  <2>3. /\ Finished(o) \in OpState /\ Proper(Finished(o)) /\ RightKind(Finished(o))
        /\ GoesOn(o, Finished(o))
    BY <1>1, Ends DEF Verify
  <2> HIDE DEF moved
  <2>4. Steps(o, Finished(o))
    BY <2>1, <2>2, <2>3 DEF Steps, Kept
  <2>5. DiskOK'
    BY <1>1, <2>1 DEF Verify, DiskOK, Content, TableInv, TypeOK
  <2> QED BY <2>3, <2>4, <2>5, StepGoesOn DEF Verify
<1> QED BY <1>2, <1>3

LEMMA RenameBlobTable == ASSUME TableInv, NEW o \in Op, RenameBlob(o) PROVE TableInv'
<1> DEFINE b == ops[o].blob
<1>1. b \in Blob /\ ops[o].kind = "pull" /\ ops[o].kind \in Claimed
  BY Known DEF RenameBlob, Proper, RightKind, Fetching, Making, Claimed
<1>2. CASE partial[b] = "absent"
  <2>1. Steps(o, Finished(o)) /\ GoesOn(o, Finished(o))
    BY <1>1, <1>2, Ends DEF RenameBlob, Finish, Steps, Kept, TableInv, TypeOK
  <2>2. DiskOK'
    BY <1>2 DEF RenameBlob, DiskOK, TableInv, TypeOK
  <2> QED BY <1>2, <2>1, <2>2, StepGoesOn DEF RenameBlob
<1>3. CASE partial[b] # "absent"
  <2> DEFINE moved == Moved(Downloading({b}), ToFinal)
             t == [moved[o] EXCEPT !.at = "layers", !.todo = ops[o].todo \ {b}, !.blob = None]
  <2>1. /\ ops' = [moved EXCEPT ![o] = [@ EXCEPT !.at = "layers", !.todo = ops[o].todo \ {b},
                                                  !.blob = None]]
        /\ blobs' = [blobs EXCEPT ![b] = partial[b]]
        /\ partial' = [partial EXCEPT ![b] = "absent"]
    BY <1>3 DEF RenameBlob
  <2>2. /\ moved \in [Op -> OpState]
        /\ \A p \in Op : /\ moved[p].at = ops[p].at /\ moved[p].kind = ops[p].kind
                         /\ moved[p].name = ops[p].name /\ moved[p].from = ops[p].from
                         /\ moved[p].key = ops[p].key
                         /\ moved[p].manifest = ops[p].manifest
                         /\ moved[p].todo = ops[p].todo /\ moved[p].blob = ops[p].blob
    BY MovedKept
  <2> HIDE DEF moved, b
  <2>3. t \in OpState
    <3>1. moved[o] \in OpState
      BY <2>2
    <3> QED BY <3>1, Known DEF OpState, Points
  <2>4. Proper(t) /\ RightKind(t) /\ GoesOn(o, t)
    BY <1>1, <2>2, Known DEF RenameBlob, OpState, Proper, RightKind, GoesOn, Fetching, Making,
         Bringing,
                             Installing, Claimed
  <2> HIDE DEF t
  <2>5. Steps(o, t)
    <3>1. ops' = [moved EXCEPT ![o] = t]
      BY <2>1, <2>2 DEF t
    <3> QED BY <2>2, <2>3, <2>4, <3>1 DEF Steps, Kept
  <2>6. DiskOK'
    BY <1>1, <2>1 DEF RenameBlob, DiskOK, Content, TableInv, TypeOK
  <2> QED BY <2>4, <2>5, <2>6, StepGoesOn DEF RenameBlob
<1> QED BY <1>2, <1>3

LEMMA LateKept ==
    ASSUME TableInv, NEW b \in Blob, Late(b)
    PROVE  ops' \in [Op -> OpState] /\ \A p \in Op : Kept(p)
<1>1. CASE LateOpen(b)
  <2> DEFINE cut == Truncated(b)
  <2>1. /\ cut \in [Op -> OpState]
        /\ \A p \in Op : /\ cut[p].at = ops[p].at /\ cut[p].kind = ops[p].kind
                         /\ cut[p].name = ops[p].name /\ cut[p].from = ops[p].from
                         /\ cut[p].key = ops[p].key
                         /\ cut[p].manifest = ops[p].manifest
                         /\ cut[p].todo = ops[p].todo /\ cut[p].blob = ops[p].blob
    BY TruncatedKept
  <2>2. ops' = cut
    BY <1>1 DEF LateOpen
  <2> HIDE DEF cut
  <2> QED BY <2>1, <2>2 DEF Kept
<1>2. ASSUME NEW W, NEW f \in {ToFinal, TempGone, FinalGone}, ops' \in {ops, Moved(W, f)}
      PROVE  ops' \in [Op -> OpState] /\ \A p \in Op : Kept(p)
  <2> DEFINE moved == Moved(W, f)
  <2>1. /\ moved \in [Op -> OpState]
        /\ \A p \in Op : /\ moved[p].at = ops[p].at /\ moved[p].kind = ops[p].kind
                         /\ moved[p].name = ops[p].name /\ moved[p].from = ops[p].from
                         /\ moved[p].key = ops[p].key
                         /\ moved[p].manifest = ops[p].manifest
                         /\ moved[p].todo = ops[p].todo /\ moved[p].blob = ops[p].blob
    BY MovedKept
  <2>2. ops' \in {ops, moved} /\ ops \in [Op -> OpState]
    BY <1>2 DEF TableInv, TypeOK
  <2> HIDE DEF moved
  <2> QED BY <2>1, <2>2 DEF Kept
<1>3. LateRename(b) => ops' \in {ops, Moved(Downloading({b}), ToFinal)}
  BY DEF LateRename
<1>4. LateRemove(b) => ops' \in {ops, Moved(Downloading({b}), TempGone)}
  BY DEF LateRemove
<1> QED BY <1>1, <1>2, <1>3, <1>4 DEF Late

LEMMA LateTable == ASSUME TableInv, NEW b \in Blob, Late(b) PROVE TableInv'
<1>1. LateOpen(b) => DiskOK'
  BY DEF LateOpen, DiskOK, Content, TableInv, TypeOK
<1>2. LateRename(b) => DiskOK'
  BY DEF LateRename, DiskOK, Content, TableInv, TypeOK
<1>3. LateRemove(b) => DiskOK'
  BY DEF LateRemove, DiskOK, Content, TableInv, TypeOK
<1>4. UNCHANGED <<pulls, creating>>
  BY Zenon DEF Late, LateOpen, LateRename, LateRemove
<1> QED BY <1>1, <1>2, <1>3, <1>4, LateKept, StepNobody DEF Late

LEMMA LayersDoneTable == ASSUME TableInv, NEW o \in Op, LayersDone(o) PROVE TableInv'
<1> DEFINE s == [ops[o] EXCEPT !.at = "write_temp"]
<1>1. s \in OpState
  BY Known DEF OpState, Points
<1>2. Proper(s) /\ RightKind(s) /\ GoesOn(o, s)
  BY Known DEF LayersDone, OpState, Proper, RightKind, GoesOn, Fetching, Making, Bringing,
       Installing, Claimed
<1>3. Steps(o, s)
  BY <1>1, <1>2 DEF LayersDone, Goto, Steps, Kept, TableInv, TypeOK
<1>4. DiskOK'
  BY Known DEF LayersDone, disk, DiskOK, TableInv, TypeOK
<1> QED BY <1>1, <1>2, <1>3, <1>4, StepGoesOn DEF LayersDone, disk

LEMMA WriteTempTable == ASSUME TableInv, NEW o \in Op, WriteTemp(o) PROVE TableInv'
<1> DEFINE s == [ops[o] EXCEPT !.at = "fill_temp", !.file = "temp"]
<1>1. s \in OpState
  <2>1. ops[o] \in OpState /\ "fill_temp" \in Points /\ "temp" \in {"temp", "final", "gone"}
    BY Known DEF Points
  <2> QED BY <2>1, SetFile, Zenon
<1>2. Proper(s) /\ RightKind(s) /\ GoesOn(o, s)
  BY Known DEF WriteTemp, OpState, Proper, RightKind, GoesOn, Fetching, Making, Bringing,
       Installing, Claimed
<1>3. Steps(o, s)
  BY <1>1, <1>2 DEF WriteTemp, Steps, Kept, TableInv, TypeOK
<1>4. DiskOK'
  BY Known DEF WriteTemp, Proper, DiskOK, TableInv, TypeOK
<1> QED BY <1>1, <1>2, <1>3, <1>4, StepGoesOn DEF WriteTemp

LEMMA FillTempTable == ASSUME TableInv, NEW o \in Op, FillTemp(o) PROVE TableInv'
<1>a. ops[o].name \in Name /\ ops[o].manifest \in Manifest
  BY Known DEF FillTemp, Proper, Bringing, Installing, Making
<1> DEFINE s == [ops[o] EXCEPT !.at = "install", !.file = "gone"]
<1>1. s \in OpState
  <2>1. ops[o] \in OpState /\ "install" \in Points /\ "gone" \in {"temp", "final", "gone"}
    BY Known DEF Points
  <2> QED BY <2>1, SetFile, Zenon
<1>2. Proper(s) /\ RightKind(s) /\ GoesOn(o, s)
  BY <1>a, Known DEF FillTemp, OpState, Proper, RightKind, GoesOn, Fetching, Making, Bringing,
       Installing, Claimed
<1>3. Steps(o, s)
  BY <1>a, <1>1, <1>2 DEF FillTemp, Goto, Steps, Kept, TableInv, TypeOK
<1>4. DiskOK'
  BY <1>a, Known DEF FillTemp, Proper, DiskOK, TableInv, TypeOK
<1> QED BY <1>a, <1>1, <1>2, <1>3, <1>4, StepGoesOn DEF FillTemp

LEMMA InstallTable == ASSUME TableInv, NEW o \in Op, Install(o) PROVE TableInv'
<1> DEFINE n == ops[o].name
<1>1. n \in Name /\ ops[o].at # "idle"
  BY Known DEF Install, Proper
<1>2. DiskOK'
  BY <1>1, StoreAssumption DEF Install, DiskOK, TableInv, TypeOK
<1>3. Steps(o, Finished(o))
  <2>1. CASE temp[n] = None
    BY <1>1, <2>1, Ends DEF Install, Finish, Steps, Kept, TableInv, TypeOK
  <2>2. CASE temp[n] # None
    <3> DEFINE moved == Moved(Writing(n), ToFinal)
    <3>1. ops' = [moved EXCEPT ![o] = Finished(o)]
      BY <2>2 DEF Install
    <3>2. /\ moved \in [Op -> OpState]
          /\ \A p \in Op : /\ moved[p].at = ops[p].at /\ moved[p].kind = ops[p].kind
                           /\ moved[p].name = ops[p].name /\ moved[p].from = ops[p].from
                           /\ moved[p].key = ops[p].key
                           /\ moved[p].manifest = ops[p].manifest
                           /\ moved[p].todo = ops[p].todo /\ moved[p].blob = ops[p].blob
      BY MovedKept
    <3> HIDE DEF moved
    <3> QED BY <1>1, <3>1, <3>2, Ends DEF Steps, Kept
  <2> QED BY <2>1, <2>2
<1>4. CASE ops[o].kind \in Claimed
  BY <1>1, <1>2, <1>3, <1>4, Ends, StepGoesOn DEF Install
<1>5. CASE ops[o].kind \notin Claimed
  BY <1>1, <1>2, <1>3, <1>5, Ends, StepUnclaimed DEF Install
<1> QED BY <1>4, <1>5

LEMMA WriteFailsTable == ASSUME TableInv, NEW o \in Op, WriteFails(o) PROVE TableInv'
<1>1. ops[o].at # "idle" /\ UNCHANGED <<pulls, creating>>
  BY DEF WriteFails, Installing
<1>2. Steps(o, Finished(o))
  BY <1>1, Ends DEF WriteFails, Finish, Steps, Kept, TableInv, TypeOK
<1>3. DiskOK'
  BY DEF WriteFails, disk, DiskOK, TableInv, TypeOK
<1>4. CASE ops[o].kind \in Claimed
  BY <1>1, <1>2, <1>3, <1>4, Ends, StepGoesOn
<1>5. CASE ops[o].kind \notin Claimed
  BY <1>1, <1>2, <1>3, <1>5, Ends, StepUnclaimed
<1> QED BY <1>4, <1>5

LEMMA ReleaseTable == ASSUME TableInv, NEW o \in Op, Release(o) PROVE TableInv'
<1>1. ops[o].name \in Name /\ ops[o].kind \in Claimed
  BY Known DEF Release, Proper, RightKind
<1>2. Steps(o, Idle)
  BY IdleType DEF Release, Steps, Kept, TableInv, TypeOK
<1>3. DiskOK'
  BY DEF Release, disk, DiskOK, TableInv, TypeOK
<1>4. TypeOK' /\ KindInv'
  BY <1>1, <1>2, <1>3, StepTyped DEF Release, TableInv, TypeOK
<1>5. ClaimInv'
  BY <1>1, <1>2 DEF Release, Steps, Kept, TableInv, ClaimInv, TypeOK, Writers, Claimed, Idle
<1> QED BY <1>4, <1>5 DEF TableInv

LEMMA CreateStartTable == ASSUME TableInv, NEW o \in Op, CreateStart(o) PROVE TableInv'
<1>0. PICK c \in Creates :
        /\ ~Busy(c[1])
        /\ creating' = creating \cup {c[1]}
        /\ ops' = [ops EXCEPT ![o] = [Idle EXCEPT !.at = "read", !.kind = "create",
                                                  !.name = c[1], !.from = c[2]]]
  BY ZenonT(60) DEF CreateStart
<1>a. c[1] \in Name /\ c[2] \in Name
  BY <1>0, StoreAssumption
<1> DEFINE s == [Idle EXCEPT !.at = "read", !.kind = "create", !.name = c[1], !.from = c[2]]
<1>1. s \in OpState
  BY <1>0, <1>a, IdleType DEF OpState, Points, Kind
<1>2. Proper(s) /\ RightKind(s)
  BY <1>0, <1>a, Known DEF CreateStart, OpState, Proper, RightKind, Fetching, Making, Bringing,
       Installing, Claimed, Idle
<1>3. Steps(o, s)
  BY <1>0, <1>a, <1>1, <1>2 DEF CreateStart, Steps, Kept, TableInv, TypeOK
<1>4. DiskOK'
  BY <1>0, <1>a, Known DEF CreateStart, disk, DiskOK, TableInv, TypeOK
<1>5. TypeOK' /\ KindInv'
  BY <1>0, <1>a, <1>3, <1>4, StepTyped DEF CreateStart, TableInv, TypeOK, Key
<1>6. ClaimInv'
  BY <1>0, <1>a, <1>3 DEF CreateStart, Steps, Kept, TableInv, ClaimInv, KindInv, RightKind,
       TypeOK, Busy, Writers, Claimed, Key, Idle
<1> QED BY <1>5, <1>6 DEF TableInv

LEMMA CopyStartTable == ASSUME TableInv, NEW o \in Op, CopyStart(o) PROVE TableInv'
<1>0. PICK c \in Copies :
        /\ ~Busy(c[2])
        /\ ops' = [ops EXCEPT ![o] = [Idle EXCEPT !.at = "read", !.kind = "copy",
                                                  !.name = c[2], !.from = c[1]]]
  BY ZenonT(60) DEF CopyStart
<1>a. c[1] \in Name /\ c[2] \in Name
  BY <1>0, StoreAssumption
<1> DEFINE s == [Idle EXCEPT !.at = "read", !.kind = "copy", !.name = c[2], !.from = c[1]]
<1>1. s \in OpState
  BY <1>0, <1>a, IdleType DEF OpState, Points, Kind
<1>2. Proper(s) /\ RightKind(s)
  BY <1>0, <1>a, Known DEF CopyStart, OpState, Proper, RightKind, Fetching, Making, Bringing,
       Installing, Claimed, Idle
<1>3. Steps(o, s)
  BY <1>0, <1>a, <1>1, <1>2 DEF CopyStart, Steps, Kept, TableInv, TypeOK
<1>4. DiskOK'
  BY <1>0, <1>a, Known DEF CopyStart, disk, DiskOK, TableInv, TypeOK
<1> QED BY <1>0, <1>a, <1>1, <1>2, <1>3, <1>4, StepUnclaimed DEF CopyStart, disk, Idle,
     Claimed

LEMMA ReadFromTable == ASSUME TableInv, NEW o \in Op, ReadFrom(o) PROVE TableInv'
<1> DEFINE m == manifests[ops[o].from]
<1>1. DiskOK' /\ UNCHANGED <<pulls, creating>> /\ ops[o].at = "read"
  BY DEF ReadFrom, disk, DiskOK, TableInv, TypeOK
<1>2. CASE m \in {None, Half} /\ Finish(o)
  <2>1. Steps(o, Finished(o))
    BY <1>1, <1>2, Ends DEF Finish, Steps, Kept, TableInv, TypeOK
  <2>2. CASE ops[o].kind \in Claimed
    BY <1>1, <2>1, <2>2, Ends, StepGoesOn
  <2>3. CASE ops[o].kind \notin Claimed
    BY <1>1, <2>1, <2>3, Ends, StepUnclaimed
  <2> QED BY <2>2, <2>3
<1>3. CASE m \in Manifest /\ ops[o].kind = "create"
  <2> DEFINE s == [ops[o] EXCEPT !.at = "layers", !.manifest = Derived[m],
                                 !.todo = BlobsOf[Derived[m]] \ BlobsOf[m]]
  <2>0. Derived[m] \in Manifest /\ BlobsOf[Derived[m]] \subseteq Blob
    BY <1>3, StoreAssumption
  <2>1. s \in OpState
    <3>1. /\ ops[o] \in OpState /\ "layers" \in Points
          /\ BlobsOf[Derived[m]] \ BlobsOf[m] \in SUBSET Blob
      BY <2>0, Known DEF Points
    <3>2. Derived[m] \in Manifest
      BY <2>0
    <3> HIDE DEF m
    <3> QED BY <3>1, <3>2, SetLayers, Zenon
  <2>2. Proper(s) /\ RightKind(s) /\ GoesOn(o, s)
    BY <1>1, <1>3, <2>0, Known DEF OpState, Proper, RightKind, GoesOn, Fetching, Making, Bringing,
                                   Installing, Claimed
  <2>3. ops' = [ops EXCEPT ![o] = s]
    BY <1>3, StoreAssumption DEF ReadFrom
  <2>4. Steps(o, s)
    BY <2>1, <2>2, <2>3 DEF Steps, Kept, TableInv, TypeOK
  <2> QED BY <1>1, <2>2, <2>4, StepGoesOn
<1>4. CASE m \in Manifest /\ ops[o].kind = "copy"
  <2> DEFINE s == [ops[o] EXCEPT !.at = "write_temp", !.manifest = m]
  <2>1. s \in OpState
    <3>1. ops[o] \in OpState /\ "write_temp" \in Points
      BY Known DEF Points
    <3>2. m \in Manifest
      BY <1>4
    <3> HIDE DEF m
    <3> QED BY <3>1, <3>2, SetManifest, Zenon
  <2>2. Proper(s) /\ RightKind(s) /\ GoesOn(o, s)
    BY <1>1, <1>4, Known DEF OpState, Proper, RightKind, GoesOn, Fetching, Making, Bringing,
                             Installing, Claimed
  <2>3. ops' = [ops EXCEPT ![o] = s]
    BY <1>4, StoreAssumption DEF ReadFrom
  <2>4. Steps(o, s)
    BY <2>1, <2>2, <2>3 DEF Steps, Kept, TableInv, TypeOK
  <2> QED BY <1>1, <2>2, <2>4, StepGoesOn
<1> QED BY <1>2, <1>3, <1>4 DEF ReadFrom

LEMMA CheckBlobTable == ASSUME TableInv, NEW o \in Op, CheckBlob(o) PROVE TableInv'
<1>0. ops[o].kind = "create" /\ ops[o].at = "layers"
  BY DEF CheckBlob
<1>1. PICK b \in ops[o].todo :
        \/ ops' = [ops EXCEPT ![o].todo = @ \ {b}]
        \/ ops' = [ops EXCEPT ![o] = [@ EXCEPT !.at = "write_blob", !.blob = b]]
  BY Zenon DEF CheckBlob
<1>a. b \in Blob
  BY <1>1, Known DEF OpState
<1>2. DiskOK' /\ UNCHANGED <<pulls, creating>>
  BY DEF CheckBlob, disk, DiskOK, TableInv, TypeOK
<1> DEFINE s == [ops[o] EXCEPT !.todo = @ \ {b}]
           t == [ops[o] EXCEPT !.at = "write_blob", !.blob = b]
<1>3. s \in OpState /\ t \in OpState
  <2>1. s \in OpState
    BY Known DEF OpState
  <2>2. t \in OpState
    <3>1. ops[o] \in OpState /\ "write_blob" \in Points
      BY Known DEF Points
    <3> QED BY <3>1, <1>a, SetBlob, Zenon
  <2> QED BY <2>1, <2>2
<1>4. /\ Proper(s) /\ RightKind(s) /\ GoesOn(o, s)
      /\ Proper(t) /\ RightKind(t) /\ GoesOn(o, t)
  BY <1>0, <1>a, Known DEF OpState, Proper, RightKind, GoesOn, Fetching, Bringing,
       Installing, Making, Claimed
<1>5. CASE ops' = [ops EXCEPT ![o] = s]
  <2>1. Steps(o, s)
    BY <1>3, <1>4, <1>5 DEF Steps, Kept, TableInv, TypeOK
  <2> QED BY <1>2, <1>4, <2>1, StepGoesOn
<1>6. CASE ops' = [ops EXCEPT ![o] = t]
  <2>1. Steps(o, t)
    BY <1>3, <1>4, <1>6 DEF Steps, Kept, TableInv, TypeOK
  <2> QED BY <1>2, <1>4, <2>1, StepGoesOn
<1> QED BY <1>1, <1>5, <1>6

LEMMA WriteBlobTable == ASSUME TableInv, NEW o \in Op, WriteBlob(o) PROVE TableInv'
<1> DEFINE s == [ops[o] EXCEPT !.at = "fill_blob", !.file = "temp"]
<1>1. s \in OpState
  <2>1. ops[o] \in OpState /\ "fill_blob" \in Points /\ "temp" \in {"temp", "final", "gone"}
    BY Known DEF Points
  <2> QED BY <2>1, SetFile, Zenon
<1>2. Proper(s) /\ RightKind(s) /\ GoesOn(o, s)
  BY Known DEF WriteBlob, OpState, Proper, RightKind, GoesOn, Fetching, Bringing,
       Installing, Making, Claimed
<1>3. Steps(o, s)
  BY <1>1, <1>2 DEF WriteBlob, Steps, Kept, TableInv, TypeOK
<1>4. DiskOK'
  BY DEF WriteBlob, DiskOK, TableInv, TypeOK
<1> QED BY <1>2, <1>3, <1>4, StepGoesOn DEF WriteBlob

LEMMA FillBlobTable == ASSUME TableInv, NEW o \in Op, FillBlob(o) PROVE TableInv'
<1> DEFINE s == [ops[o] EXCEPT !.at = "rename_blob", !.file = "gone"]
<1>1. s \in OpState
  <2>1. ops[o] \in OpState /\ "rename_blob" \in Points /\ "gone" \in {"temp", "final", "gone"}
    BY Known DEF Points
  <2> QED BY <2>1, SetFile, Zenon
<1>2. Proper(s) /\ RightKind(s) /\ GoesOn(o, s)
  BY Known DEF FillBlob, OpState, Proper, RightKind, GoesOn, Fetching, Bringing,
       Installing, Making, Claimed
<1>3. Steps(o, s)
  BY <1>1, <1>2 DEF FillBlob, Steps, Kept, TableInv, TypeOK
<1>4. DiskOK'
  BY DEF FillBlob, Content, DiskOK, TableInv, TypeOK
<1> QED BY <1>2, <1>3, <1>4, StepGoesOn DEF FillBlob

LEMMA PutBlobTable == ASSUME TableInv, NEW o \in Op, PutBlob(o) PROVE TableInv'
<1> DEFINE b == ops[o].blob
<1>0. ops[o].at = "rename_blob" /\ UNCHANGED <<pulls, creating>>
  BY DEF PutBlob
<1>1. b \in Blob /\ ops[o].kind = "create" /\ ops[o].kind \in Claimed
  BY <1>0, Known DEF Proper, RightKind, Fetching, Making, Claimed
<1>2. DiskOK'
  BY <1>1 DEF PutBlob, DiskOK, Content, TableInv, TypeOK
<1>3. CASE Finish(o)
  <2>1. Steps(o, Finished(o)) /\ GoesOn(o, Finished(o))
    BY <1>0, <1>1, <1>3, Ends DEF Finish, Steps, Kept, TableInv, TypeOK
  <2> QED BY <1>0, <1>2, <2>1, StepGoesOn
<1>4. CASE ~Finish(o)
  <2> DEFINE moved == Moved(Filling(b), ToFinal)
             t == [moved[o] EXCEPT !.at = "layers", !.todo = ops[o].todo \ {b}, !.blob = None]
  <2>1. ops' = [Moved(Filling(b), ToFinal) EXCEPT ![o] = t]
    BY <1>4 DEF PutBlob
  <2>2. /\ moved[o] \in OpState
        /\ moved[o].at = ops[o].at /\ moved[o].kind = ops[o].kind
        /\ moved[o].name = ops[o].name /\ moved[o].from = ops[o].from
        /\ moved[o].manifest = ops[o].manifest
    BY MovedKept
  <2> HIDE DEF moved, b
  <2>3. t \in OpState
    BY <2>2, Known DEF OpState, Points
  <2>4. Proper(t) /\ RightKind(t) /\ GoesOn(o, t)
    BY <1>0, <1>1, <2>2, Known DEF OpState, Proper, RightKind, GoesOn, Fetching, Bringing,
         Installing, Making, Claimed
  <2> HIDE DEF t
  <2>5. Steps(o, t)
    BY <2>1, <2>3, <2>4, MovedSteps
  <2> QED BY <1>0, <1>2, <2>4, <2>5, StepGoesOn
<1> QED BY <1>3, <1>4

LEMMA CreateFailsTable == ASSUME TableInv, NEW o \in Op, CreateFails(o) PROVE TableInv'
<1>1. Steps(o, Finished(o)) /\ GoesOn(o, Finished(o))
  BY Ends DEF CreateFails, Making, Finish, Steps, Kept, TableInv, TypeOK, Claimed
<1>2. DiskOK'
  BY DEF CreateFails, disk, DiskOK, TableInv, TypeOK
<1> QED BY <1>1, <1>2, StepGoesOn DEF CreateFails, disk

LEMMA DeleteStartTable == ASSUME TableInv, NEW o \in Op, DeleteStart(o) PROVE TableInv'
<1>0. PICK n \in Deletes :
        ops' = [ops EXCEPT ![o] = [Idle EXCEPT !.at = "remove", !.kind = "delete", !.name = n]]
  BY ZenonT(60) DEF DeleteStart
<1>a. n \in Name
  BY <1>0, StoreAssumption
<1> DEFINE s == [Idle EXCEPT !.at = "remove", !.kind = "delete", !.name = n]
<1>1. s \in OpState
  BY <1>0, <1>a, IdleType DEF OpState, Points, Kind
<1>2. Proper(s) /\ RightKind(s)
  BY <1>0, <1>a, Known DEF DeleteStart, OpState, Proper, RightKind, Fetching, Making, Bringing,
       Installing, Claimed, Idle
<1>3. Steps(o, s)
  BY <1>0, <1>a, <1>1, <1>2 DEF DeleteStart, Steps, Kept, TableInv, TypeOK
<1>4. DiskOK'
  BY <1>0, <1>a, Known DEF DeleteStart, disk, DiskOK, TableInv, TypeOK
<1> QED BY <1>0, <1>a, <1>1, <1>2, <1>3, <1>4, StepUnclaimed DEF DeleteStart, disk, Idle,
     Claimed

LEMMA RemoveManifestTable == ASSUME TableInv, NEW o \in Op, RemoveManifest(o) PROVE TableInv'
<1> DEFINE n == ops[o].name
<1>1. n \in Name /\ ops[o].kind = "delete" /\ ops[o].kind \notin Claimed /\ ops[o].at # "idle"
  BY Known DEF RemoveManifest, Proper, RightKind, Claimed
<1>2. DiskOK' /\ UNCHANGED <<pulls, creating>>
  BY <1>1 DEF RemoveManifest, DiskOK, TableInv, TypeOK
<1>3. CASE manifests[n] = None
  <2>1. Steps(o, Finished(o))
    BY <1>1, <1>3, Ends DEF RemoveManifest, Finish, Steps, Kept, TableInv, TypeOK
  <2> QED BY <1>1, <1>2, <2>1, Ends, StepUnclaimed
<1>4. CASE manifests[n] # None
  <2> DEFINE moved == Moved(Writing(n), FinalGone)
             t == [moved[o] EXCEPT !.at = "list"]
  <2>1. ops' = [moved EXCEPT ![o] = t]
    BY <1>4 DEF RemoveManifest
  <2>2. /\ moved \in [Op -> OpState]
        /\ \A p \in Op : /\ moved[p].at = ops[p].at /\ moved[p].kind = ops[p].kind
                         /\ moved[p].name = ops[p].name /\ moved[p].from = ops[p].from
                         /\ moved[p].key = ops[p].key
                         /\ moved[p].manifest = ops[p].manifest
                         /\ moved[p].todo = ops[p].todo /\ moved[p].blob = ops[p].blob
    BY MovedKept
  <2> HIDE DEF moved
  <2>3. t \in OpState
    BY <2>2 DEF OpState, Points
  <2>4. Proper(t) /\ RightKind(t) /\ GoesOn(o, t)
    BY <1>1, <2>2, Known DEF RemoveManifest, OpState, Proper, RightKind, GoesOn, Fetching, Making,
                             Bringing, Installing, Claimed
  <2> HIDE DEF t
  <2>5. Steps(o, t)
    BY <2>1, <2>2, <2>3, <2>4 DEF Steps, Kept
  <2> QED BY <1>2, <2>4, <2>5, StepGoesOn
<1> QED BY <1>3, <1>4

LEMMA ListToPruneTable == ASSUME TableInv, NEW o \in Op, ListToPrune(o) PROVE TableInv'
<1> DEFINE keep == UNION {BlobsOf[m] : m \in Listed}
           s == [ops[o] EXCEPT !.at = "prune", !.todo = keep]
<1>1. ops[o].kind = "delete" /\ ops[o].kind \notin Claimed /\ ops[o].at # "idle"
  BY Known DEF ListToPrune, RightKind, Claimed
<1>2. DiskOK' /\ UNCHANGED <<pulls, creating>>
  BY DEF ListToPrune, disk, DiskOK, TableInv, TypeOK
<1>3. CASE ListFails
  <2>1. Steps(o, Finished(o))
    BY <1>1, <1>3, Ends DEF ListToPrune, Finish, Steps, Kept, TableInv, TypeOK
  <2> QED BY <1>1, <1>2, <2>1, Ends, StepUnclaimed
<1>4. CASE ~ListFails
  <2>1. Listed \subseteq Manifest
    BY DEF Listed, Files, DiskOK, TableInv, TypeOK
  <2>2. keep \subseteq Blob
    BY <2>1, StoreAssumption
  <2>3. ops' = [ops EXCEPT ![o] = s]
    BY <1>4 DEF ListToPrune
  <2> HIDE DEF keep
  <2>4. s \in OpState
    <3>1. ops[o] \in OpState /\ "prune" \in Points /\ keep \in SUBSET Blob
      BY <2>2, Known DEF Points
    <3> QED BY <3>1, SetTodo, Zenon
  <2>5. Proper(s) /\ RightKind(s) /\ GoesOn(o, s)
    BY <1>1, Known DEF ListToPrune, OpState, Proper, RightKind, GoesOn, Fetching, Making, Bringing,
                       Installing
  <2>6. Steps(o, s)
    BY <2>3, <2>4, <2>5 DEF Steps, Kept, TableInv, TypeOK
  <2> QED BY <1>2, <2>5, <2>6, StepGoesOn
<1> QED BY <1>3, <1>4

LEMMA PruneTable == ASSUME TableInv, NEW o \in Op, Prune(o) PROVE TableInv'
<1> DEFINE victims == {b \in Blob \ ops[o].todo : blobs[b] # "absent"}
           cut == {b \in Blob : made[b] # "absent"}
           s == [ops[o] EXCEPT !.at = "sweep", !.todo = victims, !.temps = cut]
<1>1. ops' = [ops EXCEPT ![o] = s]
  BY DEF Prune, TableInv, TypeOK
<1>2. victims \subseteq Blob /\ cut \subseteq Blob
  OBVIOUS
<1> HIDE DEF victims, cut
<1>3. s \in OpState
  <2>1. /\ ops[o] \in OpState /\ "sweep" \in Points
        /\ victims \in SUBSET Blob /\ cut \in SUBSET Blob
    BY <1>2, Known DEF Points
  <2> QED BY <2>1, SetSweep, Zenon
<1>4. Proper(s) /\ RightKind(s) /\ GoesOn(o, s)
  BY Known DEF Prune, OpState, Proper, RightKind, GoesOn, Fetching, Bringing, Installing, Making
<1>5. Steps(o, s)
  BY <1>1, <1>3, <1>4 DEF Steps, Kept, TableInv, TypeOK
<1>6. DiskOK' /\ UNCHANGED <<pulls, creating>>
  BY DEF Prune, disk, DiskOK, TableInv, TypeOK
<1> QED BY <1>4, <1>5, <1>6, StepGoesOn

LEMMA PruneBlobTable == ASSUME TableInv, NEW o \in Op, PruneBlob(o) PROVE TableInv'
<1>0. ops[o].at = "sweep" /\ UNCHANGED <<pulls, creating, manifests, partial, temp, stale, late>>
  BY Zenon DEF PruneBlob
<1>1. ops[o].kind = "delete" /\ ops[o].kind \notin Claimed
  BY <1>0, Known DEF RightKind, Claimed
<1>2. ops[o].todo \subseteq Blob /\ ops[o].temps \subseteq Blob
  BY Known DEF OpState
<1>3. CASE Finish(o) /\ UNCHANGED <<blobs, made>>
  <2>1. Steps(o, Finished(o))
    BY <1>0, <1>1, <1>3, Ends DEF Finish, Steps, Kept, TableInv, TypeOK
  <2>2. DiskOK'
    BY <1>0, <1>3 DEF DiskOK, TableInv, TypeOK
  <2> QED BY <1>0, <1>1, <2>1, <2>2, Ends, StepUnclaimed
<1>4. ASSUME NEW b \in ops[o].todo,
             blobs' = [blobs EXCEPT ![b] = "absent"], UNCHANGED made,
             ops' = [Moved(Downloading({b}) \cup Filling(b), FinalGone) EXCEPT
                        ![o].todo = @ \ {b}]
      PROVE  TableInv'
  <2> DEFINE W == Downloading({b}) \cup Filling(b)
             moved == Moved(W, FinalGone)
             t == [moved[o] EXCEPT !.todo = @ \ {b}]
  <2>1. ops' = [moved EXCEPT ![o] = t]
    BY <1>4
  <2>2. /\ moved[o] \in OpState
        /\ moved[o].at = ops[o].at /\ moved[o].kind = ops[o].kind
        /\ moved[o].name = ops[o].name
    BY MovedKept
  <2>a. ops' = [Moved(W, FinalGone) EXCEPT ![o] = t]
    BY <2>1
  <2> HIDE DEF moved, W
  <2>3. t \in OpState
    BY <2>2 DEF OpState
  <2>4. Proper(t) /\ RightKind(t) /\ GoesOn(o, t)
    BY <1>0, <1>1, <2>2, Known DEF OpState, Proper, RightKind, GoesOn, Fetching, Bringing,
         Installing, Making
  <2> HIDE DEF t
  <2>5. Steps(o, t)
    BY <2>3, <2>4, <2>a, MovedSteps
  <2>6. DiskOK'
    BY <1>0, <1>2, <1>4 DEF DiskOK, Content, TableInv, TypeOK
  <2> QED BY <1>0, <2>4, <2>5, <2>6, StepGoesOn
<1>5. ASSUME NEW b \in ops[o].temps,
             made' = [made EXCEPT ![b] = "absent"], UNCHANGED blobs,
             ops' = [Moved(Filling(b), TempGone) EXCEPT ![o].temps = @ \ {b}]
      PROVE  TableInv'
  <2> DEFINE W == Filling(b)
             moved == Moved(W, TempGone)
             t == [moved[o] EXCEPT !.temps = @ \ {b}]
  <2>1. ops' = [moved EXCEPT ![o] = t]
    BY <1>5
  <2>2. /\ moved[o] \in OpState
        /\ moved[o].at = ops[o].at /\ moved[o].kind = ops[o].kind
        /\ moved[o].name = ops[o].name
    BY MovedKept
  <2>a. ops' = [Moved(W, TempGone) EXCEPT ![o] = t]
    BY <2>1
  <2> HIDE DEF moved, W
  <2>3. t \in OpState
    BY <2>2 DEF OpState
  <2>4. Proper(t) /\ RightKind(t) /\ GoesOn(o, t)
    BY <1>0, <1>1, <2>2, Known DEF OpState, Proper, RightKind, GoesOn, Fetching, Bringing,
         Installing, Making
  <2> HIDE DEF t
  <2>5. Steps(o, t)
    BY <2>3, <2>4, <2>a, MovedSteps
  <2>6. DiskOK'
    BY <1>0, <1>2, <1>5 DEF DiskOK, TableInv, TypeOK
  <2> QED BY <1>0, <2>4, <2>5, <2>6, StepGoesOn
<1>6. \/ Finish(o) /\ UNCHANGED <<blobs, made>>
      \/ \E b \in ops[o].todo :
            /\ blobs' = [blobs EXCEPT ![b] = "absent"] /\ UNCHANGED made
            /\ ops' = [Moved(Downloading({b}) \cup Filling(b), FinalGone) EXCEPT
                          ![o].todo = @ \ {b}]
      \/ \E b \in ops[o].temps :
            /\ made' = [made EXCEPT ![b] = "absent"] /\ UNCHANGED blobs
            /\ ops' = [Moved(Filling(b), TempGone) EXCEPT ![o].temps = @ \ {b}]
  BY ZenonT(60) DEF PruneBlob
<1> QED BY <1>3, <1>4, <1>5, <1>6

LEMMA CrashTable == ASSUME TableInv, Crash PROVE TableInv'
<1>1. DiskOK'
  BY StoreAssumption DEF Crash, DiskOK, TableInv, TypeOK
<1>2. TypeOK' /\ KindInv'
  BY <1>1, IdleType DEF Crash, TypeOK, KindInv
<1>3. ClaimInv'
  <2>1. \A o \in Op : ops'[o].at = "idle"
    BY DEF Crash, Idle
  <2>2. \A n \in Name : pulls'[n] = None /\ n \notin creating'
    BY DEF Crash
  <2>3. \A n \in Name : Writers(n)' = {}
    BY <2>1 DEF Writers
  <2> SUFFICES ASSUME NEW n \in Name
               PROVE  (/\ \A o, p \in Writers(n) : o = p
                       /\ pulls[n] # None <=> \E o \in Writers(n) : ops[o].kind = "pull"
                       /\ n \in creating <=> \E o \in Writers(n) : ops[o].kind = "create")'
    BY Zenon DEF ClaimInv
  <2> QED BY <2>2, <2>3
<1> QED BY <1>2, <1>3 DEF TableInv

LEMMA StepTable == TableInv /\ [Next]_vars => TableInv'
<1> SUFFICES ASSUME TableInv, [Next]_vars PROVE TableInv'
  OBVIOUS
<1>1. CASE UNCHANGED vars
  BY <1>1 DEF vars, TableInv, TypeOK, DiskOK, KindInv, ClaimInv, Writers
<1>2. ASSUME NEW o \in Op, Pull(o) PROVE TableInv'
  BY <1>2, PullStartTable, FetchManifestTable, PullStopsTable, PullAbandonsTable, SkipBlobTable,
     OpenPartialTable, FetchDoneTable, VerifyTable, RenameBlobTable DEF Pull
<1>3. ASSUME NEW o \in Op, Write(o) PROVE TableInv'
  BY <1>3, LayersDoneTable, WriteTempTable, FillTempTable, InstallTable, WriteFailsTable,
     ReleaseTable
     DEF Write
<1>4. ASSUME NEW o \in Op, Make(o) PROVE TableInv'
  BY <1>4, CreateStartTable, CopyStartTable, ReadFromTable, CheckBlobTable,
     WriteBlobTable, FillBlobTable, PutBlobTable, CreateFailsTable DEF Make
<1>5. ASSUME NEW o \in Op, Delete(o) PROVE TableInv'
  BY <1>5, DeleteStartTable, RemoveManifestTable, ListToPruneTable, PruneTable,
     PruneBlobTable DEF Delete
<1>6. CASE Crash
  BY <1>6, CrashTable
<1>7. ASSUME NEW b \in Blob, Late(b) PROVE TableInv'
  BY <1>7, LateTable
<1> QED BY <1>1, <1>2, <1>3, <1>4, <1>5, <1>6, <1>7 DEF Next

\* Every variable keeps its type, every task stays where its operation can be, and
\* the tables of pulls and creates hold the names being written, at every crash too.
THEOREM TableInvariance == Spec => []TableInv
BY InitTable, StepTable, PTL DEF Spec

\* Every variable keeps its type: no task acts on a manifest that was not there.
THEOREM StoreTyped == Spec => []TypeOK
<1>1. TableInv => TypeOK
  BY DEF TableInv
<1> QED BY <1>1, TableInvariance, PTL

\* One pull or create at most writes the manifest of a name, and the name is busy
\* exactly while it does: Ollaya::pulls and Ollaya::creating act as one table.
THEOREM OneWriterAlways == Spec => []OneWriter
<1>1. TableInv => OneWriter
  <2> SUFFICES ASSUME TableInv, NEW n \in Name
               PROVE  /\ \A o, p \in Writers(n) : o = p
                      /\ Busy(n) <=> Writers(n) # {}
    BY Zenon DEF OneWriter
  <2>1. \A o \in Writers(n) : ops[o].kind \in {"pull", "create"}
    BY DEF Writers, Claimed
  <2> QED BY <2>1 DEF TableInv, ClaimInv, Busy
<1> QED BY <1>1, TableInvariance, PTL

-----------------------------------------------------------------------------
(* Tasks that run alone *)

\* A task that starts touches nothing; one that goes on stays what it is.
Starts(o) == /\ ops[o].at = "idle" /\ ops'[o].at \notin {"prune", "sweep"}
             /\ UNCHANGED disk /\ \A p \in Op \ {o} : ops'[p] = ops[p]
Stays(o) == ops[o].at # "idle" /\ (ops'[o].at # "idle" => Same(ops'[o], ops[o]))

\* A step of one task takes from the others the file they opened at most.
LEMMA StepKeeps ==
    ASSUME TableInv, NEW o \in Op, Pull(o) \/ Write(o) \/ Make(o) \/ Delete(o)
    PROVE  (\A p \in Op \ {o} : Kept(p)) /\ (Starts(o) \/ Stays(o))
<1> DEFINE Goal == (\A p \in Op \ {o} : Kept(p)) /\ (Starts(o) \/ Stays(o))
<1> SUFFICES Goal
  OBVIOUS
<1>0. ops \in [Op -> OpState]
  BY DEF TableInv, TypeOK
<1>1. CASE PullStart(o)
  <2>1. /\ ops'[o].at \notin {"prune", "sweep"}
        /\ \A p \in Op \ {o} : ops'[p] = ops[p]
    BY <1>0, <1>1 DEF PullStart, Idle
  <2>2. ops[o].at = "idle" /\ UNCHANGED disk
    BY <1>1 DEF PullStart
  <2> QED BY <2>1, <2>2 DEF Starts, Kept
<1>2. CASE CreateStart(o)
  <2>1. /\ ops'[o].at \notin {"prune", "sweep"}
        /\ \A p \in Op \ {o} : ops'[p] = ops[p]
    BY <1>0, <1>2 DEF CreateStart, Idle
  <2>2. ops[o].at = "idle" /\ UNCHANGED disk
    BY <1>2 DEF CreateStart
  <2> QED BY <2>1, <2>2 DEF Starts, Kept
<1>3. CASE CopyStart(o)
  <2>1. /\ ops'[o].at \notin {"prune", "sweep"}
        /\ \A p \in Op \ {o} : ops'[p] = ops[p]
    BY <1>0, <1>3 DEF CopyStart, Idle
  <2>2. ops[o].at = "idle" /\ UNCHANGED disk
    BY <1>3 DEF CopyStart
  <2> QED BY <2>1, <2>2 DEF Starts, Kept
<1>18. CASE DeleteStart(o)
  <2>1. /\ ops'[o].at \notin {"prune", "sweep"}
        /\ \A p \in Op \ {o} : ops'[p] = ops[p]
    BY <1>0, <1>18 DEF DeleteStart, Idle
  <2>2. ops[o].at = "idle" /\ UNCHANGED disk
    BY <1>18 DEF DeleteStart
  <2> QED BY <2>1, <2>2 DEF Starts, Kept
<1>4. ASSUME ops[o].at # "idle", \A p \in Op \ {o} : ops'[p] = ops[p],
             ops'[o].at # "idle" => Same(ops'[o], ops[o])
      PROVE  Goal
  BY <1>4 DEF Kept, Stays
<1>16. ASSUME ops[o].at # "idle", Finish(o) PROVE Goal
  <2>1. Finished(o).at # "idle" => Same(Finished(o), ops[o])
    BY <1>0, <1>16 DEF Finished, Idle, Same, OpState
  <2>2. ops'[o] = Finished(o) /\ \A p \in Op \ {o} : ops'[p] = ops[p]
    BY <1>0, <1>16 DEF Finish
  <2> QED BY <1>4, <1>16, <2>1, <2>2
<1>10. ASSUME NEW W, NEW f \in {ToFinal, TempGone, FinalGone}, NEW s,
              ops[o].at # "idle", s.at # "idle" => Same(s, ops[o]),
              ops' = [Moved(W, f) EXCEPT ![o] = s]
       PROVE  Goal
  <2> DEFINE moved == Moved(W, f)
  <2>1. /\ moved \in [Op -> OpState]
        /\ \A p \in Op :
              LET t == moved[p] IN
              /\ t.at = ops[p].at /\ t.kind = ops[p].kind
              /\ t.name = ops[p].name /\ t.key = ops[p].key /\ t.from = ops[p].from
              /\ t.manifest = ops[p].manifest
              /\ t.todo = ops[p].todo /\ t.blob = ops[p].blob
    BY MovedKept
  <2>2. ops' = [moved EXCEPT ![o] = s]
    BY <1>10
  <2> HIDE DEF moved
  <2> QED BY <1>10, <2>1, <2>2 DEF Kept, Stays
<1>6. CASE Release(o)
  BY <1>0, <1>6 DEF Release, Idle, Kept, Stays
<1> HIDE DEF Goal
<1>5. CASE \/ FetchManifest(o) \/ SkipBlob(o) \/ FetchDone(o) \/ LayersDone(o)
           \/ WriteTemp(o) \/ FillTemp(o) \/ CheckBlob(o) \/ WriteBlob(o) \/ FillBlob(o)
           \/ Prune(o)
  <2>0. ops[o].at # "idle" /\ ops[o] \in OpState
    <3>1. ops[o].at = "idle" => ~FetchManifest(o) /\ ~SkipBlob(o) /\ ~FetchDone(o) /\ ~LayersDone(o)
      BY DEF FetchManifest, SkipBlob, FetchDone, LayersDone
    <3>2. ops[o].at = "idle" => ~WriteTemp(o) /\ ~FillTemp(o) /\ ~Prune(o)
      BY DEF WriteTemp, FillTemp, Prune
    <3>3. ops[o].at = "idle" => ~CheckBlob(o) /\ ~WriteBlob(o) /\ ~FillBlob(o)
      BY DEF CheckBlob, WriteBlob, FillBlob
    <3> QED BY <1>0, <1>5, <3>1, <3>2, <3>3
  <2>8. ASSUME NEW s, Same(s, ops[o]), ops' = [ops EXCEPT ![o] = s] PROVE Goal
    <3>1. ops'[o] = s /\ \A p \in Op \ {o} : ops'[p] = ops[p]
      BY <1>0, <2>8
    <3> QED BY <1>4, <2>0, <2>8, <3>1
  <2>1. CASE FetchManifest(o)
    <3>1. PICK m \in Offers[ops[o].name] :
            ops' = [ops EXCEPT ![o] = [@ EXCEPT !.at = "layers", !.manifest = m,
                                                !.todo = BlobsOf[m]]]
      BY <2>1, ZenonT(60) DEF FetchManifest
    <3>2. Same([ops[o] EXCEPT !.at = "layers", !.manifest = m, !.todo = BlobsOf[m]], ops[o])
      BY <2>0 DEF OpState, Same
    <3> QED BY <2>8, <3>1, <3>2, Zenon
  <2>2. CASE SkipBlob(o)
    <3>1. PICK b \in ops[o].todo : ops' = [ops EXCEPT ![o].todo = @ \ {b}]
      BY <2>2 DEF SkipBlob
    <3>2. Same([ops[o] EXCEPT !.todo = @ \ {b}], ops[o])
      BY <2>0 DEF OpState, Same
    <3> QED BY <2>8, <3>1, <3>2, Zenon
  <2>3. CASE LayersDone(o)
    <3>1. ops' = [ops EXCEPT ![o].at = "write_temp"]
      BY <2>3 DEF LayersDone, Goto
    <3>2. Same([ops[o] EXCEPT !.at = "write_temp"], ops[o])
      BY <2>0 DEF OpState, Same
    <3> QED BY <2>8, <3>1, <3>2, Zenon
  <2>4. CASE FetchDone(o)
    <3>1. ops' = [ops EXCEPT ![o] = [@ EXCEPT !.at = "verify", !.file = "gone", !.lost = FALSE]]
      BY <2>4, Zenon DEF FetchDone
    <3>2. Same([ops[o] EXCEPT !.at = "verify", !.file = "gone", !.lost = FALSE], ops[o])
      BY <2>0 DEF OpState, Same
    <3> QED BY <2>8, <3>1, <3>2, Zenon
  <2>5. CASE WriteTemp(o) \/ FillTemp(o) \/ WriteBlob(o) \/ FillBlob(o)
    <3>1. PICK to, file : ops' = [ops EXCEPT ![o] = [@ EXCEPT !.at = to, !.file = file]]
      BY <2>5, Zenon DEF WriteTemp, FillTemp, WriteBlob, FillBlob
    <3>2. Same([ops[o] EXCEPT !.at = to, !.file = file], ops[o])
      BY <2>0 DEF OpState, Same
    <3> QED BY <2>8, <3>1, <3>2, Zenon
  <2>6. CASE CheckBlob(o)
    <3>1. PICK b \in ops[o].todo :
            \/ ops' = [ops EXCEPT ![o].todo = @ \ {b}]
            \/ ops' = [ops EXCEPT ![o] = [@ EXCEPT !.at = "write_blob", !.blob = b]]
      BY <2>6, Zenon DEF CheckBlob
    <3>2. /\ Same([ops[o] EXCEPT !.todo = @ \ {b}], ops[o])
          /\ Same([ops[o] EXCEPT !.at = "write_blob", !.blob = b], ops[o])
      BY <2>0 DEF OpState, Same
    <3>3. CASE ops' = [ops EXCEPT ![o].todo = @ \ {b}]
      BY <2>8, <3>2, <3>3, Zenon
    <3>4. CASE ops' = [ops EXCEPT ![o] = [@ EXCEPT !.at = "write_blob", !.blob = b]]
      BY <2>8, <3>2, <3>4, Zenon
    <3> QED BY <3>1, <3>3, <3>4
  <2>7. CASE Prune(o)
    <3> DEFINE B == {b \in Blob \ ops[o].todo : blobs[b] # "absent"}
               C == {b \in Blob : made[b] # "absent"}
    <3>1. ops' = [ops EXCEPT ![o] = [@ EXCEPT !.at = "sweep", !.todo = B, !.temps = C]]
      BY <2>7, Zenon DEF Prune
    <3> HIDE DEF B, C
    <3>2. Same([ops[o] EXCEPT !.at = "sweep", !.todo = B, !.temps = C], ops[o])
      BY <2>0 DEF OpState, Same
    <3> QED BY <2>8, <3>1, <3>2, Zenon
  <2> QED BY <1>5, <2>1, <2>2, <2>3, <2>4, <2>5, <2>6, <2>7
<1>7. CASE PullStops(o) \/ CreateFails(o) \/ PullAbandons(o) \/ WriteFails(o)
  <2>1. Finish(o)
    BY <1>7, Zenon DEF PullStops, CreateFails, PullAbandons, WriteFails
  <2>2. ops[o].at = "idle" => ~PullStops(o) /\ ~CreateFails(o) /\ ~WriteFails(o)
    BY DEF PullStops, CreateFails, WriteFails, Making, Installing
  <2>3. ops[o].at = "idle" => ~PullAbandons(o)
    BY DEF PullAbandons, Opens
  <2> QED BY <1>7, <1>16, <2>1, <2>2, <2>3
<1>8. CASE ReadFrom(o) \/ ListToPrune(o)
  <2>0. ops[o].at # "idle" /\ ops[o] \in OpState
    BY <1>0, <1>8 DEF ReadFrom, ListToPrune
  <2>1. CASE Finish(o)
    BY <1>16, <2>0, <2>1
  <2>2. CASE ReadFrom(o) /\ ~Finish(o)
    <3> DEFINE m == manifests[ops[o].from]
               B == BlobsOf[Derived[m]] \ BlobsOf[m]
               d == Derived[m]
    <3>1. \/ ops' = [ops EXCEPT ![o] = [@ EXCEPT !.at = "layers", !.manifest = d, !.todo = B]]
          \/ ops' = [ops EXCEPT ![o] = [@ EXCEPT !.at = "write_temp", !.manifest = m]]
      BY <2>2 DEF ReadFrom
    <3> HIDE DEF m, B, d
    <3>2. CASE ops' = [ops EXCEPT ![o] = [@ EXCEPT !.at = "layers", !.manifest = d, !.todo = B]]
      BY <1>0, <1>4, <2>0, <3>2 DEF OpState, Same
    <3>3. CASE ops' = [ops EXCEPT ![o] = [@ EXCEPT !.at = "write_temp", !.manifest = m]]
      BY <1>0, <1>4, <2>0, <3>3 DEF OpState, Same
    <3> QED BY <3>1, <3>2, <3>3
  <2>3. CASE ListToPrune(o) /\ ~Finish(o)
    <3> DEFINE B == UNION {BlobsOf[m] : m \in Listed}
    <3>1. ops' = [ops EXCEPT ![o] = [@ EXCEPT !.at = "prune", !.todo = B]]
      BY <2>3 DEF ListToPrune
    <3> HIDE DEF B
    <3> QED BY <1>0, <1>4, <2>0, <3>1 DEF OpState, Same
  <2> QED BY <1>8, <2>1, <2>2, <2>3
<1>9. CASE OpenPartial(o)
  <2> DEFINE opened(b) == [ops[o] EXCEPT !.at = "download", !.blob = b, !.file = "temp",
                                         !.lost = FALSE]
  <2>1. PICK b \in Blob :
          /\ Opens(o, b)
          /\ \/ ops' = [Truncated(b) EXCEPT ![o] = opened(b)]
             \/ ops' = [ops EXCEPT ![o] = opened(b)]
    BY <1>9, ZenonT(60) DEF OpenPartial
  <2>2. ops[o].at # "idle" /\ ops[o] \in OpState
    BY <1>0, <2>1 DEF Opens
  <2>3. Same(opened(b), ops[o])
    BY <2>2 DEF OpState, Same
  <2> HIDE DEF opened
  <2>4. CASE ops' = [ops EXCEPT ![o] = opened(b)]
    <3>1. ops'[o] = opened(b) /\ \A p \in Op \ {o} : ops'[p] = ops[p]
      BY <1>0, <2>4
    <3> QED BY <1>4, <2>2, <2>3, <3>1
  <2>5. CASE ops' = [Truncated(b) EXCEPT ![o] = opened(b)]
    <3> DEFINE cut == Truncated(b)
    <3>1. /\ cut \in [Op -> OpState]
          /\ \A p \in Op :
                LET t == cut[p] IN
                /\ t.at = ops[p].at /\ t.kind = ops[p].kind
                /\ t.name = ops[p].name /\ t.key = ops[p].key /\ t.from = ops[p].from
                /\ t.manifest = ops[p].manifest
                /\ t.todo = ops[p].todo /\ t.blob = ops[p].blob
      BY TruncatedKept
    <3>2. ops' = [cut EXCEPT ![o] = opened(b)]
      BY <2>5
    <3> HIDE DEF cut
    <3>3. ops'[o] = opened(b) /\ \A p \in Op \ {o} : Kept(p)
      BY <3>1, <3>2 DEF Kept
    <3> QED BY <2>2, <2>3, <3>3 DEF Stays, Goal
  <2> QED BY <2>1, <2>4, <2>5
<1>11. ASSUME NEW W, NEW f \in {ToFinal, TempGone, FinalGone}
       PROVE  Moved(W, f)[o] \in OpState /\ Same(Moved(W, f)[o], ops[o])
  BY MovedKept DEF Same
<1>12. CASE Verify(o) \/ Install(o)
  <2>1. Finished(o).at # "idle" => Same(Finished(o), ops[o])
    BY <1>0 DEF Finished, Idle, Same, OpState
  <2>2. ops[o].at # "idle"
    BY <1>12 DEF Verify, Install
  <2>3. CASE ops' = [ops EXCEPT ![o].at = "rename"]
    BY <1>0, <1>4, <2>2, <2>3 DEF OpState, Same
  <2> QED BY <1>16, <1>10, <1>12, <2>1, <2>2, <2>3 DEF Verify, Install, Goto
<1>13. CASE RenameBlob(o) \/ PutBlob(o)
  <2> DEFINE s(W) == [Moved(W, ToFinal)[o] EXCEPT !.at = "layers",
                                                  !.todo = ops[o].todo \ {ops[o].blob},
                                                  !.blob = None]
  <2>1. ops[o].at # "idle" /\ \A W : Same(s(W), ops[o])
    <3>1. ASSUME NEW W PROVE Same(s(W), ops[o])
      BY <1>11 DEF OpState, Same
    <3>2. ops[o].at # "idle"
      BY <1>13, Zenon DEF RenameBlob, PutBlob
    <3> HIDE DEF s
    <3> QED BY <3>1, <3>2
  <2>2. CASE RenameBlob(o)
    <3>1. \/ Finish(o)
          \/ ops' = [Moved(Downloading({ops[o].blob}), ToFinal) EXCEPT
                       ![o] = s(Downloading({ops[o].blob}))]
      BY <2>2 DEF RenameBlob
    <3> HIDE DEF s
    <3> QED BY <1>16, <1>10, <2>1, <3>1
  <2>3. CASE PutBlob(o)
    <3>1. \/ Finish(o)
          \/ ops' = [Moved(Filling(ops[o].blob), ToFinal) EXCEPT ![o] = s(Filling(ops[o].blob))]
      BY <2>3 DEF PutBlob
    <3> HIDE DEF s
    <3> QED BY <1>16, <1>10, <2>1, <3>1
  <2> QED BY <1>13, <2>2, <2>3
<1>14. CASE RemoveManifest(o)
  <2> DEFINE moved == Moved(Writing(ops[o].name), FinalGone)
             s == [moved[o] EXCEPT !.at = "list"]
  <2>1. ops[o].at # "idle" /\ Same(s, ops[o])
    BY <1>11, <1>14 DEF RemoveManifest, OpState, Same
  <2>2. Finish(o) \/ ops' = [moved EXCEPT ![o] = s]
    BY <1>14 DEF RemoveManifest
  <2> QED BY <1>16, <1>10, <2>1, <2>2
<1>15. CASE PruneBlob(o)
  <2>1. ops[o].at # "idle"
    BY <1>15, Zenon DEF PruneBlob
  <2>2. ASSUME NEW b, NEW W,
               ops' = [Moved(W, FinalGone) EXCEPT ![o].todo = @ \ {b}]
        PROVE  Goal
    <3> DEFINE moved == Moved(W, FinalGone)
               s == [moved[o] EXCEPT !.todo = @ \ {b}]
    <3>1. Same(s, ops[o])
      BY <1>11 DEF OpState, Same
    <3>2. ops' = [moved EXCEPT ![o] = s]
      BY <2>2
    <3> HIDE DEF s
    <3> QED BY <1>10, <2>1, <3>1, <3>2
  <2>3. ASSUME NEW b, NEW W,
               ops' = [Moved(W, TempGone) EXCEPT ![o].temps = @ \ {b}]
        PROVE  Goal
    <3> DEFINE moved == Moved(W, TempGone)
               s == [moved[o] EXCEPT !.temps = @ \ {b}]
    <3>1. Same(s, ops[o])
      BY <1>11 DEF OpState, Same
    <3>2. ops' = [moved EXCEPT ![o] = s]
      BY <2>3
    <3> HIDE DEF s
    <3> QED BY <1>10, <2>1, <3>1, <3>2
  <2> QED BY <1>16, <1>15, <2>1, <2>2, <2>3, ZenonT(60) DEF PruneBlob
<1> QED
  BY <1>1, <1>2, <1>3, <1>18, <1>5, <1>6, <1>7, <1>8, <1>9, <1>12, <1>13, <1>14, <1>15
     DEF Pull, Write, Make, Delete

-----------------------------------------------------------------------------
(* What a delete that meets no other task leaves *)

\* A delete that ends leaves the others where they are.
LEMMA DeleteEnds ==
    ASSUME TableInv, NEW o \in Op, ops[o].kind = "delete", Finish(o)
    PROVE  ops'[o].at = "idle" /\ \A p \in Op \ {o} : ops'[p] = ops[p]
BY DEF TableInv, TypeOK, Finish, Finished, Idle, Claimed

\* A task at work on a delete takes no other step.
LEMMA DeleteOnly ==
    ASSUME TableInv, NEW o \in Op, ops[o].at # "idle", ops[o].kind = "delete"
    PROVE  ~Pull(o) /\ ~Write(o) /\ ~Make(o) /\ ~DeleteStart(o)
<1>1. RightKind(ops[o])
  BY Known
<1>2. ops[o].at \in {"remove", "list", "prune", "sweep"}
  BY <1>1, Known DEF RightKind, Fetching, Installing, Making, Claimed, OpState, Points
<1>3. ~PullStart(o) /\ ~FetchManifest(o) /\ ~DeleteStart(o)
  BY <1>2, Zenon DEF PullStart, FetchManifest, DeleteStart
<1>4. ~OpenPartial(o) /\ ~FetchDone(o) /\ ~Verify(o) /\ ~RenameBlob(o)
  BY <1>2, Zenon DEF OpenPartial, Opens, FetchDone, Verify, RenameBlob
<1>5. ~LayersDone(o) /\ ~WriteTemp(o) /\ ~FillTemp(o) /\ ~Install(o) /\ ~Release(o)
  BY <1>2 DEF LayersDone, WriteTemp, FillTemp, Install, Release
<1>6. ~CreateStart(o) /\ ~CopyStart(o) /\ ~ReadFrom(o)
  BY <1>2, Zenon DEF CreateStart, CopyStart, ReadFrom
<1>7. ~CheckBlob(o) /\ ~CreateFails(o) /\ ~PullStops(o) /\ ~SkipBlob(o)
  BY <1>2 DEF CheckBlob, CreateFails, Making, PullStops, SkipBlob
<1>8. ~WriteBlob(o) /\ ~FillBlob(o) /\ ~PutBlob(o) /\ ~WriteFails(o) /\ ~PullAbandons(o)
  BY <1>2, Zenon DEF WriteBlob, FillBlob, PutBlob, WriteFails, Installing, PullAbandons
<1> QED BY <1>3, <1>4, <1>5, <1>6, <1>7, <1>8 DEF Pull, Write, Make

\* Whoever prunes after a step took it.
LEMMA PrunerSteps ==
    ASSUME TableInv, TableInv', DeletesAlone, NEW o \in Op,
           Pull(o) \/ Write(o) \/ Make(o) \/ Delete(o),
           NEW p \in Op, ops'[p].at \in {"prune", "sweep"}
    PROVE  \/ p = o /\ (ListToPrune(o) \/ Prune(o) \/ PruneBlob(o))
           \/ ops'[p] = ops[p] /\ UNCHANGED disk
<1>1. ops'[p].kind = "delete"
  BY DEF TableInv, KindInv, RightKind
<1>2. (\A q \in Op \ {o} : Kept(q)) /\ (Starts(o) \/ Stays(o))
  BY StepKeeps
<1>3. CASE p # o
  <2>1. ops[p].at # "idle" /\ ops[p].kind = "delete"
    BY <1>1, <1>2, <1>3 DEF Kept
  <2>2. ops[o].at = "idle"
    BY <1>3, <2>1 DEF DeletesAlone, Alone
  <2> QED BY <1>2, <1>3, <2>2 DEF Starts, Stays
<1>4. CASE p = o
  <2>1. ops[o].at # "idle" /\ ops[o].kind = "delete"
    BY <1>1, <1>2, <1>4 DEF Starts, Stays, Same
  <2>2. Delete(o) /\ ~DeleteStart(o)
    BY <2>1, DeleteOnly
  <2>3. ~RemoveManifest(o)
    <3> SUFFICES ASSUME RemoveManifest(o) PROVE ops'[o].at \in {"idle", "list"}
      BY <1>4
    <3>1. CASE Finish(o)
      BY <2>1, <3>1, DeleteEnds
    <3>2. CASE ops' = [Moved(Writing(ops[o].name), FinalGone) EXCEPT ![o].at = "list"]
      <4> DEFINE moved == Moved(Writing(ops[o].name), FinalGone)
      <4>1. moved \in [Op -> OpState]
        BY MovedKept
      <4>2. ops' = [moved EXCEPT ![o].at = "list"]
        BY <3>2
      <4> HIDE DEF moved
      <4> QED BY <4>1, <4>2 DEF OpState
    <3> QED BY <3>1, <3>2 DEF RemoveManifest
  <2> QED BY <1>4, <2>2, <2>3 DEF Delete
<1> QED BY <1>3, <1>4

LEMMA StepSweep == AloneInv /\ DeletesAlone /\ [Next]_vars => AloneInv'
<1> SUFFICES ASSUME AloneInv, DeletesAlone, [Next]_vars PROVE AloneInv'
  OBVIOUS
<1>0. TableInv /\ SweepInv /\ TableInv' /\ ops \in [Op -> OpState]
  BY StepTable DEF AloneInv, TableInv, TypeOK
<1> DEFINE need == UNION {BlobsOf[m] : m \in Listed}
           cut == {b \in Blob : made[b] # "absent"}
           Right(p) == /\ ops[p].at = "prune" => ops[p].todo = need
                       /\ ops[p].at = "sweep" =>
                             /\ \A b \in ops[p].todo : blobs[b] # "absent"
                             /\ \A b \in Blob : blobs[b] # "absent" =>
                                   b \in ops[p].todo \cup need
                             /\ ops[p].temps = cut
<1>a. SweepInv <=> \A p \in Op : Right(p)
  BY DEF SweepInv
<1>b. SweepInv' <=> \A p \in Op : Right(p)'
  BY DEF SweepInv
<1>1. CASE UNCHANGED vars
  <2>1. need' = need /\ cut' = cut /\ ops' = ops /\ blobs' = blobs
    BY <1>1 DEF vars, Listed, Files
  <2> HIDE DEF need, cut
  <2> QED BY <1>0, <1>a, <1>b, <2>1 DEF AloneInv
<1>2. CASE Crash
  <2>1. \A p \in Op : ops'[p].at = "idle"
    BY <1>2 DEF Crash, Idle
  <2> HIDE DEF need, cut
  <2> QED BY <1>0, <1>b, <2>1 DEF AloneInv
<1>3. ASSUME NEW b \in Blob, Late(b) PROVE SweepInv'
  <2>1. ASSUME NEW p \in Op PROVE ops'[p].at \notin {"prune", "sweep"}
    <3>1. Kept(p)
      BY <1>0, <1>3, LateKept
    <3>2. ops[p].at \in {"prune", "sweep"} => late = {}
      BY <1>0, Known DEF DeletesAlone, RightKind
    <3>3. late # {}
      BY <1>3, Zenon DEF Late, LateOpen, LateRename, LateRemove
    <3> QED BY <3>1, <3>2, <3>3 DEF Kept
  <2> HIDE DEF need, cut
  <2> QED BY <1>b, <2>1
<1>4. ASSUME NEW o \in Op, Pull(o) \/ Write(o) \/ Make(o) \/ Delete(o) PROVE SweepInv'
  <2>1. ASSUME ListToPrune(o) PROVE Right(o)'
    <3>1. need' = need /\ blobs' = blobs
      BY <2>1 DEF ListToPrune, disk, Listed, Files
    <3>2. CASE Finish(o)
      <4>1. ops[o].kind = "delete"
        BY <1>0, <2>1, Known DEF ListToPrune, RightKind
      <4>2. ops'[o].at = "idle"
        BY <1>0, <3>2, <4>1, DeleteEnds
      <4> HIDE DEF need, cut
      <4> QED BY <4>2
    <3>3. CASE ops' = [ops EXCEPT ![o] = [@ EXCEPT !.at = "prune", !.todo = need]]
      <4> HIDE DEF need, cut
      <4>1. ops'[o].at = "prune" /\ ops'[o].todo = need
        BY <1>0, <3>3 DEF OpState
      <4> QED BY <3>1, <4>1
    <3> QED BY <2>1, <3>2, <3>3 DEF ListToPrune
  <2>2. ASSUME Prune(o) PROVE Right(o)'
    <3>1. need' = need /\ blobs' = blobs /\ cut' = cut
      BY <2>2 DEF Prune, disk, Listed, Files
    <3>2. ops[o].todo = need
      BY <1>0, <1>a, <2>2 DEF Prune
    <3> DEFINE left == {b \in Blob \ ops[o].todo : blobs[b] # "absent"}
    <3>3. ops' = [ops EXCEPT ![o] = [@ EXCEPT !.at = "sweep", !.todo = left, !.temps = cut]]
      BY <2>2, Zenon DEF Prune
    <3> HIDE DEF need, cut, left
    <3>4. ops'[o].at = "sweep" /\ ops'[o].todo = left /\ ops'[o].temps = cut
      BY <1>0, <3>3 DEF OpState
    <3> QED BY <3>1, <3>2, <3>4 DEF left
  <2>3. ASSUME PruneBlob(o) PROVE Right(o)'
    <3>1. need' = need /\ ops[o].at = "sweep"
      <4>1. ops[o].at = "sweep" /\ UNCHANGED <<manifests, temp, stale>>
        BY <2>3, Zenon DEF PruneBlob
      <4> QED BY <4>1 DEF Listed, Files
    <3>2. Right(o)
      BY <1>0, <1>a
    <3>3. CASE Finish(o)
      <4>1. ops[o].kind = "delete"
        BY <1>0, <3>1, Known DEF RightKind
      <4>2. ops'[o].at = "idle"
        BY <1>0, <3>3, <4>1, DeleteEnds
      <4> HIDE DEF need, cut
      <4> QED BY <4>2
    <3>0. /\ ops[o].todo \subseteq Blob /\ ops[o].temps \subseteq Blob
          /\ blobs \in [Blob -> Content] /\ made \in [Blob -> {"absent", "short", "good"}]
      BY <1>0, Known DEF TableInv, TypeOK, DiskOK, OpState
    <3>4. ASSUME NEW b \in ops[o].todo, NEW W,
                 blobs' = [blobs EXCEPT ![b] = "absent"], UNCHANGED made,
                 ops' = [Moved(W, FinalGone) EXCEPT ![o].todo = @ \ {b}]
          PROVE  Right(o)'
      <4> DEFINE moved == Moved(W, FinalGone)
      <4>1. /\ moved \in [Op -> OpState]
            /\ moved[o].at = ops[o].at /\ moved[o].todo = ops[o].todo
            /\ moved[o].temps = ops[o].temps
        BY <1>0, MovedKept
      <4>2. ops' = [moved EXCEPT ![o].todo = @ \ {b}]
        BY <3>4
      <4> HIDE DEF moved
      <4>3. /\ ops'[o].at = "sweep" /\ ops'[o].todo = ops[o].todo \ {b}
            /\ ops'[o].temps = ops[o].temps
        BY <3>1, <4>1, <4>2 DEF OpState
      <4>4. \A c \in Blob : blobs'[c] = IF c = b THEN "absent" ELSE blobs[c]
        BY <3>0, <3>4
      <4>5. cut' = cut
        BY <3>4
      <4> HIDE DEF need, cut
      <4> QED BY <3>0, <3>1, <3>2, <4>3, <4>4, <4>5
    <3>5. ASSUME NEW b \in ops[o].temps, NEW W,
                 made' = [made EXCEPT ![b] = "absent"], UNCHANGED blobs,
                 ops' = [Moved(W, TempGone) EXCEPT ![o].temps = @ \ {b}]
          PROVE  Right(o)'
      <4> DEFINE moved == Moved(W, TempGone)
      <4>1. /\ moved \in [Op -> OpState]
            /\ moved[o].at = ops[o].at /\ moved[o].todo = ops[o].todo
            /\ moved[o].temps = ops[o].temps
        BY <1>0, MovedKept
      <4>2. ops' = [moved EXCEPT ![o].temps = @ \ {b}]
        BY <3>5
      <4> HIDE DEF moved
      <4>3. /\ ops'[o].at = "sweep" /\ ops'[o].todo = ops[o].todo
            /\ ops'[o].temps = ops[o].temps \ {b}
        BY <3>1, <4>1, <4>2 DEF OpState
      <4>4. cut' = cut \ {b}
        BY <3>0, <3>5
      <4> HIDE DEF need, cut
      <4> QED BY <3>0, <3>1, <3>2, <3>5, <4>3, <4>4
    <3> HIDE DEF Right
    <3> QED BY <2>3, <3>3, <3>4, <3>5, ZenonT(60) DEF PruneBlob
  <2>4. ASSUME NEW p \in Op PROVE Right(p)'
    <3>1. CASE ops'[p].at \notin {"prune", "sweep"}
      <4> HIDE DEF need, cut
      <4> QED BY <3>1
    <3>2. CASE ops'[p] = ops[p] /\ UNCHANGED disk
      <4>1. need' = need /\ cut' = cut /\ blobs' = blobs
        BY <3>2 DEF disk, Listed, Files
      <4>2. Right(p)
        BY <1>0, <1>a
      <4> HIDE DEF need, cut
      <4> QED BY <3>2, <4>1, <4>2
    <3> HIDE DEF Right
    <3> QED BY <1>0, <1>4, <2>1, <2>2, <2>3, <3>1, <3>2, PrunerSteps
  <2> HIDE DEF Right
  <2> QED BY <1>b, <2>4
<1> HIDE DEF Right
<1> QED BY <1>0, <1>1, <1>2, <1>3, <1>4 DEF Next, AloneInv

\* As long as deletes meet no other task nor what one left to the thread pool, a delete
\* ends with no blob in place that no listed model names, those of pulls given up and of
\* dead daemons included, nor a temporary one; or its listing failed, and it removed
\* nothing but its model.
THEOREM DeletesLeaveNothing == Spec /\ []DeletesAlone => NothingLeft
<1>1. Init => AloneInv
  <2>1. Init => \A o \in Op : ops[o].at = "idle"
    BY DEF Init, Idle
  <2>2. (\A o \in Op : ops[o].at = "idle") => SweepInv
    BY Zenon DEF SweepInv
  <2> QED BY <2>1, <2>2, InitTable DEF AloneInv
<1>2. AloneInv /\ DeletesAlone /\ [Next]_vars => AloneInv'
  BY StepSweep
<1>3. ASSUME AloneInv, NEW o \in Op, PruneBlob(o), ops'[o].at = "idle", NEW b \in Blob
      PROVE  /\ blobs'[b] # "absent" => \E m \in Listed : b \in BlobsOf[m]
             /\ made'[b] = "absent"
  <2>0. TableInv /\ ops[o].at = "sweep"
    BY <1>3, Zenon DEF AloneInv, PruneBlob
  <2>1. /\ \A c \in ops[o].todo : blobs[c] # "absent"
        /\ blobs[b] # "absent" => b \in ops[o].todo \cup UNION {BlobsOf[m] : m \in Listed}
        /\ ops[o].temps = {c \in Blob : made[c] # "absent"}
    BY <1>3, <2>0 DEF AloneInv, SweepInv
  <2>2. CASE ops[o].todo \cup ops[o].temps = {} /\ UNCHANGED <<blobs, made>>
    BY <1>3, <2>1, <2>2
  <2>3. ASSUME NEW c, NEW W, NEW f \in {FinalGone, TempGone},
               \/ ops' = [Moved(W, f) EXCEPT ![o].todo = @ \ {c}]
               \/ ops' = [Moved(W, f) EXCEPT ![o].temps = @ \ {c}]
        PROVE  FALSE
    <3> DEFINE moved == Moved(W, f)
    <3>1. moved \in [Op -> OpState] /\ moved[o].at = ops[o].at
      BY <2>0, MovedKept
    <3>2. \/ ops' = [moved EXCEPT ![o].todo = @ \ {c}]
          \/ ops' = [moved EXCEPT ![o].temps = @ \ {c}]
      BY <2>3
    <3> HIDE DEF moved
    <3>3. ops'[o].at = ops[o].at
      BY <3>1, <3>2 DEF OpState
    <3> QED BY <1>3, <2>0, <3>3
  <2>4. \/ ops[o].todo \cup ops[o].temps = {} /\ UNCHANGED <<blobs, made>>
        \/ \E c \in ops[o].todo : blobs[c] = "absent"
        \/ \E c \in ops[o].temps : made[c] = "absent"
        \/ \E c \in ops[o].todo :
              ops' = [Moved(Downloading({c}) \cup Filling(c), FinalGone) EXCEPT
                        ![o].todo = @ \ {c}]
        \/ \E c \in ops[o].temps :
              ops' = [Moved(Filling(c), TempGone) EXCEPT ![o].temps = @ \ {c}]
    BY <1>3, ZenonT(60) DEF PruneBlob
  <2> QED BY <2>1, <2>2, <2>3, <2>4
<1>4. AloneInv /\ [Next]_vars =>
        [\A o \in Op : PruneBlob(o) /\ ops'[o].at = "idle" =>
            \A b \in Blob : /\ blobs'[b] # "absent" => \E m \in Listed : b \in BlobsOf[m]
                            /\ made'[b] = "absent"]_vars
  BY <1>3
<1> QED BY <1>1, <1>2, <1>4, PTL DEF Spec, NothingLeft

-----------------------------------------------------------------------------
(* The promises of the store, where deletes and copies meet no other task and *)
(* no two tasks bring one blob at a time                                      *)

Promises == TaskInv /\ LateInv /\ Complete /\ BlobsVerified

\* Beside a task that is at work, the others are pulls and creates.
LEMMA Others ==
    ASSUME Apart, TableInv, NEW o \in Op, NEW p \in Op \ {o},
           ops[o].at # "idle", ops[p].at # "idle"
    PROVE  ops[p].kind \in Claimed /\ ops[p].at \notin {"prune", "sweep"}
<1>1. ops[p].kind \in Claimed
  BY Known DEF Apart, DeletesAlone, CopiesAlone, Alone, OpState, Kind, Claimed
<1>2. RightKind(ops[p])
  BY Known
<1> QED BY <1>1, <1>2 DEF RightKind, Claimed

\* A delete meets no other task, and no call that one left.
LEMMA DeleteAlone ==
    ASSUME Apart, NEW o \in Op, ops[o].kind = "delete", ops[o].at # "idle"
    PROVE  late = {} /\ \A p \in Op \ {o} : ops[p].at = "idle"
BY DEF Apart, DeletesAlone, Alone

\* The blob a task downloads or writes is one that it has to bring.
LEMMA Brings ==
    ASSUME TableInv, TaskInv, NEW o \in Op, ops[o].at \in Fetching \cup Making
    PROVE  /\ ops[o].blob \in Blob /\ ops[o].blob \in Missing(o)
           /\ ops[o].blob \in BlobsOf[ops[o].manifest] /\ ops[o].blob \in ops[o].todo
           /\ blobs[ops[o].blob] = "absent"
<1>1. ops[o].blob \in Blob
  BY Known DEF Proper
<1>2. ops[o].at \in Bringing
  BY DEF Bringing
<1>3. ops[o].blob \in ops[o].todo /\ blobs[ops[o].blob] = "absent"
  BY DEF TaskInv, Doing
<1>4. ops[o].todo \subseteq BlobsOf[ops[o].manifest]
  BY <1>2 DEF TaskInv, Doing
<1> QED BY <1>1, <1>2, <1>3, <1>4 DEF Missing, HasBlob

\* Whoever has to bring a blob is the only one at it.
LEMMA OneAtIt ==
    ASSUME Apart, TableInv, TaskInv, NEW o \in Op, NEW b \in Missing(o)
    PROVE  /\ \A p \in Op \ {o} : ops[p].at \in Fetching \cup Making => ops[p].blob # b
           /\ \A call \in Call : <<b, call>> \notin late
<1>1. ASSUME NEW p \in Op \ {o}, ops[p].at \in Fetching \cup Making, ops[p].blob = b
      PROVE  FALSE
  <2>1. b \in Missing(p)
    BY <1>1, Brings
  <2>2. Missing(o) \cap Missing(p) = {}
    BY DEF Apart, OneBringer
  <2> QED BY <2>1, <2>2
<1>2. \A call \in Call : <<b, call>> \notin late
  BY DEF Apart, OneBringer
<1> QED BY <1>1, <1>2

\* Nobody is at a blob for which a call is still to come.
LEMMA NobodyAtIt ==
    ASSUME Apart, TableInv, TaskInv, NEW b, NEW call \in Call, <<b, call>> \in late
    PROVE  \A p \in Op : ops[p].at \in Fetching \cup Making => ops[p].blob # b
BY OneAtIt, Brings

\* Two tasks that may touch the temporary manifest of a name are one.
LEMMA OneInstaller ==
    ASSUME Apart, TableInv, NEW o \in Op, NEW p \in Op,
           ops[o].at \in Installing, ops[p].at \in Installing, ops[o].name = ops[p].name
    PROVE  o = p
<1>1. ops[o].name \in Name /\ ops[o].at # "idle" /\ ops[p].at # "idle"
  BY Known DEF Proper, Installing
<1>2. o # p => ops[o].kind \in Claimed /\ ops[p].kind \in Claimed
  BY <1>1, Others
<1> QED BY <1>1, <1>2 DEF TableInv, ClaimInv, Writers

\* A step disturbs task p nowhere.
Spared(p) ==
    /\ ops'[p] = ops[p]
    /\ ops[p].at = "rename" => partial'[ops[p].blob] = partial[ops[p].blob]
    /\ ops[p].at = "rename_blob" => made'[ops[p].blob] = made[ops[p].blob]
    /\ ops[p].at \in Fetching \cup Making => blobs'[ops[p].blob] = blobs[ops[p].blob]
    /\ ops[p].at = "install" => temp'[ops[p].name] = temp[ops[p].name]
    /\ ops[p].at \in {"prune", "sweep"} => manifests' = manifests

\* No good blob goes.
GoodStay == \A b \in Blob : blobs[b] = "good" => blobs'[b] = "good"

\* A step of o disturbs no other task.
Spares(o) == GoodStay /\ \A p \in Op \ {o} : Spared(p)

LEMMA SparedDoing ==
    ASSUME TableInv, NEW p \in Op, Doing(p), GoodStay, Spared(p)
    PROVE  Doing(p)'
<1>1. ops'[p] = ops[p] /\ Proper(ops[p])
  BY Known DEF Spared
<1>2. ops[p].at \in Bringing \cup Installing => BlobsOf[ops[p].manifest] \subseteq Blob
  BY <1>1, StoreAssumption DEF Proper
<1> QED BY <1>1, <1>2 DEF Spared, GoodStay, Doing

LEMMA GoodComplete ==
    ASSUME TableInv, Complete, GoodStay, manifests' = manifests PROVE Complete'
<1>1. \A n \in Name : manifests[n] # None => BlobsOf[manifests[n]] \subseteq Blob
  BY StoreAssumption DEF Complete, TableInv, TypeOK, DiskOK
<1> QED BY <1>1 DEF Complete, GoodStay

LEMMA SparesTasks ==
    ASSUME StoreInv, NEW o \in Op, Spares(o), Doing(o)'
    PROVE  TaskInv' /\ (manifests' = manifests => Complete')
<1>1. ASSUME NEW p \in Op \ {o} PROVE Doing(p)'
  BY SparedDoing DEF Spares, StoreInv, TaskInv
<1>2. TaskInv'
  BY <1>1 DEF TaskInv
<1> QED BY <1>2, GoodComplete DEF Spares, StoreInv

\* The calls still to come are not disturbed either.
LEMMA LateSpared ==
    ASSUME LateInv, late' \subseteq late,
           \A b \in Blob : <<b, "rename">> \in late' => partial'[b] = partial[b]
    PROVE  LateInv'
<1> SUFFICES ASSUME NEW b \in Blob
             PROVE  /\ \A c, d \in Call : <<b, c>> \in late' /\ <<b, d>> \in late' => c = d
                    /\ <<b, "rename">> \in late' => partial'[b] = "good"
  BY Zenon DEF LateInv
<1>1. /\ \A c, d \in Call : <<b, c>> \in late /\ <<b, d>> \in late => c = d
      /\ <<b, "rename">> \in late => partial[b] = "good"
  BY Zenon DEF LateInv
<1> QED BY <1>1

\* A step that touches no file spares everything.
LEMMA DiskSpared ==
    ASSUME StoreInv, NEW o \in Op, UNCHANGED disk, Doing(o)',
           \A p \in Op \ {o} : ops'[p] = ops[p]
    PROVE  Promises'
<1>1. Spares(o)
  BY DEF Spares, Spared, GoodStay, disk
<1>2. LateInv'
  BY LateSpared DEF disk, StoreInv
<1> QED BY <1>1, <1>2, SparesTasks DEF disk, StoreInv, Promises, BlobsVerified

\* A task that ended holds nothing.
LEMMA DoneDoing ==
    ASSUME NEW o \in Op, ops'[o].at \in {"idle", "release"} PROVE Doing(o)'
BY DEF Doing, Fetching, Bringing, Installing, Making

\* A task that ends leaves the others where they are.
LEMMA TaskEnds ==
    ASSUME TableInv, NEW o \in Op, Finish(o), ops[o].at # "idle"
    PROVE  Doing(o)' /\ \A p \in Op \ {o} : ops'[p] = ops[p]
<1>1. ops'[o] = Finished(o) /\ \A p \in Op \ {o} : ops'[p] = ops[p]
  BY DEF Finish, TableInv, TypeOK
<1> QED BY <1>1, Ends, DoneDoing DEF GoesOn

LEMMA StartTask ==
    ASSUME StoreInv, NEW o \in Op,
           \/ PullStart(o) \/ CreateStart(o) \/ CopyStart(o) \/ DeleteStart(o)
    PROVE  Promises'
<1>1. ops'[o].at \in {"fetch_manifest", "read", "remove"}
  <2>0. ops \in [Op -> OpState]
    BY DEF StoreInv, TableInv, TypeOK
  <2>1. CASE PullStart(o)
    <3>1. PICK n \in Pulls, k \in {"tag"} \cup Manifest :
             ops' = [ops EXCEPT ![o] = [Idle EXCEPT !.at = "fetch_manifest", !.name = n, !.key = k]]
      BY <2>1, ZenonT(60) DEF PullStart
    <3>2. ops'[o].at = "fetch_manifest"
      BY <2>0, <3>1 DEF Idle
    <3> QED BY <3>2
  <2>2. CASE CreateStart(o)
    <3>1. PICK c \in Creates :
             ops' = [ops EXCEPT ![o] = [Idle EXCEPT !.at = "read", !.kind = "create",
                                                   !.name = c[1], !.from = c[2]]]
      BY <2>2, ZenonT(60) DEF CreateStart
    <3>2. ops'[o].at = "read"
      BY <2>0, <3>1 DEF Idle
    <3> QED BY <3>2
  <2>3. CASE CopyStart(o)
    <3>1. PICK c \in Copies :
             ops' = [ops EXCEPT ![o] = [Idle EXCEPT !.at = "read", !.kind = "copy",
                                                   !.name = c[2], !.from = c[1]]]
      BY <2>3, ZenonT(60) DEF CopyStart
    <3>2. ops'[o].at = "read"
      BY <2>0, <3>1 DEF Idle
    <3> QED BY <3>2
  <2>4. CASE DeleteStart(o)
    <3>1. PICK n \in Deletes :
             ops' = [ops EXCEPT ![o] = [Idle EXCEPT !.at = "remove", !.kind = "delete", !.name = n]]
      BY <2>4, ZenonT(60) DEF DeleteStart
    <3>2. ops'[o].at = "remove"
      BY <2>0, <3>1 DEF Idle
    <3> QED BY <3>2
  <2> QED BY <2>1, <2>2, <2>3, <2>4
<1>2. Doing(o)'
  BY <1>1 DEF Doing, Fetching, Bringing, Installing, Making
<1>3. UNCHANGED disk /\ \A p \in Op \ {o} : ops'[p] = ops[p]
  <2>1. Pull(o) \/ Make(o) \/ Delete(o)
    BY Zenon DEF Pull, Make, Delete
  <2>2. ops[o].at = "idle"
    BY Zenon DEF PullStart, CreateStart, CopyStart, DeleteStart
  <2> QED BY <2>1, <2>2, StepKeeps DEF Starts, Stays, StoreInv
<1> QED BY <1>2, <1>3, DiskSpared

\* A task that gives up: on an error, or with nobody waiting.
LEMMA EndTask ==
    ASSUME StoreInv, NEW o \in Op, PullStops(o) \/ CreateFails(o) \/ WriteFails(o)
    PROVE  Promises'
<1>1. Finish(o) /\ UNCHANGED disk
  BY Zenon DEF PullStops, CreateFails, WriteFails
<1>2. ops[o].at # "idle"
  BY DEF PullStops, CreateFails, WriteFails, Making, Installing
<1> QED BY <1>1, <1>2, TaskEnds, DiskSpared DEF StoreInv

LEMMA PullAbandonsTask ==
    ASSUME Apart, StoreInv, NEW o \in Op, PullAbandons(o)
    PROVE  Promises'
<1>1. PICK b \in Blob, call \in Call :
        /\ \/ call = "open" /\ Opens(o, b)
           \/ call = "rename" /\ ops[o].at = "rename" /\ b = ops[o].blob
           \/ call = "remove" /\ ops[o].at = "verify" /\ b = ops[o].blob
        /\ late' = late \cup {<<b, call>>}
  BY ZenonT(60) DEF PullAbandons
<1>2. ops[o].at # "idle" /\ Finish(o) /\ UNCHANGED <<manifests, blobs, partial, temp, stale, made>>
  BY <1>1, Zenon DEF PullAbandons, Opens
<1>3. b \in Missing(o)
  BY <1>1, Brings DEF Opens, Missing, Bringing, Fetching, StoreInv
<1>4. \A c \in Call : <<b, c>> \notin late
  BY <1>3, OneAtIt DEF StoreInv
<1>5. call = "rename" => partial[b] = "good"
  BY <1>1 DEF Opens, StoreInv, TaskInv, Doing
<1>6. LateInv'
  <2> SUFFICES ASSUME NEW a \in Blob
               PROVE  /\ \A c, d \in Call : <<a, c>> \in late' /\ <<a, d>> \in late' => c = d
                      /\ <<a, "rename">> \in late' => partial'[a] = "good"
    BY Zenon DEF LateInv
  <2>1. /\ \A c, d \in Call : <<a, c>> \in late /\ <<a, d>> \in late => c = d
        /\ <<a, "rename">> \in late => partial[a] = "good"
    BY Zenon DEF StoreInv, LateInv
  <2>2. "rename" \in Call
    BY DEF Call
  <2> QED BY <1>1, <1>2, <1>4, <1>5, <2>1, <2>2
<1>7. Doing(o)' /\ \A p \in Op \ {o} : ops'[p] = ops[p]
  BY <1>2, TaskEnds DEF StoreInv
<1>8. Spares(o)
  BY <1>2, <1>7 DEF Spares, Spared, GoodStay
<1> QED BY <1>2, <1>6, <1>7, <1>8, SparesTasks DEF StoreInv, Promises, BlobsVerified

LEMMA FetchManifestTask ==
    ASSUME StoreInv, NEW o \in Op, FetchManifest(o)
    PROVE  Promises'
<1>1. PICK m \in Offers[ops[o].name] :
        ops' = [ops EXCEPT ![o] = [@ EXCEPT !.at = "layers", !.manifest = m,
                                            !.todo = BlobsOf[m]]]
  BY ZenonT(60) DEF FetchManifest
<1> DEFINE s == [ops[o] EXCEPT !.at = "layers", !.manifest = m, !.todo = BlobsOf[m]]
<1>2. UNCHANGED disk /\ ops[o].at = "fetch_manifest"
  BY Zenon DEF FetchManifest
<1>3. /\ ops[o] \in OpState /\ "layers" \in Points /\ ops[o].kind = "pull"
      /\ m \in Manifest /\ BlobsOf[m] \in SUBSET Blob
  BY <1>2, Known, StoreAssumption DEF Points, StoreInv, Proper, RightKind
<1>4. s.at = "layers" /\ s.manifest = m /\ s.todo = BlobsOf[m] /\ Same(s, ops[o])
  BY <1>3 DEF OpState, Same
<1>5. ops'[o] = s /\ \A p \in Op \ {o} : ops'[p] = ops[p]
  BY <1>1 DEF StoreInv, TableInv, TypeOK
<1> HIDE DEF s
<1>6. Doing(o)'
  BY <1>4, <1>5 DEF Doing, Fetching, Bringing, Installing, Making
<1> QED BY <1>2, <1>5, <1>6, DiskSpared

\* A task that goes over to the next blob, the one it looked at being there.
LEMMA NextBlob ==
    ASSUME StoreInv, NEW o \in Op, NEW b \in Blob, ops[o].at = "layers", blobs[b] = "good",
           UNCHANGED disk, ops' = [ops EXCEPT ![o].todo = @ \ {b}]
    PROVE  Promises'
<1> DEFINE s == [ops[o] EXCEPT !.todo = @ \ {b}]
<1>1. ops[o] \in OpState /\ Doing(o)
  BY Known DEF StoreInv, TaskInv
<1>2. /\ s.at = "layers" /\ s.manifest = ops[o].manifest /\ s.todo = ops[o].todo \ {b}
      /\ Same(s, ops[o])
  BY <1>1 DEF OpState, Same
<1>3. ops'[o] = s /\ \A p \in Op \ {o} : ops'[p] = ops[p]
  BY DEF StoreInv, TableInv, TypeOK
<1> HIDE DEF s
<1>4. Doing(o)'
  BY <1>1, <1>2, <1>3 DEF disk, Doing, Fetching, Bringing, Installing, Making
<1> QED BY <1>3, <1>4, DiskSpared

LEMMA SkipBlobTask ==
    ASSUME StoreInv, NEW o \in Op, SkipBlob(o)
    PROVE  Promises'
<1>1. PICK b \in ops[o].todo : /\ HasBlob(b)
                              /\ ops' = [ops EXCEPT ![o].todo = @ \ {b}]
  BY Zenon DEF SkipBlob
<1>2. b \in Blob /\ blobs[b] = "good"
  BY <1>1, Known DEF HasBlob, StoreInv, BlobsVerified, OpState
<1>3. ops[o].at = "layers" /\ UNCHANGED disk
  BY Zenon DEF SkipBlob
<1> QED BY <1>1, <1>2, <1>3, NextBlob

\* A task at work on a blob it has to bring: nobody else is disturbed, whatever becomes
\* of that blob and of its temporary files.
LEMMA AtBlob ==
    ASSUME Apart, StoreInv, NEW o \in Op, NEW b \in Missing(o),
           UNCHANGED <<manifests, temp, late>>,
           \A c \in Blob \ {b} : /\ blobs'[c] = blobs[c] /\ partial'[c] = partial[c]
                                 /\ made'[c] = made[c],
           blobs'[b] \in {"absent", "good"},
           \A p \in Op \ {o} : ops'[p] = ops[p],
           Doing(o)'
    PROVE  Promises'
<1>1. /\ \A p \in Op \ {o} : ops[p].at \in Fetching \cup Making => ops[p].blob # b
      /\ \A call \in Call : <<b, call>> \notin late
  BY OneAtIt DEF StoreInv
<1>2. b \in Blob /\ blobs[b] # "good"
  BY DEF Missing, HasBlob
<1>3. GoodStay
  BY <1>2 DEF GoodStay
<1>4. ASSUME NEW p \in Op \ {o} PROVE Spared(p)
  <2>1. ops[p].at \in Fetching \cup Making => ops[p].blob \in Blob \ {b}
    BY <1>1, Known DEF StoreInv, Proper
  <2> QED BY <2>1 DEF Spared, Fetching, Making
<1>5. Spares(o)
  BY <1>3, <1>4 DEF Spares
<1>6. LateInv'
  <2>1. "rename" \in Call
    BY DEF Call
  <2>2. ASSUME NEW c \in Blob, <<c, "rename">> \in late' PROVE partial'[c] = partial[c]
    BY <1>1, <2>1, <2>2
  <2> QED BY <2>2, LateSpared DEF StoreInv
<1>7. BlobsVerified'
  BY DEF BlobsVerified, StoreInv
<1> QED BY <1>5, <1>6, <1>7, SparesTasks DEF Promises

\* No other task has its files open.
LEMMA NoOtherWriter ==
    ASSUME Apart, StoreInv, NEW o \in Op, NEW b \in Missing(o)
    PROVE  \A p \in Op \ {o} : p \notin Downloading({b}) \cup Filling(b)
<1>1. \A p \in Op \ {o} : ops[p].at \in Fetching \cup Making => ops[p].blob # b
  BY OneAtIt DEF StoreInv
<1> QED BY <1>1 DEF Downloading, Filling, Fetching, Making

\* A move of files that no other task has open.
LEMMA MovesNobody ==
    ASSUME StoreInv, NEW o \in Op, NEW s, NEW W, NEW f,
           \A p \in Op \ {o} : p \notin W, ops' = [Moved(W, f) EXCEPT ![o] = s]
    PROVE  ops'[o] = s /\ \A p \in Op \ {o} : ops'[p] = ops[p]
<1> DEFINE moved == Moved(W, f)
<1>1. DOMAIN moved = Op /\ \A p \in Op \ {o} : moved[p] = ops[p]
  BY DEF Moved
<1>2. moved = [p \in Op |-> moved[p]] /\ ops' = [moved EXCEPT ![o] = s]
  BY DEF Moved
<1> HIDE DEF moved
<1> QED BY <1>1, <1>2

LEMMA OpenPartialTask ==
    ASSUME Apart, StoreInv, NEW o \in Op, OpenPartial(o)
    PROVE  Promises'
<1>1. PICK b \in Blob :
        /\ Opens(o, b)
        /\ \/ /\ \E c \in {"short", "wrong"} : partial' = [partial EXCEPT ![b] = c]
              /\ ops' = [Truncated(b) EXCEPT ![o] =
                           [ops[o] EXCEPT !.at = "download", !.blob = b, !.file = "temp",
                                          !.lost = FALSE]]
           \/ /\ ops' = [ops EXCEPT ![o] =
                           [ops[o] EXCEPT !.at = "download", !.blob = b, !.file = "temp",
                                          !.lost = FALSE]]
              /\ UNCHANGED partial
  BY ZenonT(60) DEF OpenPartial
<1> DEFINE opened == [ops[o] EXCEPT !.at = "download", !.blob = b, !.file = "temp",
                                    !.lost = FALSE]
<1>2. UNCHANGED <<manifests, blobs, temp, made, late>>
  BY Zenon DEF OpenPartial
<1>3. b \in Missing(o)
  BY <1>1, Brings DEF Opens, Missing, Bringing, Fetching, StoreInv
<1>4. \A c \in Blob \ {b} : partial'[c] = partial[c]
  BY <1>1 DEF StoreInv, TableInv, TypeOK, DiskOK
<1>5. ops[o] \in OpState /\ "download" \in Points /\ Doing(o) /\ ops[o].at \in Bringing
  BY <1>1, Known DEF Points, StoreInv, TaskInv, Opens, Bringing, Fetching
<1>6. /\ opened.at = "download" /\ opened.blob = b /\ opened.file = "temp"
      /\ Same(opened, ops[o]) /\ opened.manifest = ops[o].manifest
      /\ opened.todo = ops[o].todo
  BY <1>5 DEF OpState, Same
<1>7. ops'[o] = opened /\ \A p \in Op \ {o} : ops'[p] = ops[p]
  <2>1. \A p \in Op \ {o} : p \notin Downloading({b})
    BY <1>3, NoOtherWriter
  <2> DEFINE cut == Truncated(b)
  <2>2. cut = [p \in Op |-> cut[p]] /\ \A p \in Op \ {o} : cut[p] = ops[p]
    BY <2>1 DEF Truncated
  <2>3. ops' = [cut EXCEPT ![o] = opened] \/ ops' = [ops EXCEPT ![o] = opened]
    BY <1>1
  <2> HIDE DEF cut, opened
  <2> QED BY <2>2, <2>3 DEF StoreInv, TableInv, TypeOK
<1> HIDE DEF opened
<1>8. blobs'[b] = "absent"
  BY <1>2, <1>3 DEF Missing, HasBlob, StoreInv, BlobsVerified
<1>9. Doing(o)'
  BY <1>2, <1>3, <1>5, <1>6, <1>7, <1>8 DEF Doing, Missing, Fetching, Bringing, Installing, Making
<1> QED BY <1>2, <1>3, <1>4, <1>7, <1>8, <1>9, AtBlob

LEMMA FetchDoneTask ==
    ASSUME Apart, StoreInv, NEW o \in Op, FetchDone(o)
    PROVE  Promises'
<1> DEFINE b == ops[o].blob
           s == [ops[o] EXCEPT !.at = "verify", !.file = "gone", !.lost = FALSE]
<1>1. /\ ops[o].at = "download" /\ UNCHANGED <<manifests, temp, made, late>>
      /\ ops' = [ops EXCEPT ![o] = [@ EXCEPT !.at = "verify", !.file = "gone", !.lost = FALSE]]
  BY Zenon DEF FetchDone
<1>2. /\ b \in Missing(o) /\ ops[o].at \in Bringing /\ Doing(o) /\ ops[o].file = "temp"
      /\ b \in ops[o].todo /\ blobs[b] = "absent"
  BY <1>1, Brings DEF StoreInv, TaskInv, Doing, Bringing, Fetching
<1>3. UNCHANGED blobs /\ \A c \in Blob \ {b} : partial'[c] = partial[c]
  BY <1>2 DEF FetchDone, StoreInv, TableInv, TypeOK, DiskOK
<1>4. ops[o] \in OpState /\ "verify" \in Points
  BY Known DEF StoreInv, Points
<1>5. /\ s.at = "verify" /\ Same(s, ops[o])
      /\ s.manifest = ops[o].manifest /\ s.todo = ops[o].todo /\ s.blob = b
  BY <1>4 DEF OpState, Same
<1>6. ops'[o] = s /\ \A p \in Op \ {o} : ops'[p] = ops[p]
  BY <1>1 DEF StoreInv, TableInv, TypeOK
<1> HIDE DEF b, s
<1>7. Doing(o)'
  BY <1>1, <1>2, <1>3, <1>5, <1>6 DEF Doing, Fetching, Bringing, Installing, Making
<1> QED BY <1>1, <1>2, <1>3, <1>6, <1>7, AtBlob

LEMMA VerifyTask ==
    ASSUME Apart, StoreInv, NEW o \in Op, Verify(o)
    PROVE  Promises'
<1> DEFINE b == ops[o].blob
<1>1. ops[o].at = "verify" /\ UNCHANGED <<manifests, blobs, temp, stale, made, late>>
  BY Zenon DEF Verify
<1>2. /\ b \in Missing(o) /\ ops[o].at \in Bringing /\ Doing(o)
      /\ b \in ops[o].todo /\ blobs[b] = "absent"
  BY <1>1, Brings DEF StoreInv, TaskInv, Bringing, Fetching
<1>3. CASE partial[b] = "good"
  <2> DEFINE s == [ops[o] EXCEPT !.at = "rename"]
  <2>1. UNCHANGED partial /\ ops' = [ops EXCEPT ![o].at = "rename"]
    BY <1>3 DEF Verify, Goto
  <2>2. ops[o] \in OpState /\ "rename" \in Points
    BY Known DEF StoreInv, Points
  <2>3. /\ s.at = "rename" /\ Same(s, ops[o])
        /\ s.manifest = ops[o].manifest /\ s.todo = ops[o].todo /\ s.blob = b
    BY <2>2 DEF OpState, Same
  <2>4. ops'[o] = s /\ \A p \in Op \ {o} : ops'[p] = ops[p]
    BY <2>1 DEF StoreInv, TableInv, TypeOK
  <2> HIDE DEF b, s
  <2>5. Doing(o)'
    BY <1>1, <1>2, <1>3, <2>1, <2>3, <2>4 DEF Doing, Fetching, Bringing, Installing, Making
  <2> QED BY <1>1, <2>1, <2>4, <2>5, DiskSpared DEF disk
<1>4. CASE partial[b] # "good"
  <2>1. /\ ops' = [Moved(Downloading({b}), TempGone) EXCEPT ![o] = Finished(o)]
        /\ partial' = [partial EXCEPT ![b] = "absent"]
    BY <1>4 DEF Verify
  <2>2. \A p \in Op \ {o} : p \notin Downloading({b})
    BY <1>2, NoOtherWriter
  <2>3. ops'[o] = Finished(o) /\ \A p \in Op \ {o} : ops'[p] = ops[p]
    BY <2>1, <2>2, MovesNobody
  <2>4. Doing(o)'
    BY <1>1, <2>3, Ends, DoneDoing DEF StoreInv
  <2>5. \A c \in Blob \ {b} : partial'[c] = partial[c]
    BY <2>1 DEF StoreInv, TableInv, TypeOK, DiskOK
  <2> HIDE DEF b
  <2> QED BY <1>1, <1>2, <2>3, <2>4, <2>5, AtBlob
<1> QED BY <1>3, <1>4

LEMMA RenameBlobTask ==
    ASSUME Apart, StoreInv, NEW o \in Op, RenameBlob(o)
    PROVE  Promises'
<1> DEFINE b == ops[o].blob
           s == [ops[o] EXCEPT !.at = "layers", !.todo = ops[o].todo \ {b}, !.blob = None]
<1>1. ops[o].at = "rename" /\ UNCHANGED <<manifests, temp, made, late>>
  BY Zenon DEF RenameBlob
<1>2. /\ b \in Missing(o) /\ b \in Blob /\ ops[o].at \in Bringing /\ Doing(o) /\ partial[b] = "good"
      /\ ops[o].manifest \in Manifest
  BY <1>1, Brings, Known DEF StoreInv, TaskInv, Doing, Bringing, Fetching, Making, Proper
<1>3. /\ blobs' = [blobs EXCEPT ![b] = partial[b]] /\ partial' = [partial EXCEPT ![b] = "absent"]
      /\ ops' = [Moved(Downloading({b}), ToFinal) EXCEPT
                   ![o] = [@ EXCEPT !.at = "layers", !.todo = ops[o].todo \ {b}, !.blob = None]]
  BY <1>2 DEF RenameBlob
<1>4. /\ \A c \in Blob \ {b} : blobs'[c] = blobs[c] /\ partial'[c] = partial[c]
      /\ blobs'[b] = "good"
  BY <1>2, <1>3 DEF StoreInv, TableInv, TypeOK, DiskOK
<1>5. ops[o] \in OpState /\ "layers" \in Points /\ ops[o].todo \ {b} \in SUBSET Blob
  BY Known DEF StoreInv, Points, OpState
<1>6. /\ s.at = "layers" /\ s.todo = ops[o].todo \ {b} /\ Same(s, ops[o])
      /\ s.manifest = ops[o].manifest
  BY <1>5 DEF OpState, Same
<1>7. ops'[o] = s /\ \A p \in Op \ {o} : ops'[p] = ops[p]
  <2>1. \A p \in Op : p \notin Downloading({b})
    BY <1>1, <1>2, NoOtherWriter DEF Downloading, Filling
  <2>2. Moved(Downloading({b}), ToFinal) = ops
    BY <2>1 DEF Moved, StoreInv, TableInv, TypeOK
  <2>3. ops' = [ops EXCEPT ![o] = s]
    BY <1>3, <2>2
  <2> HIDE DEF s
  <2> QED BY <2>3 DEF StoreInv, TableInv, TypeOK
<1> HIDE DEF b, s
<1>8. BlobsOf[ops[o].manifest] \subseteq Blob
  BY <1>2, StoreAssumption
<1>9. Doing(o)'
  BY <1>2, <1>4, <1>6, <1>7, <1>8 DEF Doing, Fetching, Bringing, Installing, Making
<1> QED BY <1>1, <1>2, <1>4, <1>7, <1>9, AtBlob

LEMMA CheckBlobTask ==
    ASSUME StoreInv, NEW o \in Op, CheckBlob(o)
    PROVE  Promises'
<1>1. PICK b \in ops[o].todo :
        \/ blobs[b] # "absent" /\ ops' = [ops EXCEPT ![o].todo = @ \ {b}]
        \/ /\ blobs[b] = "absent"
           /\ ops' = [ops EXCEPT ![o] = [@ EXCEPT !.at = "write_blob", !.blob = b]]
  BY ZenonT(60) DEF CheckBlob
<1>2. ops[o].at = "layers" /\ UNCHANGED disk
  BY Zenon DEF CheckBlob
<1>3. b \in Blob /\ ops[o] \in OpState /\ "write_blob" \in Points /\ Doing(o)
  BY <1>1, Known DEF StoreInv, TaskInv, OpState, Points
<1>4. CASE blobs[b] # "absent" /\ ops' = [ops EXCEPT ![o].todo = @ \ {b}]
  <2>1. blobs[b] = "good"
    BY <1>3, <1>4 DEF StoreInv, BlobsVerified
  <2> QED BY <1>2, <1>3, <1>4, <2>1, NextBlob
<1>5. CASE /\ blobs[b] = "absent"
           /\ ops' = [ops EXCEPT ![o] = [@ EXCEPT !.at = "write_blob", !.blob = b]]
  <2> DEFINE s == [ops[o] EXCEPT !.at = "write_blob", !.blob = b]
  <2>1. /\ s.at = "write_blob" /\ s.blob = b /\ Same(s, ops[o])
        /\ s.manifest = ops[o].manifest /\ s.todo = ops[o].todo
    BY <1>3 DEF OpState, Same
  <2>2. ops'[o] = s /\ \A p \in Op \ {o} : ops'[p] = ops[p]
    BY <1>5 DEF StoreInv, TableInv, TypeOK
  <2> HIDE DEF s
  <2>3. Doing(o)'
    BY <1>1, <1>2, <1>3, <1>5, <2>1, <2>2
    DEF disk, Doing, Fetching, Bringing, Installing, Making
  <2> QED BY <1>2, <2>2, <2>3, DiskSpared
<1> QED BY <1>1, <1>4, <1>5

LEMMA WriteBlobTask ==
    ASSUME Apart, StoreInv, NEW o \in Op, WriteBlob(o)
    PROVE  Promises'
<1> DEFINE b == ops[o].blob
           s == [ops[o] EXCEPT !.at = "fill_blob", !.file = "temp"]
<1>1. /\ ops[o].at = "write_blob" /\ UNCHANGED <<manifests, blobs, partial, temp, late>>
      /\ made' = [made EXCEPT ![b] = "short"]
      /\ ops' = [ops EXCEPT ![o] = [@ EXCEPT !.at = "fill_blob", !.file = "temp"]]
  BY Zenon DEF WriteBlob
<1>2. /\ b \in Missing(o) /\ ops[o].at \in Bringing /\ Doing(o)
      /\ b \in ops[o].todo /\ blobs[b] = "absent"
  BY <1>1, Brings DEF StoreInv, TaskInv, Bringing, Making
<1>3. \A c \in Blob \ {b} : made'[c] = made[c]
  BY <1>1 DEF StoreInv, TableInv, TypeOK, DiskOK
<1>4. ops[o] \in OpState /\ "fill_blob" \in Points /\ "temp" \in {"temp", "final", "gone"}
  BY Known DEF StoreInv, Points
<1>5. /\ s.at = "fill_blob" /\ s.file = "temp" /\ Same(s, ops[o])
      /\ s.manifest = ops[o].manifest /\ s.todo = ops[o].todo /\ s.blob = b
  BY <1>4 DEF OpState, Same
<1>6. ops'[o] = s /\ \A p \in Op \ {o} : ops'[p] = ops[p]
  BY <1>1 DEF StoreInv, TableInv, TypeOK
<1> HIDE DEF b, s
<1>7. Doing(o)'
  BY <1>1, <1>2, <1>5, <1>6 DEF Doing, Fetching, Bringing, Installing, Making
<1> QED BY <1>1, <1>2, <1>3, <1>6, <1>7, AtBlob

LEMMA FillBlobTask ==
    ASSUME Apart, StoreInv, NEW o \in Op, FillBlob(o)
    PROVE  Promises'
<1> DEFINE b == ops[o].blob
           s == [ops[o] EXCEPT !.at = "rename_blob", !.file = "gone"]
<1>1. /\ ops[o].at = "fill_blob" /\ UNCHANGED <<manifests, partial, temp, late>>
      /\ ops' = [ops EXCEPT ![o] = [@ EXCEPT !.at = "rename_blob", !.file = "gone"]]
  BY Zenon DEF FillBlob
<1>2. /\ b \in Missing(o) /\ b \in Blob /\ ops[o].at \in Bringing /\ Doing(o)
      /\ ops[o].file = "temp" /\ b \in ops[o].todo /\ blobs[b] = "absent"
  BY <1>1, Brings DEF StoreInv, TaskInv, Doing, Bringing, Making
<1>3. made' = [made EXCEPT ![b] = "good"] /\ UNCHANGED blobs
  BY <1>2 DEF FillBlob
<1>4. made'[b] = "good" /\ \A c \in Blob \ {b} : made'[c] = made[c]
  BY <1>2, <1>3 DEF StoreInv, TableInv, TypeOK, DiskOK
<1>5. ops[o] \in OpState /\ "rename_blob" \in Points /\ "gone" \in {"temp", "final", "gone"}
  BY Known DEF StoreInv, Points
<1>6. /\ s.at = "rename_blob" /\ Same(s, ops[o])
      /\ s.manifest = ops[o].manifest /\ s.todo = ops[o].todo /\ s.blob = b
  BY <1>5 DEF OpState, Same
<1>7. ops'[o] = s /\ \A p \in Op \ {o} : ops'[p] = ops[p]
  BY <1>1 DEF StoreInv, TableInv, TypeOK
<1> HIDE DEF b, s
<1>8. Doing(o)'
  BY <1>1, <1>2, <1>3, <1>4, <1>6, <1>7 DEF Doing, Fetching, Bringing, Installing, Making
<1> QED BY <1>1, <1>2, <1>3, <1>4, <1>7, <1>8, AtBlob

LEMMA PutBlobTask ==
    ASSUME Apart, StoreInv, NEW o \in Op, PutBlob(o)
    PROVE  Promises'
<1> DEFINE b == ops[o].blob
           s == [ops[o] EXCEPT !.at = "layers", !.todo = ops[o].todo \ {b}, !.blob = None]
<1>1. ops[o].at = "rename_blob" /\ UNCHANGED <<manifests, temp, partial, late>>
  BY Zenon DEF PutBlob
<1>2. /\ b \in Missing(o) /\ b \in Blob /\ ops[o].at \in Bringing /\ Doing(o) /\ made[b] = "good"
      /\ ops[o].manifest \in Manifest
  BY <1>1, Brings, Known DEF StoreInv, TaskInv, Doing, Bringing, Fetching, Making, Proper
<1>3. /\ blobs' = [blobs EXCEPT ![b] = made[b]] /\ made' = [made EXCEPT ![b] = "absent"]
      /\ ops' = [Moved(Filling(b), ToFinal) EXCEPT
                   ![o] = [@ EXCEPT !.at = "layers", !.todo = ops[o].todo \ {b}, !.blob = None]]
  BY <1>2 DEF PutBlob
<1>4. /\ \A c \in Blob \ {b} : blobs'[c] = blobs[c] /\ made'[c] = made[c]
      /\ blobs'[b] = "good"
  BY <1>2, <1>3 DEF StoreInv, TableInv, TypeOK, DiskOK
<1>5. ops[o] \in OpState /\ "layers" \in Points /\ ops[o].todo \ {b} \in SUBSET Blob
  BY Known DEF StoreInv, Points, OpState
<1>6. /\ s.at = "layers" /\ s.todo = ops[o].todo \ {b} /\ Same(s, ops[o])
      /\ s.manifest = ops[o].manifest
  BY <1>5 DEF OpState, Same
<1>7. ops'[o] = s /\ \A p \in Op \ {o} : ops'[p] = ops[p]
  <2>1. \A p \in Op : p \notin Filling(b)
    BY <1>1, <1>2, NoOtherWriter DEF Downloading, Filling
  <2>2. Moved(Filling(b), ToFinal) = ops
    BY <2>1 DEF Moved, StoreInv, TableInv, TypeOK
  <2>3. ops' = [ops EXCEPT ![o] = s]
    BY <1>3, <2>2
  <2> HIDE DEF s
  <2> QED BY <2>3 DEF StoreInv, TableInv, TypeOK
<1> HIDE DEF b, s
<1>8. BlobsOf[ops[o].manifest] \subseteq Blob
  BY <1>2, StoreAssumption
<1>9. Doing(o)'
  BY <1>2, <1>4, <1>6, <1>7, <1>8 DEF Doing, Fetching, Bringing, Installing, Making
<1> QED BY <1>1, <1>2, <1>4, <1>7, <1>9, AtBlob

\* A call that comes late finds nobody at its blob.
LEMMA LateTask ==
    ASSUME Apart, StoreInv, NEW b \in Blob, Late(b)
    PROVE  Promises'
<1>1. PICK call \in Call : <<b, call>> \in late /\ late' = late \ {<<b, call>>}
  BY DEF Late, LateOpen, LateRename, LateRemove, Call
<1>2. \A p \in Op : ops[p].at \in Fetching \cup Making => ops[p].blob # b
  BY <1>1, NobodyAtIt DEF StoreInv
<1>3. Downloading({b}) = {}
  BY <1>2 DEF Downloading, Fetching
<1>4. UNCHANGED <<manifests, temp, made>>
  BY Zenon DEF Late, LateOpen, LateRename, LateRemove
<1>5. ops' = ops
  <2>1. \A f : Moved(Downloading({b}), f) = ops
    BY <1>3 DEF Moved, StoreInv, TableInv, TypeOK
  <2>2. Truncated(b) = ops
    BY <1>3 DEF Truncated, StoreInv, TableInv, TypeOK
  <2> QED BY <2>1, <2>2 DEF Late, LateOpen, LateRename, LateRemove
<1>6. /\ \A c \in Blob \ {b} : blobs'[c] = blobs[c] /\ partial'[c] = partial[c]
      /\ blobs'[b] \in {blobs[b], "good"}
  <2>1. CASE LateOpen(b)
    BY <2>1 DEF LateOpen, StoreInv, TableInv, TypeOK, DiskOK
  <2>2. CASE LateRename(b)
    <3>1. partial[b] = "good"
      BY <2>2, Zenon DEF LateRename, StoreInv, LateInv
    <3> QED BY <2>2, <3>1 DEF LateRename, StoreInv, TableInv, TypeOK, DiskOK
  <2>3. CASE LateRemove(b)
    BY <2>3 DEF LateRemove, StoreInv, TableInv, TypeOK, DiskOK
  <2> QED BY <2>1, <2>2, <2>3 DEF Late
<1>7. GoodStay
  BY <1>6 DEF GoodStay
<1>8. ASSUME NEW p \in Op PROVE Spared(p)
  <2>1. ops[p].at \in Fetching \cup Making => ops[p].blob \in Blob \ {b}
    BY <1>2, Known DEF StoreInv, Proper
  <2> QED BY <1>4, <1>5, <1>6, <2>1 DEF Spared, Fetching, Making
<1>9. TaskInv' /\ Complete'
  BY <1>4, <1>7, <1>8, SparedDoing, GoodComplete DEF StoreInv, TaskInv
<1>10. LateInv'
  <2>1. ASSUME NEW c \in Blob, <<c, "rename">> \in late' PROVE partial'[c] = partial[c]
    <3>1. c = b => call # "rename" /\ <<b, "rename">> \in late
      BY <1>1, <2>1
    <3>2. "rename" \in Call
      BY DEF Call
    <3>3. c # b
      BY <1>1, <3>1, <3>2, Zenon DEF StoreInv, LateInv
    <3> QED BY <1>6, <3>3
  <2> QED BY <1>1, <2>1, LateSpared DEF StoreInv
<1>11. BlobsVerified'
  BY <1>6 DEF StoreInv, BlobsVerified
<1> QED BY <1>9, <1>10, <1>11 DEF Promises

LEMMA LayersDoneTask ==
    ASSUME StoreInv, NEW o \in Op, LayersDone(o)
    PROVE  Promises'
<1>1. /\ ops[o].at = "layers" /\ ops[o].todo = {} /\ Doing(o) /\ UNCHANGED disk
      /\ ops' = [ops EXCEPT ![o].at = "write_temp"]
  BY DEF LayersDone, Goto, StoreInv, TaskInv
<1>2. /\ ops'[o].at = "write_temp" /\ ops'[o].kind = ops[o].kind
      /\ ops'[o].name = ops[o].name /\ ops'[o].manifest = ops[o].manifest
  BY <1>1, Known DEF StoreInv, TableInv, TypeOK, OpState
<1>3. Doing(o)'
  BY <1>1, <1>2 DEF disk, Doing, Fetching, Bringing, Installing, Making
<1>4. \A p \in Op \ {o} : ops'[p] = ops[p]
  BY <1>1 DEF StoreInv, TableInv, TypeOK
<1> QED BY <1>1, <1>3, <1>4, DiskSpared

\* A task that writes the temporary manifest of its name: nobody else is at it.
LEMMA AtTemp ==
    ASSUME Apart, StoreInv, NEW o \in Op, ops[o].at \in Installing,
           UNCHANGED <<manifests, blobs, partial, made, late>>,
           \A n \in Name : n # ops[o].name => temp'[n] = temp[n],
           \A p \in Op \ {o} : ops'[p] = ops[p],
           Doing(o)'
    PROVE  Promises'
<1>1. \A p \in Op \ {o} : ops[p].at = "install" => ops[p].name \in Name /\ ops[p].name # ops[o].name
  BY OneInstaller, Known DEF StoreInv, Installing, Proper
<1>2. Spares(o)
  BY <1>1 DEF Spares, Spared, GoodStay
<1>3. LateInv'
  BY LateSpared DEF StoreInv
<1> QED BY <1>2, <1>3, SparesTasks DEF StoreInv, BlobsVerified, Promises

LEMMA WriteTempTask ==
    ASSUME Apart, StoreInv, NEW o \in Op, WriteTemp(o)
    PROVE  Promises'
<1> DEFINE n == ops[o].name
           s == [ops[o] EXCEPT !.at = "fill_temp", !.file = "temp"]
<1>1. /\ ops[o].at = "write_temp" /\ UNCHANGED <<manifests, blobs, partial, made, late>>
      /\ temp' = [temp EXCEPT ![n] = Half]
      /\ ops' = [ops EXCEPT ![o] = [@ EXCEPT !.at = "fill_temp", !.file = "temp"]]
  BY Zenon DEF WriteTemp
<1>2. ops[o] \in OpState /\ Doing(o)
  BY Known DEF StoreInv, TaskInv
<1>3. /\ s.at = "fill_temp" /\ s.file = "temp" /\ Same(s, ops[o])
      /\ s.manifest = ops[o].manifest
  BY <1>2 DEF OpState, Same
<1>4. ops'[o] = s /\ \A p \in Op \ {o} : ops'[p] = ops[p]
  BY <1>1 DEF StoreInv, TableInv, TypeOK
<1>5. \A k \in Name : k # n => temp'[k] = temp[k]
  BY <1>1 DEF StoreInv, TableInv, TypeOK, DiskOK
<1> HIDE DEF s
<1>6. Doing(o)'
  BY <1>1, <1>2, <1>3, <1>4 DEF Doing, Fetching, Bringing, Installing, Making
<1> QED BY <1>1, <1>4, <1>5, <1>6, AtTemp DEF Installing

LEMMA FillTempTask ==
    ASSUME Apart, StoreInv, NEW o \in Op, FillTemp(o)
    PROVE  Promises'
<1> DEFINE n == ops[o].name
           s == [ops[o] EXCEPT !.at = "install", !.file = "gone"]
<1>1. /\ ops[o].at = "fill_temp" /\ UNCHANGED <<blobs, partial, made, late>>
      /\ ops' = [ops EXCEPT ![o] = [@ EXCEPT !.at = "install", !.file = "gone"]]
  BY Zenon DEF FillTemp
<1>2. ops[o] \in OpState /\ Doing(o) /\ ops[o].file = "temp" /\ n \in Name
  BY <1>1, Known DEF StoreInv, TaskInv, Doing, Proper, Installing
<1>3. temp' = [temp EXCEPT ![n] = ops[o].manifest] /\ UNCHANGED manifests
  BY <1>2 DEF FillTemp
<1>4. temp'[n] = ops[o].manifest /\ \A k \in Name : k # n => temp'[k] = temp[k]
  BY <1>2, <1>3 DEF StoreInv, TableInv, TypeOK, DiskOK
<1>5. /\ s.at = "install" /\ Same(s, ops[o]) /\ s.manifest = ops[o].manifest
  BY <1>2 DEF OpState, Same
<1>6. ops'[o] = s /\ \A p \in Op \ {o} : ops'[p] = ops[p]
  BY <1>1 DEF StoreInv, TableInv, TypeOK
<1> HIDE DEF s
<1>7. Doing(o)'
  BY <1>1, <1>2, <1>3, <1>4, <1>5, <1>6 DEF Same, Doing, Fetching, Bringing, Installing, Making
<1> QED BY <1>1, <1>3, <1>4, <1>6, <1>7, AtTemp DEF Installing

LEMMA InstallTask ==
    ASSUME Apart, StoreInv, NEW o \in Op, Install(o)
    PROVE  Promises'
<1> DEFINE n == ops[o].name
           m == ops[o].manifest
<1>1. /\ ops[o].at = "install" /\ n \in Name /\ m \in Manifest /\ temp[n] = m
      /\ \A b \in BlobsOf[m] : blobs[b] = "good"
  BY Known DEF Install, StoreInv, TaskInv, Doing, Proper, Bringing, Fetching, Installing, Making
<1>2. /\ manifests' = [manifests EXCEPT ![n] = m] /\ temp' = [temp EXCEPT ![n] = None]
      /\ ops' = [Moved(Writing(n), ToFinal) EXCEPT ![o] = Finished(o)]
      /\ UNCHANGED <<blobs, partial, made, late>>
  BY <1>1, StoreAssumption DEF Install
<1>3. \A p \in Op \ {o} : ops[p].at \in Installing => ops[p].name # n
  BY <1>1, OneInstaller DEF StoreInv, Installing
<1>4. ops'[o] = Finished(o) /\ \A p \in Op \ {o} : ops'[p] = ops[p]
  <2>1. \A p \in Op \ {o} : p \notin Writing(n)
    BY <1>3 DEF Writing, Installing
  <2> QED BY <1>2, <2>1, MovesNobody
<1>5. Doing(o)'
  BY <1>1, <1>4, Ends, DoneDoing DEF StoreInv
<1>6. \A k \in Name : /\ k # n => temp'[k] = temp[k] /\ manifests'[k] = manifests[k]
                      /\ manifests'[n] = m
  BY <1>1, <1>2 DEF StoreInv, TableInv, TypeOK, DiskOK
<1>7. \A p \in Op \ {o} : ops[p].at \notin {"prune", "sweep"}
  BY <1>1, Others DEF StoreInv
<1> HIDE DEF n, m
<1>8. Spares(o)
  <2>1. \A p \in Op \ {o} : ops[p].at = "install" => temp'[ops[p].name] = temp[ops[p].name]
    BY <1>3, <1>6, Known DEF StoreInv, Proper, Installing
  <2> QED BY <1>2, <1>4, <1>7, <2>1 DEF Spares, Spared, GoodStay
<1>9. Complete'
  <2> SUFFICES ASSUME NEW k \in Name, manifests'[k] # None
               PROVE  /\ manifests'[k] # Half
                      /\ \A b \in BlobsOf[manifests'[k]] : blobs'[b] = "good"
    BY DEF Complete
  <2>1. CASE k = n
    BY <1>1, <1>2, <1>6, <2>1, StoreAssumption
  <2>2. CASE k # n
    BY <1>2, <1>6, <2>2 DEF StoreInv, Complete
  <2> QED BY <2>1, <2>2
<1>10. LateInv'
  BY <1>2, LateSpared DEF StoreInv
<1> QED BY <1>2, <1>5, <1>8, <1>9, <1>10, SparesTasks DEF StoreInv, BlobsVerified, Promises

LEMMA ReleaseTask ==
    ASSUME StoreInv, NEW o \in Op, Release(o)
    PROVE  Promises'
<1>1. UNCHANGED disk /\ ops' = [ops EXCEPT ![o] = Idle]
  BY Zenon DEF Release
<1>2. ops'[o].at = "idle" /\ \A p \in Op \ {o} : ops'[p] = ops[p]
  BY <1>1 DEF Idle, StoreInv, TableInv, TypeOK
<1>3. Doing(o)'
  BY <1>2, DoneDoing
<1> QED BY <1>1, <1>2, <1>3, DiskSpared

LEMMA ReadFromTask ==
    ASSUME StoreInv, NEW o \in Op, ReadFrom(o)
    PROVE  Promises'
<1> DEFINE m == manifests[ops[o].from]
<1>1. ops[o].at = "read" /\ UNCHANGED disk
  BY Zenon DEF ReadFrom
<1>2. ops[o] \in OpState /\ ops[o].from \in Name /\ Doing(o)
  BY <1>1, Known DEF StoreInv, TaskInv, Proper
<1>3. CASE m \in {None, Half} /\ Finish(o)
  BY <1>1, <1>3, TaskEnds, DiskSpared DEF StoreInv
<1>4. ASSUME m \in Manifest PROVE \A b \in BlobsOf[m] : blobs[b] = "good"
  BY <1>2, <1>4, StoreAssumption DEF StoreInv, Complete
<1>5. CASE /\ m \in Manifest
           /\ ops' = [ops EXCEPT ![o] = [@ EXCEPT !.at = "layers", !.manifest = Derived[m],
                                           !.todo = BlobsOf[Derived[m]] \ BlobsOf[m]]]
  <2> DEFINE s == [ops[o] EXCEPT !.at = "layers", !.manifest = Derived[m],
                                 !.todo = BlobsOf[Derived[m]] \ BlobsOf[m]]
  <2>1. /\ s.at = "layers" /\ s.manifest = Derived[m] /\ s.todo = BlobsOf[Derived[m]] \ BlobsOf[m]
        /\ Same(s, ops[o])
    BY <1>2 DEF OpState, Same
  <2>2. ops'[o] = s /\ \A p \in Op \ {o} : ops'[p] = ops[p]
    BY <1>5 DEF StoreInv, TableInv, TypeOK
  <2> HIDE DEF s, m
  <2>3. Doing(o)'
    BY <1>1, <1>4, <1>5, <2>1, <2>2 DEF disk, Doing, Fetching, Bringing, Installing, Making
  <2> QED BY <1>1, <2>2, <2>3, DiskSpared
<1>6. CASE /\ m \in Manifest
           /\ ops' = [ops EXCEPT ![o] = [@ EXCEPT !.at = "write_temp", !.manifest = m]]
  <2> DEFINE s == [ops[o] EXCEPT !.at = "write_temp", !.manifest = m]
  <2>1. s.at = "write_temp" /\ s.manifest = m /\ Same(s, ops[o])
    BY <1>2 DEF OpState, Same
  <2>2. ops'[o] = s /\ \A p \in Op \ {o} : ops'[p] = ops[p]
    BY <1>6 DEF StoreInv, TableInv, TypeOK
  <2> HIDE DEF s, m
  <2>3. Doing(o)'
    BY <1>1, <1>4, <1>6, <2>1, <2>2 DEF disk, Doing, Fetching, Bringing, Installing, Making
  <2> QED BY <1>1, <2>2, <2>3, DiskSpared
<1> QED BY <1>3, <1>5, <1>6, Zenon DEF ReadFrom

\* A manifest that is there is a whole one.
LEMMA Present ==
    ASSUME TableInv, Complete, NEW n \in Name, manifests[n] # None
    PROVE  manifests[n] \in Manifest /\ BlobsOf[manifests[n]] \subseteq Blob
BY StoreAssumption DEF Complete, TableInv, TypeOK, DiskOK

LEMMA RemoveManifestTask ==
    ASSUME Apart, StoreInv, NEW o \in Op, RemoveManifest(o)
    PROVE  Promises'
<1>1. /\ ops[o].at = "remove" /\ UNCHANGED <<blobs, partial, temp, stale, made, late>>
      /\ \/ Finish(o) /\ UNCHANGED manifests
         \/ /\ manifests' = [manifests EXCEPT ![ops[o].name] = None]
            /\ ops' = [Moved(Writing(ops[o].name), FinalGone) EXCEPT ![o].at = "list"]
  BY Zenon DEF RemoveManifest
<1>2. ops[o] \in OpState /\ ops[o].kind = "delete" /\ Doing(o) /\ ops \in [Op -> OpState]
  BY <1>1, Known DEF StoreInv, TaskInv, RightKind, TableInv, TypeOK
<1>3. \A p \in Op \ {o} : ops[p].at = "idle"
  BY <1>1, <1>2, DeleteAlone
<1>4. CASE Finish(o) /\ UNCHANGED manifests
  BY <1>1, <1>4, TaskEnds, DiskSpared DEF StoreInv, disk
<1>5. CASE /\ manifests' = [manifests EXCEPT ![ops[o].name] = None]
           /\ ops' = [Moved(Writing(ops[o].name), FinalGone) EXCEPT ![o].at = "list"]
  <2> DEFINE s == [ops[o] EXCEPT !.at = "list"]
  <2>1. \A p \in Op : p \notin Writing(ops[o].name)
    BY <1>1, <1>3 DEF Writing
  <2>2. Moved(Writing(ops[o].name), FinalGone) = ops
    BY <1>2, <2>1 DEF Moved
  <2>3. ops'[o] = s /\ \A p \in Op \ {o} : ops'[p] = ops[p]
    BY <1>2, <1>5, <2>2
  <2>4. s.at = "list" /\ Same(s, ops[o])
    BY <1>2 DEF OpState, Same
  <2> HIDE DEF s
  <2>5. Doing(o)'
    BY <2>3, <2>4 DEF Doing, Fetching, Bringing, Installing, Making
  <2>6. Spares(o)
    BY <1>1, <1>3, <2>3 DEF Spares, Spared, GoodStay, Fetching, Making
  <2>7. \A n \in Name : manifests'[n] # None => manifests'[n] = manifests[n]
    BY <1>5 DEF StoreInv, TableInv, TypeOK, DiskOK
  <2>8. Complete' /\ BlobsVerified'
    BY <1>1, <2>7 DEF StoreInv, Complete, BlobsVerified
  <2>9. LateInv'
    BY <1>1, LateSpared DEF StoreInv
  <2> QED BY <2>5, <2>6, <2>8, <2>9, SparesTasks DEF Promises
<1> QED BY <1>1, <1>4, <1>5

LEMMA ListToPruneTask ==
    ASSUME StoreInv, NEW o \in Op, ListToPrune(o)
    PROVE  Promises'
<1> DEFINE keep == UNION {BlobsOf[m] : m \in Listed}
<1>1. ops[o].at = "list" /\ UNCHANGED disk
  BY Zenon DEF ListToPrune
<1>2. ops[o] \in OpState /\ ops \in [Op -> OpState]
  BY Known DEF StoreInv, TableInv, TypeOK
<1>3. CASE Finish(o)
  BY <1>1, <1>3, TaskEnds, DiskSpared DEF StoreInv
<1>4. CASE ops' = [ops EXCEPT ![o] = [@ EXCEPT !.at = "prune", !.todo = keep]]
  <2> DEFINE s == [ops[o] EXCEPT !.at = "prune", !.todo = keep]
  <2>1. \A n \in Name : manifests[n] # None => BlobsOf[manifests[n]] \subseteq keep
    BY Present DEF StoreInv, Listed, Files, Complete
  <2> HIDE DEF keep
  <2>2. s.at = "prune" /\ s.todo = keep /\ Same(s, ops[o])
    BY <1>2 DEF OpState, Same
  <2>3. ops'[o] = s /\ \A p \in Op \ {o} : ops'[p] = ops[p]
    BY <1>2, <1>4
  <2> HIDE DEF s
  <2>4. Doing(o)'
    BY <1>1, <2>1, <2>2, <2>3 DEF disk, Doing, Fetching, Bringing, Installing, Making
  <2> QED BY <1>1, <2>3, <2>4, DiskSpared
<1> QED BY <1>3, <1>4 DEF ListToPrune

LEMMA PruneTask ==
    ASSUME StoreInv, NEW o \in Op, Prune(o)
    PROVE  Promises'
<1> DEFINE gone == {b \in Blob \ ops[o].todo : blobs[b] # "absent"}
           temps == {b \in Blob : made[b] # "absent"}
           s == [ops[o] EXCEPT !.at = "sweep", !.todo = gone, !.temps = temps]
<1>1. ops[o].at = "prune" /\ UNCHANGED disk
  BY Zenon DEF Prune
<1>2. ops[o] \in OpState /\ ops \in [Op -> OpState] /\ Doing(o)
  BY Known DEF StoreInv, TaskInv, TableInv, TypeOK
<1>3. \A n \in Name : manifests[n] # None => BlobsOf[manifests[n]] \cap gone = {}
  BY <1>1, <1>2 DEF Doing
<1>4. ops' = [ops EXCEPT ![o] = s]
  BY Zenon DEF Prune
<1> HIDE DEF gone, temps
<1>5. s.at = "sweep" /\ s.todo = gone /\ Same(s, ops[o])
  BY <1>2 DEF OpState, Same
<1> HIDE DEF s
<1>6. ops'[o] = s /\ \A p \in Op \ {o} : ops'[p] = ops[p]
  BY <1>2, <1>4
<1>7. Doing(o)'
  BY <1>1, <1>3, <1>5, <1>6 DEF disk, Doing, Fetching, Bringing, Installing, Making
<1> QED BY <1>1, <1>6, <1>7, DiskSpared

LEMMA PruneBlobTask ==
    ASSUME Apart, StoreInv, NEW o \in Op, PruneBlob(o)
    PROVE  Promises'
<1>1. ops[o].at = "sweep" /\ UNCHANGED <<manifests, partial, temp, stale, late>>
  BY Zenon DEF PruneBlob
<1>2. ops[o] \in OpState /\ ops[o].kind = "delete" /\ Doing(o) /\ ops \in [Op -> OpState]
  BY <1>1, Known DEF StoreInv, TaskInv, RightKind, TableInv, TypeOK
<1>3. late = {} /\ \A p \in Op \ {o} : ops[p].at = "idle"
  BY <1>1, <1>2, DeleteAlone
<1>4. CASE Finish(o) /\ UNCHANGED <<blobs, made>>
  BY <1>1, <1>4, TaskEnds, DiskSpared DEF StoreInv, disk
<1>5. \A W : (\A p \in W : ops[p].at \in {"download", "fill_blob"}) => \A f : Moved(W, f) = ops
  <2> SUFFICES ASSUME NEW W, NEW f, \A p \in W : ops[p].at \in {"download", "fill_blob"}
               PROVE  Moved(W, f) = ops
    OBVIOUS
  <2>1. \A p \in Op : p \notin W
    BY <1>1, <1>3
  <2> QED BY <1>2, <2>1 DEF Moved
<1>6. \A b : \A f : /\ Moved(Downloading({b}) \cup Filling(b), f) = ops
                    /\ Moved(Filling(b), f) = ops
  <2> SUFFICES ASSUME NEW b, NEW f
               PROVE  /\ Moved(Downloading({b}) \cup Filling(b), f) = ops
                      /\ Moved(Filling(b), f) = ops
    OBVIOUS
  <2>1. \A p \in Downloading({b}) \cup Filling(b) : ops[p].at \in {"download", "fill_blob"}
    BY DEF Downloading, Filling
  <2> QED BY <1>5, <2>1
<1>7. ASSUME NEW s, s.at = "sweep", s.todo \subseteq ops[o].todo, ops' = [ops EXCEPT ![o] = s]
      PROVE  TaskInv' /\ LateInv'
  <2>1. ops'[o] = s /\ \A p \in Op \ {o} : ops'[p] = ops[p]
    BY <1>2, <1>7
  <2>2. Doing(o)'
    BY <1>1, <1>2, <1>7, <2>1 DEF Doing, Fetching, Bringing, Installing, Making
  <2>3. ASSUME NEW p \in Op \ {o} PROVE Doing(p)'
    BY <1>3, <2>1, DoneDoing
  <2>4. LateInv'
    BY <1>1, <1>3, LateSpared DEF StoreInv
  <2> QED BY <2>2, <2>3, <2>4 DEF TaskInv
<1>8. ASSUME NEW b \in ops[o].todo, blobs' = [blobs EXCEPT ![b] = "absent"],
             ops' = [Moved(Downloading({b}) \cup Filling(b), FinalGone) EXCEPT ![o].todo = @ \ {b}]
      PROVE  Promises'
  <2>1. ops' = [ops EXCEPT ![o] = [ops[o] EXCEPT !.todo = @ \ {b}]]
    BY <1>6, <1>8
  <2>2. LET s == [ops[o] EXCEPT !.todo = @ \ {b}] IN s.at = "sweep" /\ s.todo \subseteq ops[o].todo
    BY <1>1, <1>2 DEF OpState
  <2>3. TaskInv' /\ LateInv'
    BY <1>7, <2>1, <2>2
  <2>4. \A c \in Blob : blobs'[c] = IF c = b THEN "absent" ELSE blobs[c]
    BY <1>8 DEF StoreInv, TableInv, TypeOK, DiskOK
  <2>5. \A n \in Name : manifests[n] # None => b \notin BlobsOf[manifests[n]]
    BY <1>1, <1>2 DEF Doing
  <2>6. Complete'
    BY <1>1, <2>4, <2>5, Present DEF StoreInv, Complete
  <2>7. BlobsVerified'
    BY <2>4 DEF StoreInv, BlobsVerified
  <2> QED BY <2>3, <2>6, <2>7 DEF Promises
<1>9. ASSUME NEW b \in ops[o].temps, UNCHANGED blobs,
             ops' = [Moved(Filling(b), TempGone) EXCEPT ![o].temps = @ \ {b}]
      PROVE  Promises'
  <2>1. ops' = [ops EXCEPT ![o] = [ops[o] EXCEPT !.temps = @ \ {b}]]
    BY <1>6, <1>9
  <2>2. LET s == [ops[o] EXCEPT !.temps = @ \ {b}] IN s.at = "sweep" /\ s.todo \subseteq ops[o].todo
    BY <1>1, <1>2 DEF OpState
  <2>3. TaskInv' /\ LateInv'
    BY <1>7, <2>1, <2>2
  <2>4. Complete' /\ BlobsVerified'
    BY <1>1, <1>9 DEF StoreInv, Complete, BlobsVerified
  <2> QED BY <2>3, <2>4 DEF Promises
<1>10. \/ Finish(o) /\ UNCHANGED <<blobs, made>>
       \/ \E b \in ops[o].todo :
             /\ blobs' = [blobs EXCEPT ![b] = "absent"]
             /\ ops' = [Moved(Downloading({b}) \cup Filling(b), FinalGone) EXCEPT ![o].todo = @ \ {b}]
       \/ \E b \in ops[o].temps :
             /\ ops' = [Moved(Filling(b), TempGone) EXCEPT ![o].temps = @ \ {b}]
             /\ UNCHANGED blobs
  BY ZenonT(60) DEF PruneBlob
<1> QED BY <1>4, <1>8, <1>9, <1>10

LEMMA InitStore == Init => StoreInv
<1> SUFFICES ASSUME Init PROVE StoreInv
  OBVIOUS
<1>1. TaskInv
  <2>1. \A o \in Op : ops[o].at = "idle"
    BY DEF Init, Idle
  <2> QED BY <2>1 DEF TaskInv, Doing, Fetching, Bringing, Installing, Making
<1>2. BlobsVerified
  BY DEF Init, BlobsVerified
<1>3. Complete
  <2> SUFFICES ASSUME NEW n \in Name, manifests[n] # None
               PROVE  /\ manifests[n] # Half
                      /\ \A b \in BlobsOf[manifests[n]] : blobs[b] = "good"
    BY DEF Complete
  <2>1. Installed[n] \in Manifest /\ manifests[n] = Installed[n] /\ Installed[n] # None
    BY StoreAssumption DEF Init
  <2>2. BlobsOf[Installed[n]] \subseteq Blob
    BY <2>1, StoreAssumption
  <2>3. ASSUME NEW b \in BlobsOf[Installed[n]] PROVE blobs[b] = "good"
    BY <2>1, <2>2 DEF Init
  <2> QED BY <2>1, <2>3, StoreAssumption
<1>4. LateInv
  BY DEF Init, LateInv
<1> QED BY <1>1, <1>2, <1>3, <1>4, InitTable DEF StoreInv

LEMMA StepStore == StoreInv /\ Apart /\ [Next]_vars => StoreInv'
<1> SUFFICES ASSUME StoreInv, Apart, [Next]_vars PROVE StoreInv'
  OBVIOUS
<1>0. TableInv'
  BY StepTable DEF StoreInv
<1>1. CASE UNCHANGED vars
  <2>1. Promises'
    BY <1>1, LateSpared DEF vars, StoreInv, TaskInv, Doing, Complete, BlobsVerified, Promises
  <2> QED BY <1>0, <2>1 DEF StoreInv, Promises
<1>2. ASSUME NEW o \in Op, Pull(o) PROVE Promises'
  BY <1>2, StartTask, FetchManifestTask, EndTask, PullAbandonsTask, SkipBlobTask,
     OpenPartialTask, FetchDoneTask, VerifyTask, RenameBlobTask DEF Pull
<1>3. ASSUME NEW o \in Op, Write(o) PROVE Promises'
  BY <1>3, LayersDoneTask, WriteTempTask, FillTempTask, InstallTask, EndTask, ReleaseTask
     DEF Write
<1>4. ASSUME NEW o \in Op, Make(o) PROVE Promises'
  BY <1>4, StartTask, ReadFromTask, CheckBlobTask, WriteBlobTask, FillBlobTask, PutBlobTask,
     EndTask DEF Make
<1>5. ASSUME NEW o \in Op, Delete(o) PROVE Promises'
  BY <1>5, StartTask, RemoveManifestTask, ListToPruneTask, PruneTask, PruneBlobTask DEF Delete
<1>6. ASSUME NEW b \in Blob, Late(b) PROVE Promises'
  BY <1>6, LateTask
<1>7. ASSUME Crash PROVE Promises'
  <2>1. TaskInv'
    BY <1>7, DoneDoing DEF Crash, TaskInv, Idle
  <2>2. LateInv'
    BY <1>7 DEF Crash, LateInv
  <2>3. Complete' /\ BlobsVerified'
    BY <1>7 DEF Crash, StoreInv, Complete, BlobsVerified
  <2> QED BY <2>1, <2>2, <2>3 DEF Promises
<1>8. Next => Promises'
  BY <1>2, <1>3, <1>4, <1>5, <1>6, <1>7 DEF Next
<1> QED BY <1>0, <1>1, <1>8 DEF StoreInv, Promises

\* A model is fully present or not listed, and every blob in place has the content
\* its digest names: for every number of tasks, names and blobs, whatever manifests
\* share a blob, through every failure of a pull, every call left to come late and
\* every crash, as long as deletes and copies meet no other task and no two tasks
\* bring one missing blob at a time.
THEOREM CompleteAlways == Spec /\ []Apart => [](Complete /\ BlobsVerified)
<1>1. StoreInv => Complete /\ BlobsVerified
  BY DEF StoreInv
<1> QED BY <1>1, StepStore, InitStore, PTL DEF Spec

\* Under the same conditions no blob in place has wrong content, whatever the registry
\* served, and whichever name's pull left, given up or with its daemon, the partial file
\* that another name's resumes: what is renamed is what was hashed.
THEOREM BlobsAlwaysVerified == Spec /\ []Apart => []BlobsVerified
<1>1. Complete /\ BlobsVerified => BlobsVerified
  OBVIOUS
<1> QED BY <1>1, CompleteAlways, PTL

-----------------------------------------------------------------------------
(* Deletes beside deletes *)

\* The tasks a step leaves alone, but for where their files are.
LEMMA OthersPrune ==
    ASSUME DeleteInv, NEW o \in Op, TypeOK', UNCHANGED <<temp, stale, late>>,
           \A n \in Name : manifests'[n] \in {manifests[n], None},
           \A p \in Op \ {o} : ops'[p].at = ops[p].at /\ ops'[p].todo = ops[p].todo,
           ops'[o].at \in {"idle", "remove", "list", "prune", "sweep"},
           \A n \in Name : manifests'[n] # None =>
              /\ ops'[o].at = "prune" => BlobsOf[manifests'[n]] \subseteq ops'[o].todo
              /\ ops'[o].at = "sweep" => BlobsOf[manifests'[n]] \cap ops'[o].todo = {}
    PROVE  PruneInv'
<1>1. ASSUME NEW p \in Op, p # o, NEW n \in Name, manifests'[n] # None
      PROVE  /\ ops'[p].at \in {"idle", "remove", "list", "prune", "sweep"}
             /\ ops'[p].at = "prune" => BlobsOf[manifests'[n]] \subseteq ops'[p].todo
             /\ ops'[p].at = "sweep" => BlobsOf[manifests'[n]] \cap ops'[p].todo = {}
  BY <1>1 DEF DeleteInv, PruneInv
<1>2. ASSUME NEW p \in Op, p # o
      PROVE  ops'[p].at \in {"idle", "remove", "list", "prune", "sweep"}
  BY <1>2 DEF DeleteInv, PruneInv
<1> QED BY <1>1, <1>2 DEF DeleteInv, PruneInv

LEMMA DeleteStep ==
    ASSUME DeleteInv, NEW o \in Op, Delete(o), TypeOK' PROVE PruneInv' /\ Complete'
<1> USE DEF DeleteInv
<1>0. ops \in [Op -> OpState]
  BY DEF TableInv, TypeOK
<1>1. CASE DeleteStart(o)
  <2>1. PICK n \in Deletes : ops' = [ops EXCEPT ![o] =
                 [Idle EXCEPT !.at = "remove", !.kind = "delete", !.name = n]]
    BY <1>1, Zenon DEF DeleteStart
  <2>2. ops'[o].at = "remove" /\ \A p \in Op \ {o} : ops'[p] = ops[p]
    BY <1>0, <2>1 DEF Idle
  <2>3. UNCHANGED disk
    BY <1>1 DEF DeleteStart
  <2> QED BY <2>2, <2>3, OthersPrune DEF disk, Complete
<1>2. CASE RemoveManifest(o)
  <2>1. /\ \A n \in Name : manifests'[n] \in {manifests[n], None}
        /\ UNCHANGED <<blobs, temp, stale, late>>
    BY <1>2 DEF RemoveManifest, TableInv, TypeOK, DiskOK
  <2>2. ops[o].kind = "delete"
    BY <1>2 DEF RemoveManifest, TableInv, KindInv, RightKind
  <2>3. /\ ops'[o].at \in {"idle", "list"}
        /\ \A p \in Op \ {o} : ops'[p].at = ops[p].at /\ ops'[p].todo = ops[p].todo
    <3>1. CASE Finish(o)
      BY <2>2, <3>1, DeleteEnds
    <3>2. CASE ops' = [Moved(Writing(ops[o].name), FinalGone) EXCEPT ![o].at = "list"]
      <4> DEFINE moved == Moved(Writing(ops[o].name), FinalGone)
      <4>1. /\ moved \in [Op -> OpState]
            /\ \A p \in Op : moved[p].at = ops[p].at /\ moved[p].todo = ops[p].todo
        BY MovedKept
      <4>2. ops' = [moved EXCEPT ![o].at = "list"]
        BY <3>2
      <4> HIDE DEF moved
      <4> QED BY <4>1, <4>2 DEF OpState
    <3> QED BY <1>2, <3>1, <3>2 DEF RemoveManifest
  <2>4. Complete'
    BY <2>1 DEF Complete
  <2> QED BY <2>1, <2>3, <2>4, OthersPrune
<1>3. CASE ListToPrune(o)
  <2>1. ops[o].kind = "delete" /\ UNCHANGED disk
    BY <1>3 DEF ListToPrune, TableInv, KindInv, RightKind
  <2>2. \A p \in Op \ {o} : ops'[p] = ops[p]
    BY <1>0, <1>3 DEF ListToPrune, Finish
  <2>3. \/ ops'[o].at = "idle"
        \/ ops'[o].at = "prune" /\ ops'[o].todo = UNION {BlobsOf[m] : m \in Listed}
    <3>1. CASE Finish(o)
      BY <2>1, <3>1, DeleteEnds
    <3>2. CASE ~Finish(o)
      <4> DEFINE keep == UNION {BlobsOf[m] : m \in Listed}
      <4>1. ops' = [ops EXCEPT ![o] = [@ EXCEPT !.at = "prune", !.todo = keep]]
        BY <1>3, <3>2 DEF ListToPrune
      <4> HIDE DEF keep
      <4>2. ops'[o].at = "prune" /\ ops'[o].todo = keep
        BY <1>0, <4>1 DEF OpState
      <4> QED BY <4>2 DEF keep
    <3> QED BY <3>1, <3>2
  <2>4. \A n \in Name : manifests[n] # None => manifests[n] \in Listed
    BY Present DEF Listed, Files, Complete
  <2> QED BY <2>1, <2>2, <2>3, <2>4, OthersPrune DEF disk, Complete
<1>4. CASE Prune(o)
  <2>1. \A p \in Op \ {o} : ops'[p] = ops[p]
    BY <1>0, <1>4 DEF Prune
  <2>2. ops'[o].at = "sweep" /\ ops'[o].todo \subseteq Blob \ ops[o].todo
    BY <1>0, <1>4 DEF Prune, OpState
  <2>3. \A n \in Name : manifests[n] # None => BlobsOf[manifests[n]] \subseteq ops[o].todo
    BY <1>4 DEF Prune, PruneInv
  <2>4. UNCHANGED disk
    BY <1>4 DEF Prune
  <2> QED BY <2>1, <2>2, <2>3, <2>4, OthersPrune DEF disk, Complete
<1>5. CASE PruneBlob(o)
  <2>1. ops[o].kind = "delete" /\ UNCHANGED <<manifests, temp, stale, late>> /\ ops[o].at = "sweep"
    BY <1>5 DEF PruneBlob, TableInv, KindInv, RightKind
  <2>2. /\ \A p \in Op \ {o} : ops'[p].at = ops[p].at /\ ops'[p].todo = ops[p].todo
        /\ ops'[o].at = "idle" \/ (ops'[o].at = "sweep" /\ ops'[o].todo \subseteq ops[o].todo)
    <3>1. CASE Finish(o)
      BY <2>1, <3>1, DeleteEnds
    <3>2. ASSUME NEW b, NEW W, NEW f \in {FinalGone, TempGone},
                 \/ ops' = [Moved(W, f) EXCEPT ![o].todo = @ \ {b}]
                 \/ ops' = [Moved(W, f) EXCEPT ![o].temps = @ \ {b}]
          PROVE  /\ \A p \in Op \ {o} : ops'[p].at = ops[p].at /\ ops'[p].todo = ops[p].todo
                 /\ ops'[o].at = "sweep" /\ ops'[o].todo \subseteq ops[o].todo
      <4> DEFINE moved == Moved(W, f)
      <4>1. /\ moved \in [Op -> OpState]
            /\ \A p \in Op : moved[p].at = ops[p].at /\ moved[p].todo = ops[p].todo
        BY MovedKept
      <4>2. \/ ops' = [moved EXCEPT ![o].todo = @ \ {b}]
            \/ ops' = [moved EXCEPT ![o].temps = @ \ {b}]
        BY <3>2
      <4> HIDE DEF moved
      <4>3. CASE ops' = [moved EXCEPT ![o].todo = @ \ {b}]
        BY <2>1, <4>1, <4>3 DEF OpState
      <4>4. CASE ops' = [moved EXCEPT ![o].temps = @ \ {b}]
        BY <2>1, <4>1, <4>4 DEF OpState
      <4> QED BY <4>2, <4>3, <4>4
    <3>3. \/ Finish(o)
          \/ \E b \in ops[o].todo :
                ops' = [Moved(Downloading({b}) \cup Filling(b), FinalGone) EXCEPT ![o].todo = @ \ {b}]
          \/ \E b \in ops[o].temps :
                ops' = [Moved(Filling(b), TempGone) EXCEPT ![o].temps = @ \ {b}]
      BY <1>5, ZenonT(60) DEF PruneBlob
    <3> QED BY <3>1, <3>2, <3>3
  <2>4. \A n \in Name : manifests[n] # None => BlobsOf[manifests[n]] \cap ops[o].todo = {}
    BY <2>1 DEF PruneInv
  <2>5. \A c \in Blob : blobs'[c] = blobs[c] \/ c \in ops[o].todo
    BY <1>5 DEF PruneBlob, TableInv, TypeOK, DiskOK
  <2>6. Complete'
    BY <2>1, <2>4, <2>5, Present DEF Complete
  <2> QED BY <2>1, <2>2, <2>4, <2>6, OthersPrune
<1> QED BY <1>1, <1>2, <1>3, <1>4, <1>5 DEF Delete

\* No model loses a blob to deletes of others, for any number of them at once, among
\* models that share blobs: each prunes from a list that the others outdate.
THEOREM DeletesSpareModels == ASSUME OnlyDeletes PROVE Spec => []Complete
<1>1. Init => DeleteInv
  <2>1. Init => Complete
    BY InitStore DEF StoreInv
  <2>2. Init => PruneInv
    BY DEF Init, PruneInv, Idle
  <2> QED BY <2>1, <2>2, InitTable DEF DeleteInv
<1>2. DeleteInv /\ [Next]_vars => DeleteInv'
  <2> SUFFICES ASSUME DeleteInv, [Next]_vars PROVE DeleteInv'
    OBVIOUS
  <2>1. TableInv' /\ TypeOK'
    BY StepTable DEF DeleteInv, TableInv
  <2>2. CASE UNCHANGED vars
    BY <2>1, <2>2 DEF vars, DeleteInv, PruneInv, Complete
  <2>3. ASSUME NEW o \in Op PROVE ~Pull(o) /\ ~Write(o) /\ ~Make(o)
    <3>1. ops[o].at \in {"idle", "remove", "list", "prune", "sweep"}
      BY DEF DeleteInv, PruneInv
    <3>2. ~PullStart(o) /\ ~CreateStart(o) /\ ~CopyStart(o)
      BY DEF OnlyDeletes, PullStart, CreateStart, CopyStart
    <3>3. ~FetchManifest(o) /\ ~PullStops(o) /\ ~SkipBlob(o) /\ ~FetchDone(o) /\ ~Verify(o)
      <4>1. ops[o].at \notin {"fetch_manifest", "layers", "download", "verify"}
        BY <3>1
      <4> QED BY <4>1, Zenon DEF FetchManifest, PullStops, SkipBlob, FetchDone, Verify
    <3>4. ~RenameBlob(o) /\ \A b \in Blob : ~Opens(o, b)
      BY <3>1 DEF RenameBlob, Opens
    <3>5. ~OpenPartial(o) /\ ~PullAbandons(o)
      <4>1. ops[o].at \notin {"rename", "verify"}
        BY <3>1
      <4> QED BY <3>4, <4>1, Zenon DEF OpenPartial, PullAbandons
    <3>6. ~Write(o)
      BY <3>1 DEF Write, LayersDone, WriteTemp, FillTemp, Install, WriteFails, Release, Installing
    <3>7. ~ReadFrom(o) /\ ~CheckBlob(o) /\ ~WriteBlob(o) /\ ~FillBlob(o) /\ ~PutBlob(o)
          /\ ~CreateFails(o)
      <4>1. ops[o].at \notin {"read", "layers"} \cup Making
        BY <3>1 DEF Making
      <4>2. ops[o].at \notin {"write_blob", "fill_blob", "rename_blob"}
        BY <3>1
      <4> QED BY <4>1, <4>2, Zenon DEF ReadFrom, CheckBlob, WriteBlob, FillBlob, PutBlob,
                                      CreateFails
    <3> QED
      BY <3>2, <3>3, <3>4, <3>5, <3>6, <3>7 DEF Pull, Make
  <2>4. ASSUME NEW o \in Op, Delete(o) PROVE PruneInv' /\ Complete'
    BY <2>1, <2>4, DeleteStep
  <2>6. \A b \in Blob : ~Late(b)
    BY DEF DeleteInv, PruneInv, Late, LateOpen, LateRename, LateRemove
  <2>5. CASE Crash
    <3>1. {temp[n] : n \in Name} \ {None} = {} /\ stale = {}
      BY DEF DeleteInv, PruneInv
    <3>2. stale' = {} /\ late' = {} /\ \A n \in Name : temp'[n] = None
      BY <2>5, <3>1 DEF Crash
    <3>3. \A o \in Op : ops'[o].at = "idle"
      BY <2>5 DEF Crash, Idle
    <3>4. manifests' = manifests /\ blobs' = blobs /\ Complete
      BY <2>5 DEF Crash, DeleteInv
    <3>5. PruneInv'
      BY <3>2, <3>3 DEF PruneInv
    <3>6. Complete'
      BY <3>4 DEF Complete
    <3> QED BY <2>1, <3>5, <3>6 DEF DeleteInv
  <2> QED BY <2>1, <2>2, <2>3, <2>4, <2>5, <2>6 DEF Next, DeleteInv
<1>3. DeleteInv => Complete
  BY DEF DeleteInv
<1> QED BY <1>1, <1>2, <1>3, PTL DEF Spec

-----------------------------------------------------------------------------
(* The store implements Shelf, where deletes and copies meet no other task and *)
(* no two tasks bring one blob at a time                                      *)

\* A copy meets no other task.
LEMMA CopyAlone ==
    ASSUME Apart, NEW o \in Op, ops[o].kind = "copy", ops[o].at # "idle", NEW p \in Op \ {o}
    PROVE  ops[p].at = "idle"
BY DEF Apart, CopiesAlone, Alone

\* A copy between its two reads of the world, what it was asked and what it writes,
\* does nothing else, and no other task is there to change its source.
LEMMA CopySteps ==
    ASSUME StoreInv, NEW o \in Op, Pull(o) \/ Write(o) \/ Make(o) \/ Delete(o),
           ops[o].at # "idle", ops[o].kind = "copy", ops'[o].at \in Installing
    PROVE  /\ manifests' = manifests
           /\ \/ ops'[o].manifest = manifests[ops[o].from]
              \/ ops[o].at \in Installing /\ ops'[o].manifest = ops[o].manifest
<1>0. ops[o] \in OpState /\ RightKind(ops[o]) /\ ops \in [Op -> OpState]
  BY Known DEF StoreInv, TableInv, TypeOK
<1>1. ops[o].at \in {"read"} \cup Installing
  BY <1>0 DEF RightKind, OpState, Points, Fetching, Installing, Making, Claimed
<1>2. ops[o].at \notin {"idle", "fetch_manifest", "layers", "download", "verify", "rename",
                       "remove", "list", "prune", "sweep", "release"}
  BY <1>1 DEF Installing, Making
<1>3. ~PullStart(o) /\ ~FetchManifest(o) /\ ~PullStops(o) /\ ~SkipBlob(o) /\ ~OpenPartial(o)
      /\ ~PullAbandons(o)
  <2>1. \A b \in Blob : ~Opens(o, b)
    BY <1>2 DEF Opens
  <2> QED BY <1>2, <2>1, Zenon DEF PullStart, FetchManifest, PullStops, PullAbandons, SkipBlob,
                                 OpenPartial
<1>4. ~FetchDone(o) /\ ~Verify(o) /\ ~RenameBlob(o) /\ ~LayersDone(o) /\ ~Release(o)
  BY <1>2, Zenon DEF FetchDone, Verify, RenameBlob, LayersDone, Release
<1>5. ~CreateStart(o) /\ ~CopyStart(o) /\ ~Delete(o)
  BY <1>2, Zenon DEF CreateStart, CopyStart, Delete, DeleteStart,
     RemoveManifest, ListToPrune, Prune, PruneBlob
<1>10. ~CheckBlob(o) /\ ~WriteBlob(o) /\ ~FillBlob(o) /\ ~PutBlob(o) /\ ~CreateFails(o)
  BY <1>1 DEF CheckBlob, WriteBlob, FillBlob, PutBlob, CreateFails, Making, Installing
<1>11. ~WriteFails(o)
  <2> SUFFICES ASSUME WriteFails(o) PROVE ops'[o].at = "idle"
    BY DEF Installing
  <2> QED BY <1>0 DEF WriteFails, Finish, Finished, Claimed, Idle
<1>6. CASE ReadFrom(o)
  <2> DEFINE m == manifests[ops[o].from]
  <2>1. ~Finish(o)
    BY <1>0 DEF Finish, Finished, Claimed, Idle, Installing, Making
  <2>2. ops' = [ops EXCEPT ![o] = [@ EXCEPT !.at = "write_temp", !.manifest = m]]
    BY <1>6, <2>1, Zenon DEF ReadFrom
  <2> HIDE DEF m
  <2>3. ops'[o].manifest = m
    BY <1>0, <2>2 DEF OpState
  <2> QED BY <1>6, <2>3 DEF m, ReadFrom, disk
<1>7. CASE WriteTemp(o)
  <2>1. ops'[o].manifest = ops[o].manifest
    BY <1>0, <1>7 DEF WriteTemp, OpState
  <2> QED BY <1>7, <2>1 DEF WriteTemp, Installing, Making
<1>8. CASE FillTemp(o)
  <2>1. ops'[o].manifest = ops[o].manifest
    BY <1>0, <1>8 DEF FillTemp, OpState
  <2>2. ops[o].file = "temp"
    BY <1>8 DEF FillTemp, StoreInv, TaskInv, Doing
  <2> QED BY <1>8, <2>1, <2>2 DEF FillTemp, Installing, Making
<1>9. ~Install(o)
  <2> SUFFICES ASSUME Install(o) PROVE ops'[o].at = "idle"
    BY DEF Installing, Making
  <2>1. Finished(o) = Idle
    BY DEF Finished, Claimed
  <2>2. \/ Finish(o)
        \/ ops' = [Moved(Writing(ops[o].name), ToFinal) EXCEPT ![o] = Finished(o)]
    BY DEF Install
  <2>3. Moved(Writing(ops[o].name), ToFinal) \in [Op -> OpState]
    BY MovedKept DEF StoreInv
  <2>4. ops'[o] = Idle
    BY <1>0, <2>1, <2>2, <2>3 DEF Finish
  <2> QED BY <2>4 DEF Idle
<1> QED BY <1>3, <1>4, <1>5, <1>6, <1>7, <1>8, <1>9, <1>10, <1>11 DEF Pull, Write, Make

\* What a task that starts was asked.
LEMMA Starters ==
    ASSUME ops \in [Op -> OpState], NEW o \in Op, ops[o].at = "idle",
           Pull(o) \/ Write(o) \/ Make(o) \/ Delete(o)
    PROVE  /\ PullStart(o) \/ CreateStart(o) \/ CopyStart(o) \/ DeleteStart(o)
           /\ ops'[o].kind = "delete" => ops'[o].name \in Deletes
           /\ ops'[o].kind = "copy" =>
                 ops'[o].at = "read" /\ <<ops'[o].from, ops'[o].name>> \in Copies
<1>1. ~FetchManifest(o) /\ ~PullStops(o) /\ ~SkipBlob(o) /\ ~OpenPartial(o) /\ ~FetchDone(o)
      /\ ~PullAbandons(o)
  <2>1. \A b \in Blob : ~Opens(o, b)
    BY DEF Opens
  <2> QED BY <2>1, Zenon DEF FetchManifest, PullStops, PullAbandons, SkipBlob, OpenPartial,
                            FetchDone
<1>2. ~Verify(o) /\ ~RenameBlob(o) /\ ~Write(o)
  <2>1. ~WriteFails(o)
    BY DEF WriteFails, Installing
  <2> QED BY <2>1, Zenon DEF Verify, RenameBlob, Write, LayersDone, WriteTemp, FillTemp, Install,
                            Release
<1>3. ~ReadFrom(o) /\ ~CheckBlob(o) /\ ~WriteBlob(o) /\ ~FillBlob(o) /\ ~PutBlob(o)
      /\ ~CreateFails(o)
  BY DEF ReadFrom, CheckBlob, WriteBlob, FillBlob, PutBlob, CreateFails, Making
<1>4. ~RemoveManifest(o) /\ ~ListToPrune(o) /\ ~Prune(o) /\ ~PruneBlob(o)
  BY Zenon DEF RemoveManifest, ListToPrune, Prune, PruneBlob
<1>5. PullStart(o) \/ CreateStart(o) \/ CopyStart(o) \/ DeleteStart(o)
  BY <1>1, <1>2, <1>3, <1>4 DEF Pull, Make, Delete
<1>6. PullStart(o) => ops'[o].kind = "pull"
  BY DEF PullStart, Idle
<1>7. CreateStart(o) => ops'[o].kind = "create"
  BY DEF CreateStart, Idle
<1>8. ASSUME CopyStart(o)
      PROVE  /\ ops'[o].kind = "copy" /\ ops'[o].at = "read"
             /\ <<ops'[o].from, ops'[o].name>> \in Copies
  <2>1. PICK c \in Copies : /\ ~Busy(c[2])
                           /\ ops' = [ops EXCEPT ![o] = [Idle EXCEPT
                                 !.at = "read", !.kind = "copy", !.name = c[2], !.from = c[1]]]
    BY <1>8, Zenon DEF CopyStart
  <2>2. c = <<c[1], c[2]>>
    BY StoreAssumption
  <2> QED BY <2>1, <2>2 DEF Idle
<1>9. DeleteStart(o) => ops'[o].kind = "delete" /\ ops'[o].name \in Deletes
  BY DEF DeleteStart, Idle
<1> QED BY <1>5, <1>6, <1>7, <1>8, <1>9

LEMMA StepAsked == StoreInv /\ AskedInv /\ Apart /\ Apart' /\ [Next]_vars => AskedInv'
<1> SUFFICES ASSUME StoreInv, AskedInv, Apart, Apart', [Next]_vars PROVE AskedInv'
  OBVIOUS
<1>0. StoreInv' /\ ops \in [Op -> OpState]
  BY StepStore DEF StoreInv, TableInv, TypeOK
<1>1. CASE UNCHANGED vars
  BY <1>1 DEF vars, AskedInv
<1>2. CASE Crash
  BY <1>2 DEF Crash, Idle, AskedInv
<1>3. ASSUME NEW o \in Op, Pull(o) \/ Write(o) \/ Make(o) \/ Delete(o) PROVE AskedInv'
  <2>1. (\A p \in Op \ {o} : Kept(p)) /\ (Starts(o) \/ Stays(o))
    BY <1>3, StepKeeps DEF StoreInv
  <2>2. ASSUME NEW p \in Op \ {o}, ops'[p].at # "idle"
        PROVE  /\ ops'[p].kind = "delete" => ops'[p].name \in Deletes
               /\ ops'[p].kind = "copy" =>
                     /\ ops'[o].at = "idle"
                     /\ <<ops'[p].from, ops'[p].name>> \in Copies
                     /\ ops'[p].at \in Installing => ops'[p].manifest = manifests'[ops'[p].from]
    <3>1. Kept(p) /\ ops[p].at # "idle"
      BY <2>1, <2>2 DEF Kept
    <3>2. ASSUME ops[p].kind = "copy" PROVE ops[o].at = "idle" /\ ops'[o].at = "idle"
      <4>1. ops[o].at = "idle"
        BY <3>1, <3>2, CopyAlone
      <4>2. ops'[o].at = "idle"
        BY <2>2, <3>1, <3>2 DEF Kept, Apart, CopiesAlone, Alone
      <4> QED BY <4>1, <4>2
    <3>3. ops[p].kind = "copy" => manifests' = manifests
      BY <2>1, <3>2 DEF Starts, Stays, disk
    <3> QED BY <3>1, <3>2, <3>3 DEF Kept, AskedInv
  <2>3. CASE ops[o].at # "idle" /\ ops'[o].at # "idle"
    <3>1. Same(ops'[o], ops[o])
      BY <2>1, <2>3 DEF Starts, Stays
    <3>2. ops'[o].kind = "copy" /\ ops'[o].at \in Installing =>
            ops'[o].manifest = manifests'[ops'[o].from]
      BY <1>3, <2>3, <3>1, CopySteps DEF Same, AskedInv
    <3> QED BY <2>2, <2>3, <3>1, <3>2 DEF Same, AskedInv
  <2>4. CASE ops'[o].at = "idle"
    BY <2>2, <2>4 DEF AskedInv
  <2>5. CASE ops[o].at = "idle"
    <3>1. ops'[o].kind = "delete" /\ ops'[o].at # "idle" => ops'[o].name \in Deletes
      BY <1>0, <1>3, <2>5, Starters
    <3>2. ops'[o].kind = "copy" /\ ops'[o].at # "idle" =>
             ops'[o].at = "read" /\ <<ops'[o].from, ops'[o].name>> \in Copies
      BY <1>0, <1>3, <2>5, Starters
    <3> QED BY <2>2, <3>1, <3>2 DEF AskedInv, Installing, Making
  <2> QED BY <2>3, <2>4, <2>5
<1>4. ASSUME NEW b \in Blob, Late(b) PROVE AskedInv'
  <2>1. (\A p \in Op : Kept(p)) /\ UNCHANGED manifests
    BY <1>4, LateKept DEF StoreInv, Late, LateOpen, LateRename, LateRemove
  <2> QED BY <2>1 DEF Kept, AskedInv
<1> QED BY <1>1, <1>2, <1>3, <1>4 DEF Next

\* A task that writes a name is its one claim.
LEMMA ClaimOf ==
    ASSUME TableInv, NEW o \in Op, ops[o].kind \in Claimed, ops[o].at # "idle"
    PROVE  /\ ops[o].name \in Name /\ Writers(ops[o].name) = {o}
           /\ Claims[ops[o].name] = {Claim(ops[o])}
<1>1. ops[o].name \in Name
  BY Known DEF Proper
<1>2. Writers(ops[o].name) = {o}
  BY <1>1 DEF TableInv, ClaimInv, Writers
<1>3. {Claim(ops[p]) : p \in {o}} = {Claim(ops[o])}
  OBVIOUS
<1>4. ClaimsOn(ops[o].name) = {Claim(ops[o])}
  BY <1>2, <1>3, Zenon DEF ClaimsOn
<1>5. \A n \in Name : Claims[n] = ClaimsOn(n)
  BY DEF Claims
<1> QED BY <1>1, <1>2, <1>4, <1>5

\* A step of one task changes its own claim at most.
LEMMA OtherClaims ==
    ASSUME NEW o \in Op, \A p \in Op \ {o} : Kept(p)
    PROVE  /\ \A p \in Op \ {o} : \A n \in Name : p \in Writers(n)' <=> p \in Writers(n)
           /\ \A n \in Name : o \notin Writers(n) /\ o \notin Writers(n)' =>
                 ClaimsOn(n)' = ClaimsOn(n)
<1>1. \A p \in Op \ {o} : Claim(ops'[p]) = Claim(ops[p])
  BY DEF Kept, Claim, Stage
<1>2. \A p \in Op \ {o} : \A n \in Name : p \in Writers(n)' <=> p \in Writers(n)
  BY DEF Kept, Writers
<1>3. ASSUME NEW n \in Name, o \notin Writers(n), o \notin Writers(n)'
      PROVE  ClaimsOn(n)' = ClaimsOn(n)
  <2>1. Writers(n) \subseteq Op /\ Writers(n)' \subseteq Op
    BY DEF Writers
  <2>2. Writers(n)' = Writers(n) /\ \A p \in Writers(n) : Claim(ops'[p]) = Claim(ops[p])
    BY <1>1, <1>2, <1>3, <2>1
  <2>3. {Claim(ops'[p]) : p \in Writers(n)'} = {Claim(ops[p]) : p \in Writers(n)}
    BY <2>2
  <2> QED BY <2>3 DEF ClaimsOn
<1> QED BY <1>2, <1>3

\* A step of a task that has no claim leaves them as they are.
LEMMA ClaimsUnseen ==
    ASSUME NEW o \in Op, \A p \in Op \ {o} : Kept(p),
           ops[o].at = "idle" \/ ops[o].kind \notin Claimed,
           ops'[o].at = "idle" \/ ops'[o].kind \notin Claimed
    PROVE  Claims' = Claims
<1>1. \A n \in Name : o \notin Writers(n) /\ o \notin Writers(n)'
  BY DEF Writers
<1>2. \A n \in Name : ClaimsOn(n)' = ClaimsOn(n)
  BY <1>1, OtherClaims
<1> QED BY <1>2 DEF Claims

\* A task that goes on changes its own claim alone.
LEMMA ClaimGoesOn ==
    ASSUME TableInv, NEW o \in Op, \A p \in Op \ {o} : Kept(p), Stays(o),
           ops[o].kind \in Claimed, ops'[o].at # "idle"
    PROVE  Claims' = [Claims EXCEPT ![ops[o].name] = {Claim(ops'[o])}]
<1>1. ops[o].at # "idle" /\ Same(ops'[o], ops[o])
  BY DEF Stays
<1>2. PICK n \in Name : n = ops[o].name /\ Writers(n) = {o}
  BY <1>1, ClaimOf
<1>3. \A p \in Op \ {o} : \A k \in Name : p \in Writers(k)' <=> p \in Writers(k)
  BY OtherClaims
<1>4. o \in Writers(n)' /\ \A k \in Name : Writers(k)' \subseteq Op
  BY <1>1, <1>2 DEF Writers, Same
<1>5. Writers(n)' = {o}
  BY <1>2, <1>3, <1>4
<1>6. ClaimsOn(n)' = {Claim(ops'[o])}
  <2>1. {Claim(ops'[p]) : p \in {o}} = {Claim(ops'[o])}
    OBVIOUS
  <2> QED BY <1>5, <2>1 DEF ClaimsOn
<1>7. \A k \in Name \ {n} : o \notin Writers(k) /\ o \notin Writers(k)'
  BY <1>1, <1>2 DEF Writers, Same
<1>8. \A k \in Name \ {n} : ClaimsOn(k)' = ClaimsOn(k)
  BY <1>7, OtherClaims
<1> QED BY <1>2, <1>6, <1>8 DEF Claims

\* A task that leaves drops its claim.
LEMMA ClaimEnds ==
    ASSUME TableInv, NEW o \in Op, \A p \in Op \ {o} : Kept(p),
           ops[o].kind \in Claimed, ops[o].at # "idle", ops'[o].at = "idle"
    PROVE  Claims' = [Claims EXCEPT ![ops[o].name] = {}]
<1>2. PICK n \in Name : n = ops[o].name /\ Writers(n) = {o}
  BY ClaimOf
<1>3. \A p \in Op \ {o} : \A k \in Name : p \in Writers(k)' <=> p \in Writers(k)
  BY OtherClaims
<1>4. \A k \in Name : o \notin Writers(k)' /\ Writers(k)' \subseteq Op
  BY DEF Writers
<1>5. Writers(n)' = {}
  BY <1>2, <1>3, <1>4
<1>6. ClaimsOn(n)' = {}
  BY <1>5 DEF ClaimsOn
<1>7. \A k \in Name \ {n} : o \notin Writers(k)
  BY <1>2 DEF Writers
<1>8. \A k \in Name \ {n} : ClaimsOn(k)' = ClaimsOn(k)
  BY <1>4, <1>7, OtherClaims
<1> QED BY <1>2, <1>6, <1>8 DEF Claims

\* A task that starts on a name that is not busy claims it.
LEMMA ClaimStarts ==
    ASSUME TableInv, NEW o \in Op, \A p \in Op \ {o} : Kept(p), ops[o].at = "idle",
           NEW n \in Name, ~Busy(n),
           ops'[o].at # "idle", ops'[o].kind \in Claimed, ops'[o].name = n
    PROVE  Claims[n] = {} /\ Claims' = [Claims EXCEPT ![n] = {Claim(ops'[o])}]
<1>1. Writers(n) = {}
  <2>1. \A p \in Writers(n) : ops[p].kind \in {"pull", "create"}
    BY DEF Writers, Claimed
  <2> QED BY <2>1 DEF TableInv, ClaimInv, Busy
<1>2. ClaimsOn(n) = {}
  BY <1>1 DEF ClaimsOn
<1>3. \A p \in Op \ {o} : \A k \in Name : p \in Writers(k)' <=> p \in Writers(k)
  BY OtherClaims
<1>4. o \in Writers(n)' /\ \A k \in Name : Writers(k)' \subseteq Op
  BY DEF Writers
<1>5. Writers(n)' = {o}
  BY <1>1, <1>3, <1>4
<1>6. ClaimsOn(n)' = {Claim(ops'[o])}
  <2>1. {Claim(ops'[p]) : p \in {o}} = {Claim(ops'[o])}
    OBVIOUS
  <2> QED BY <1>5, <2>1 DEF ClaimsOn
<1>7. \A k \in Name \ {n} : o \notin Writers(k) /\ o \notin Writers(k)'
  BY DEF Writers
<1>8. \A k \in Name \ {n} : ClaimsOn(k)' = ClaimsOn(k)
  BY <1>7, OtherClaims
<1> QED BY <1>2, <1>6, <1>8 DEF Claims

\* A task that goes on as far as others see keeps its claim as it is.
LEMMA ClaimStays ==
    ASSUME TableInv, NEW o \in Op, \A p \in Op \ {o} : Kept(p), Stays(o),
           ops'[o].at # "idle", ops'[o].manifest = ops[o].manifest,
           Stage(ops'[o]) = Stage(ops[o])
    PROVE  Claims' = Claims
<1>1. ops[o].at # "idle" /\ Same(ops'[o], ops[o])
  BY DEF Stays
<1>2. CASE ops[o].kind \in Claimed
  <2>1. Claim(ops'[o]) = Claim(ops[o])
    BY <1>1 DEF Claim, Same
  <2>2. PICK n \in Name : n = ops[o].name /\ Claims[n] = {Claim(ops[o])}
    BY <1>1, <1>2, ClaimOf
  <2>3. Claims' = [Claims EXCEPT ![n] = {Claim(ops'[o])}]
    BY <1>2, <2>2, ClaimGoesOn
  <2>4. DOMAIN Claims = Name /\ Claims = [k \in DOMAIN Claims |-> Claims[k]]
    BY DEF Claims
  <2> QED BY <2>1, <2>2, <2>3, <2>4
<1>3. CASE ops[o].kind \notin Claimed
  BY <1>1, <1>3, ClaimsUnseen DEF Same
<1> QED BY <1>2, <1>3

\* A step of Shelf, or none.
ShelfStep == Shelf!Next \/ UNCHANGED Shelf!vars

\* A step that moves a task on, and no model, blob or claim.
LEMMA QuietStep ==
    ASSUME TableInv, NEW o \in Op, \A p \in Op \ {o} : Kept(p), Stays(o),
           ops'[o].at # "idle", ops'[o].manifest = ops[o].manifest,
           Stage(ops'[o]) = Stage(ops[o]), UNCHANGED <<manifests, blobs>>
    PROVE  UNCHANGED Shelf!vars
<1>2. Claims' = Claims
  BY ClaimStays
<1>3. Whole' = Whole
  BY DEF Whole
<1> QED BY <1>2, <1>3 DEF Shelf!vars

\* A step of a task that others do not see.
LEMMA UnseenStep ==
    ASSUME NEW o \in Op, \A p \in Op \ {o} : Kept(p),
           ops[o].at = "idle" \/ ops[o].kind \notin Claimed,
           ops'[o].at = "idle" \/ ops'[o].kind \notin Claimed,
           UNCHANGED <<manifests, blobs>>
    PROVE  UNCHANGED Shelf!vars
<1>1. Claims' = Claims
  BY ClaimsUnseen
<1>2. Whole' = Whole
  BY DEF Whole
<1> QED BY <1>1, <1>2 DEF Shelf!vars

\* What remains of a pull or a create that ended.
LEMMA ReleasedAs ==
    ASSUME NEW o, ops[o] \in OpState, ops[o].kind \in Claimed
    PROVE  /\ Finished(o).at = "release" /\ Same(Finished(o), ops[o])
           /\ Finished(o).manifest = ops[o].manifest
<1>1. "release" \in Points
  BY DEF Points
<1> DEFINE s == ops[o]
           t == [s EXCEPT !.at = "release", !.todo = {}, !.blob = None, !.file = "gone",
                          !.lost = FALSE]
<1>2. Finished(o) = t
  BY DEF Finished
<1>3. s \in OpState
  OBVIOUS
<1> HIDE DEF s
<1>4. t.at = "release" /\ Same(t, s) /\ t.manifest = s.manifest
  BY <1>3 DEF OpState, Same
<1> QED BY <1>2, <1>4 DEF s

LEMMA ClaimOver ==
    ASSUME NEW s, NEW t, t.at = "release", Same(t, s), t.manifest = s.manifest
    PROVE  Claim(t) = [Claim(s) EXCEPT !.stage = "over"]
<1>1. Stage(t) = "over"
  BY DEF Stage
<1> QED BY <1>1 DEF Claim, Same

\* A task that ends without its model gives up what it claimed.
LEMMA EndStep ==
    ASSUME TableInv, NEW o \in Op, \A p \in Op \ {o} : Kept(p), Stays(o),
           ops[o].at # "release", ops'[o] = Finished(o), UNCHANGED <<manifests, blobs>>
    PROVE  ShelfStep
<1>0. ops[o].at # "idle" /\ ops[o] \in OpState
  BY Known DEF Stays
<1>1. CASE ops[o].kind \in Claimed
  <2>2. ops'[o].at = "release" /\ Same(ops'[o], ops[o]) /\ ops'[o].manifest = ops[o].manifest
    BY <1>0, <1>1, ReleasedAs
  <2>3. Claim(ops'[o]) = [Claim(ops[o]) EXCEPT !.stage = "over"] /\ Claim(ops[o]).stage # "over"
    BY <2>2, ClaimOver DEF Claim, Stage
  <2>4. PICK n \in Name : n = ops[o].name /\ Claims[n] = {Claim(ops[o])}
    BY <1>0, <1>1, ClaimOf
  <2>5. Claims' = [Claims EXCEPT ![n] = {[Claim(ops[o]) EXCEPT !.stage = "over"]}]
    BY <1>1, <2>2, <2>3, <2>4, ClaimGoesOn
  <2>6. Whole' = Whole
    BY DEF Whole
  <2>7. Shelf!GivesUp(n, Claim(ops[o]))
    BY <2>3, <2>5, <2>6 DEF Shelf!GivesUp
  <2> QED BY <2>4, <2>7 DEF ShelfStep, Shelf!Next
<1>2. CASE ops[o].kind \notin Claimed
  <2>1. ops'[o].at = "idle"
    BY <1>2 DEF Finished, Idle
  <2> QED BY <1>2, <2>1, UnseenStep DEF ShelfStep
<1> QED BY <1>1, <1>2

\* A blob put in place is one more kept, or was kept already.
LEMMA KeepsStep ==
    ASSUME TableInv, Claims' = Claims, UNCHANGED manifests,
           NEW b \in Blob, blobs' = [blobs EXCEPT ![b] = "good"]
    PROVE  ShelfStep
<1>1. Whole' = Whole \cup {b}
  BY DEF Whole, TableInv, TypeOK, DiskOK
<1>2. b \notin Whole => Shelf!Keeps(b)
  BY <1>1 DEF Shelf!Keeps
<1>3. b \in Whole => UNCHANGED Shelf!vars
  BY <1>1 DEF Shelf!vars
<1> QED BY <1>2, <1>3 DEF ShelfStep, Shelf!Next

LEMMA BlobStep ==
    ASSUME TableInv, NEW o \in Op, \A p \in Op \ {o} : Kept(p), Stays(o),
           ops'[o].at # "idle", ops'[o].manifest = ops[o].manifest,
           Stage(ops'[o]) = Stage(ops[o]), UNCHANGED manifests,
           NEW b \in Blob, blobs' = [blobs EXCEPT ![b] = "good"]
    PROVE  ShelfStep
BY ClaimStays, KeepsStep

\* What a pull, a create and their claims do.
LEMMA StartStep ==
    ASSUME TableInv, NEW o \in Op, PullStart(o) \/ CreateStart(o) PROVE Shelf!Next
<1>0. (\A p \in Op \ {o} : Kept(p)) /\ ops \in [Op -> OpState]
  BY StepKeeps DEF Pull, Make, TableInv, TypeOK
<1>a. UNCHANGED disk /\ ops[o].at = "idle"
  BY Zenon DEF PullStart, CreateStart
<1>1. UNCHANGED manifests /\ Whole' = Whole /\ ops[o].at = "idle"
  BY <1>a DEF disk, Whole
<1>2. ASSUME PullStart(o) PROVE Shelf!Next
  <2>1. PICK n \in Pulls, k \in {"tag"} \cup Manifest :
          /\ k # "tag" => <<n, k>> \in Pinned
          /\ ~Busy(n)
          /\ pulls' = [pulls EXCEPT ![n] = k]
          /\ ops' = [ops EXCEPT ![o] = [Idle EXCEPT !.at = "fetch_manifest", !.name = n, !.key = k]]
    BY <1>2, ZenonT(60) DEF PullStart
  <2>2. n \in Name
    BY StoreAssumption
  <2>3. /\ ops'[o].at = "fetch_manifest" /\ ops'[o].kind = "pull" /\ ops'[o].name = n
        /\ ops'[o].key = k /\ ops'[o].from = None /\ ops'[o].manifest = None
    BY <1>0, <2>1 DEF Idle
  <2>4. Claims[n] = {} /\ Claims' = [Claims EXCEPT ![n] = {Claim(ops'[o])}]
    BY <1>0, <1>1, <2>1, <2>2, <2>3, ClaimStarts DEF Claimed
  <2>5. Claim(ops'[o]) = [kind |-> "pull", key |-> k, from |-> None, model |-> None,
                          stage |-> "asked"]
    BY <2>3 DEF Claim, Stage
  <2>6. Shelf!AsksPull(n, k)
    BY <1>1, <2>1, <2>4, <2>5 DEF Shelf!AsksPull, Shelf!Asks
  <2> QED BY <2>1, <2>6 DEF Shelf!Next
<1>3. ASSUME CreateStart(o) PROVE Shelf!Next
  <2>1. PICK c \in Creates :
          /\ ~Busy(c[1])
          /\ creating' = creating \cup {c[1]}
          /\ ops' = [ops EXCEPT ![o] = [Idle EXCEPT !.at = "read", !.kind = "create",
                                                    !.name = c[1], !.from = c[2]]]
    BY <1>3, ZenonT(60) DEF CreateStart
  <2>2. c[1] \in Name
    BY StoreAssumption
  <2>3. /\ ops'[o].at = "read" /\ ops'[o].kind = "create" /\ ops'[o].name = c[1]
        /\ ops'[o].key = "tag" /\ ops'[o].from = c[2] /\ ops'[o].manifest = None
    BY <1>0, <2>1 DEF Idle
  <2>4. Claims[c[1]] = {} /\ Claims' = [Claims EXCEPT ![c[1]] = {Claim(ops'[o])}]
    BY <1>0, <1>1, <2>1, <2>2, <2>3, ClaimStarts DEF Claimed
  <2>5. Claim(ops'[o]) = [kind |-> "create", key |-> "tag", from |-> c[2], model |-> None,
                          stage |-> "asked"]
    BY <2>3 DEF Claim, Stage
  <2>6. Shelf!AsksCreate(c[1], c[2])
    BY <1>1, <2>4, <2>5 DEF Shelf!AsksCreate, Shelf!Asks
  <2> QED BY <2>6 DEF Shelf!Next
<1> QED BY <1>2, <1>3

\* From asked to brought, a claim changes its model and nothing else it was asked.
LEMMA ClaimBrings ==
    ASSUME NEW s, NEW m
    PROVE  [Claim(s) EXCEPT !.model = m, !.stage = "brings"] =
              [kind |-> s.kind, key |-> s.key, from |-> s.from, model |-> m, stage |-> "brings"]
<1>1. [Claim(s) EXCEPT !.model = m] =
         [kind |-> s.kind, key |-> s.key, from |-> s.from, model |-> m, stage |-> Stage(s)]
  BY DEF Claim
<1>2. [[kind |-> s.kind, key |-> s.key, from |-> s.from, model |-> m, stage |-> Stage(s)]
         EXCEPT !.stage = "brings"] =
         [kind |-> s.kind, key |-> s.key, from |-> s.from, model |-> m, stage |-> "brings"]
  OBVIOUS
<1> QED BY <1>1, <1>2, Zenon

LEMMA FetchManifestStep ==
    ASSUME TableInv, NEW o \in Op, FetchManifest(o) PROVE Shelf!Next
<1>0. (\A p \in Op \ {o} : Kept(p)) /\ (Starts(o) \/ Stays(o)) /\ ops[o] \in OpState
  BY StepKeeps, Known DEF Pull
<1>1. /\ UNCHANGED manifests /\ Whole' = Whole /\ ops[o].at = "fetch_manifest"
      /\ ops[o].kind = "pull" /\ Stays(o)
  BY <1>0, Known DEF FetchManifest, disk, Whole, RightKind, Starts
<1>2. PICK m \in Offers[ops[o].name] :
        /\ ops[o].key \in {"tag", m}
        /\ ops' = [ops EXCEPT ![o] = [@ EXCEPT !.at = "layers", !.manifest = m,
                                               !.todo = BlobsOf[m]]]
  BY ZenonT(60) DEF FetchManifest
<1>3. ops'[o].at = "layers" /\ ops'[o].manifest = m /\ Same(ops'[o], ops[o])
  BY <1>0, <1>2 DEF OpState, Same, TableInv, TypeOK
<1>a. Stage(ops[o]) = "asked" /\ Stage(ops'[o]) = "brings" /\ ops[o].key \in {"tag", m}
  BY <1>1, <1>2, <1>3 DEF Stage
<1>4. /\ Claim(ops[o]).stage = "asked" /\ Claim(ops[o]).kind = "pull"
      /\ Claim(ops[o]).key \in {"tag", m}
  BY <1>1, <1>a DEF Claim
<1>b. Claim(ops'[o]) = [Claim(ops[o]) EXCEPT !.model = m, !.stage = "brings"]
  <2>1. Claim(ops'[o]) = [kind |-> ops[o].kind, key |-> ops[o].key, from |-> ops[o].from,
                          model |-> m, stage |-> "brings"]
    BY <1>a, <1>3 DEF Claim, Same
  <2>2. [Claim(ops[o]) EXCEPT !.model = m, !.stage = "brings"] =
         [kind |-> ops[o].kind, key |-> ops[o].key, from |-> ops[o].from,
          model |-> m, stage |-> "brings"]
    BY ClaimBrings, Zenon
  <2> QED BY <2>1, <2>2, Zenon
<1>5. PICK n \in Name : n = ops[o].name /\ Claims[n] = {Claim(ops[o])}
  BY <1>1, ClaimOf DEF Claimed
<1>6. Claims' = [Claims EXCEPT ![n] = {Claim(ops'[o])}]
  BY <1>0, <1>1, <1>3, <1>5, ClaimGoesOn DEF Claimed
<1>7. Shelf!BringsOffer(n, Claim(ops[o]))
  <2>1. Shelf!Brings(n, Claim(ops[o]), m)
    BY <1>1, <1>4, <1>b, <1>6 DEF Shelf!Brings
  <2> QED BY <1>4, <1>5, <2>1, Zenon DEF Shelf!BringsOffer
<1> QED BY <1>5, <1>7 DEF Shelf!Next

\* Steps of a pull that wait on the network or on the disk: nobody sees them.
LEMMA FetchingStep ==
    ASSUME StoreInv, NEW o \in Op,
           \/ SkipBlob(o) \/ OpenPartial(o) \/ FetchDone(o) \/ LayersDone(o)
           \/ CheckBlob(o) \/ WriteBlob(o) \/ FillBlob(o) \/ WriteTemp(o) \/ FillTemp(o)
    PROVE  UNCHANGED Shelf!vars
<1>0. /\ (\A p \in Op \ {o} : Kept(p)) /\ (Starts(o) \/ Stays(o)) /\ ops[o] \in OpState
      /\ TableInv /\ ops \in [Op -> OpState]
  BY StepKeeps, Known DEF Pull, Make, Write, StoreInv, TableInv, TypeOK
<1>q. ASSUME ops[o].at \in {"layers", "write_temp", "fill_temp"} \cup Fetching \cup Making,
             ops'[o].at \in {"layers", "write_temp", "fill_temp", "install"} \cup Fetching \cup Making,
             ops'[o].manifest = ops[o].manifest, UNCHANGED <<manifests, blobs>>
      PROVE  UNCHANGED Shelf!vars
  BY <1>0, <1>q, QuietStep DEF Starts, Stage, Fetching, Making
<1>1. CASE SkipBlob(o)
  <2>1. PICK b \in ops[o].todo : ops' = [ops EXCEPT ![o].todo = @ \ {b}]
    BY <1>1, Zenon DEF SkipBlob
  <2>2. ops[o].at = "layers" /\ UNCHANGED <<manifests, blobs>>
    BY <1>1, Zenon DEF SkipBlob, disk
  <2>3. ops'[o].at = "layers" /\ ops'[o].manifest = ops[o].manifest
    BY <1>0, <2>1, <2>2 DEF OpState
  <2> QED BY <1>q, <2>2, <2>3
<1>2. CASE OpenPartial(o)
  <2>1. PICK b \in Blob :
          /\ Opens(o, b)
          /\ \/ ops' = [Truncated(b) EXCEPT ![o] =
                          [ops[o] EXCEPT !.at = "download", !.blob = b, !.file = "temp",
                                         !.lost = FALSE]]
             \/ ops' = [ops EXCEPT ![o] =
                          [ops[o] EXCEPT !.at = "download", !.blob = b, !.file = "temp",
                                         !.lost = FALSE]]
    BY <1>2, ZenonT(60) DEF OpenPartial
  <2> DEFINE opened == [ops[o] EXCEPT !.at = "download", !.blob = b, !.file = "temp",
                                      !.lost = FALSE]
             cut == Truncated(b)
  <2>2. opened.at = "download" /\ opened.manifest = ops[o].manifest
    BY <1>0 DEF OpState
  <2>3. cut \in [Op -> OpState]
    BY <1>0, TruncatedKept
  <2>4. ops' = [cut EXCEPT ![o] = opened] \/ ops' = [ops EXCEPT ![o] = opened]
    BY <2>1
  <2> HIDE DEF opened, cut
  <2>5. ops'[o] = opened
    BY <1>0, <2>3, <2>4
  <2>6. UNCHANGED <<manifests, blobs>>
    BY <1>2, Zenon DEF OpenPartial
  <2>7. ops[o].at \in {"layers", "download"}
    BY <2>1 DEF Opens
  <2> QED BY <1>q, <2>2, <2>5, <2>6, <2>7 DEF Fetching
<1>3. CASE FetchDone(o)
  <2>1. /\ ops[o].at = "download" /\ UNCHANGED manifests
        /\ ops' = [ops EXCEPT ![o] = [@ EXCEPT !.at = "verify", !.file = "gone", !.lost = FALSE]]
    BY <1>3, Zenon DEF FetchDone
  <2>2. ops[o].file = "temp"
    BY <2>1 DEF StoreInv, TaskInv, Doing
  <2>3. UNCHANGED blobs
    BY <1>3, <2>2 DEF FetchDone
  <2>4. ops'[o].at = "verify" /\ ops'[o].manifest = ops[o].manifest
    BY <1>0, <2>1 DEF OpState
  <2> QED BY <1>q, <2>1, <2>3, <2>4 DEF Fetching
<1>4. CASE LayersDone(o)
  <2>1. ops[o].at = "layers" /\ UNCHANGED disk /\ ops' = [ops EXCEPT ![o].at = "write_temp"]
    BY <1>4, Zenon DEF LayersDone, Goto
  <2>2. ops'[o].at = "write_temp" /\ ops'[o].manifest = ops[o].manifest
    BY <1>0, <2>1 DEF OpState
  <2> QED BY <1>q, <2>1, <2>2 DEF disk
<1>5. CASE WriteTemp(o)
  <2>1. /\ ops[o].at = "write_temp" /\ UNCHANGED <<manifests, blobs>>
        /\ ops' = [ops EXCEPT ![o] = [@ EXCEPT !.at = "fill_temp", !.file = "temp"]]
    BY <1>5, Zenon DEF WriteTemp
  <2>2. ops'[o].at = "fill_temp" /\ ops'[o].manifest = ops[o].manifest
    BY <1>0, <2>1 DEF OpState
  <2> QED BY <1>q, <2>1, <2>2
<1>6. CASE FillTemp(o)
  <2>1. /\ ops[o].at = "fill_temp" /\ UNCHANGED blobs
        /\ ops' = [ops EXCEPT ![o] = [@ EXCEPT !.at = "install", !.file = "gone"]]
    BY <1>6, Zenon DEF FillTemp
  <2>2. ops[o].file = "temp"
    BY <2>1 DEF StoreInv, TaskInv, Doing
  <2>3. UNCHANGED manifests
    BY <1>6, <2>2 DEF FillTemp
  <2>4. ops'[o].at = "install" /\ ops'[o].manifest = ops[o].manifest
    BY <1>0, <2>1 DEF OpState
  <2> QED BY <1>q, <2>1, <2>3, <2>4
<1>7. CASE CheckBlob(o)
  <2>1. PICK b \in ops[o].todo :
          \/ ops' = [ops EXCEPT ![o].todo = @ \ {b}]
          \/ ops' = [ops EXCEPT ![o] = [@ EXCEPT !.at = "write_blob", !.blob = b]]
    BY <1>7, ZenonT(60) DEF CheckBlob
  <2>2. ops[o].at = "layers" /\ UNCHANGED <<manifests, blobs>>
    BY <1>7, Zenon DEF CheckBlob, disk
  <2>3. ops'[o].at \in {"layers", "write_blob"} /\ ops'[o].manifest = ops[o].manifest
    <3>1. CASE ops' = [ops EXCEPT ![o].todo = @ \ {b}]
      BY <1>0, <2>2, <3>1 DEF OpState
    <3>2. CASE ops' = [ops EXCEPT ![o] = [@ EXCEPT !.at = "write_blob", !.blob = b]]
      BY <1>0, <3>2 DEF OpState
    <3> QED BY <2>1, <3>1, <3>2
  <2> QED BY <1>q, <2>2, <2>3 DEF Making
<1>8. CASE WriteBlob(o)
  <2>1. /\ ops[o].at = "write_blob" /\ UNCHANGED <<manifests, blobs>>
        /\ ops' = [ops EXCEPT ![o] = [@ EXCEPT !.at = "fill_blob", !.file = "temp"]]
    BY <1>8, Zenon DEF WriteBlob
  <2>2. ops'[o].at = "fill_blob" /\ ops'[o].manifest = ops[o].manifest
    BY <1>0, <2>1 DEF OpState
  <2> QED BY <1>q, <2>1, <2>2 DEF Making
<1>9. CASE FillBlob(o)
  <2>1. /\ ops[o].at = "fill_blob" /\ UNCHANGED manifests
        /\ ops' = [ops EXCEPT ![o] = [@ EXCEPT !.at = "rename_blob", !.file = "gone"]]
    BY <1>9, Zenon DEF FillBlob
  <2>2. ops[o].file = "temp"
    BY <2>1 DEF StoreInv, TaskInv, Doing
  <2>3. UNCHANGED blobs
    BY <1>9, <2>2 DEF FillBlob
  <2>4. ops'[o].at = "rename_blob" /\ ops'[o].manifest = ops[o].manifest
    BY <1>0, <2>1 DEF OpState
  <2> QED BY <1>q, <2>1, <2>3, <2>4 DEF Making
<1> QED BY <1>1, <1>2, <1>3, <1>4, <1>5, <1>6, <1>7, <1>8, <1>9

LEMMA VerifyStep ==
    ASSUME StoreInv, NEW o \in Op, Verify(o) PROVE ShelfStep
<1>0. /\ (\A p \in Op \ {o} : Kept(p)) /\ (Starts(o) \/ Stays(o)) /\ ops[o] \in OpState
      /\ TableInv /\ ops \in [Op -> OpState]
  BY StepKeeps, Known DEF Pull, StoreInv, TableInv, TypeOK
<1>1. ops[o].at = "verify" /\ UNCHANGED <<manifests, blobs>> /\ Stays(o)
  <2>1. ops[o].at = "verify" /\ UNCHANGED <<manifests, blobs>>
    BY Zenon DEF Verify
  <2> QED BY <1>0, <2>1 DEF Starts
<1>2. CASE Goto(o, "rename")
  <2>1. ops'[o].at = "rename" /\ ops'[o].manifest = ops[o].manifest
    BY <1>0, <1>2 DEF Goto, OpState
  <2> QED BY <1>0, <1>1, <2>1, QuietStep DEF Stage, ShelfStep
<1>3. CASE ops' = [Moved(Downloading({ops[o].blob}), TempGone) EXCEPT ![o] = Finished(o)]
  <2>1. Moved(Downloading({ops[o].blob}), TempGone) \in [Op -> OpState]
    BY <1>0, MovedKept
  <2>2. ops'[o] = Finished(o)
    BY <1>3, <2>1
  <2> QED BY <1>0, <1>1, <2>2, EndStep
<1> QED BY <1>2, <1>3 DEF Verify

LEMMA RenameBlobStep ==
    ASSUME StoreInv, NEW o \in Op, RenameBlob(o) PROVE ShelfStep
<1>0. /\ (\A p \in Op \ {o} : Kept(p)) /\ (Starts(o) \/ Stays(o)) /\ ops[o] \in OpState
      /\ TableInv /\ ops \in [Op -> OpState]
  BY StepKeeps, Known DEF Pull, StoreInv, TableInv, TypeOK
<1> DEFINE b == ops[o].blob
           moved == Moved(Downloading({b}), ToFinal)
           B == ops[o].todo \ {b}
<1>1. ops[o].at = "rename" /\ UNCHANGED manifests
  BY Zenon DEF RenameBlob
<1>2. Stays(o) /\ b \in Blob /\ partial[b] = "good"
  BY <1>0, <1>1, Known DEF Starts, StoreInv, TaskInv, Doing, Proper, Fetching, Making
<1>3. /\ blobs' = [blobs EXCEPT ![b] = "good"]
      /\ ops' = [moved EXCEPT ![o] = [@ EXCEPT !.at = "layers", !.todo = B, !.blob = None]]
  BY <1>2 DEF RenameBlob
<1>4. moved \in [Op -> OpState] /\ moved[o].manifest = ops[o].manifest
  BY <1>0, MovedKept
<1> HIDE DEF moved, B
<1>5. ops'[o].at = "layers" /\ ops'[o].manifest = ops[o].manifest
  BY <1>3, <1>4 DEF OpState
<1>6. Stage(ops'[o]) = Stage(ops[o])
  BY <1>1, <1>5 DEF Stage
<1> HIDE DEF b
<1> QED BY <1>0, <1>1, <1>2, <1>3, <1>5, <1>6, BlobStep

LEMMA PutBlobStep ==
    ASSUME StoreInv, NEW o \in Op, PutBlob(o) PROVE ShelfStep
<1>0. /\ (\A p \in Op \ {o} : Kept(p)) /\ (Starts(o) \/ Stays(o)) /\ ops[o] \in OpState
      /\ TableInv /\ ops \in [Op -> OpState]
  BY StepKeeps, Known DEF Make, StoreInv, TableInv, TypeOK
<1> DEFINE b == ops[o].blob
           moved == Moved(Filling(b), ToFinal)
           B == ops[o].todo \ {b}
<1>1. ops[o].at = "rename_blob" /\ UNCHANGED manifests
  BY Zenon DEF PutBlob
<1>2. Stays(o) /\ b \in Blob /\ made[b] = "good"
  BY <1>0, <1>1, Known DEF Starts, StoreInv, TaskInv, Doing, Proper, Fetching, Making
<1>3. /\ blobs' = [blobs EXCEPT ![b] = "good"]
      /\ ops' = [moved EXCEPT ![o] = [@ EXCEPT !.at = "layers", !.todo = B, !.blob = None]]
  BY <1>2 DEF PutBlob
<1>4. moved \in [Op -> OpState] /\ moved[o].manifest = ops[o].manifest
  BY <1>0, MovedKept
<1> HIDE DEF moved, B
<1>5. ops'[o].at = "layers" /\ ops'[o].manifest = ops[o].manifest
  BY <1>3, <1>4 DEF OpState
<1>6. Stage(ops'[o]) = Stage(ops[o])
  BY <1>1, <1>5 DEF Stage
<1> HIDE DEF b
<1> QED BY <1>0, <1>1, <1>2, <1>3, <1>5, <1>6, BlobStep

\* A call that a pull given up left to come changes no claim: at most it puts in place
\* the blob the pull had verified.
LEMMA LateStep ==
    ASSUME StoreInv, NEW b \in Blob, Late(b) PROVE ShelfStep
<1>1. (\A p \in Op : Kept(p)) /\ TableInv
  BY LateKept DEF StoreInv
<1>2. Claims' = Claims
  <2>1. \A p \in Op : Claim(ops'[p]) = Claim(ops[p])
    BY <1>1 DEF Kept, Claim, Stage
  <2>2. \A n \in Name : Writers(n)' = Writers(n) /\ Writers(n) \subseteq Op
    BY <1>1 DEF Kept, Writers
  <2>3. \A n \in Name : {Claim(ops'[p]) : p \in Writers(n)'} = {Claim(ops[p]) : p \in Writers(n)}
    BY <2>1, <2>2
  <2>4. \A n \in Name : ClaimsOn(n)' = ClaimsOn(n)
    BY <2>3 DEF ClaimsOn
  <2> QED BY <2>4 DEF Claims
<1>3. UNCHANGED manifests
  BY Zenon DEF Late, LateOpen, LateRename, LateRemove
<1>4. UNCHANGED blobs \/ blobs' = [blobs EXCEPT ![b] = "good"]
  <2>1. LateOpen(b) \/ LateRemove(b) => UNCHANGED blobs
    BY Zenon DEF LateOpen, LateRemove
  <2>2. LateRename(b) => UNCHANGED blobs \/ blobs' = [blobs EXCEPT ![b] = partial[b]]
    BY Zenon DEF LateRename
  <2>3. LateRename(b) => partial[b] = "good"
    BY Zenon DEF LateRename, StoreInv, LateInv
  <2> QED BY <2>1, <2>2, <2>3 DEF Late
<1>5. CASE UNCHANGED blobs
  BY <1>2, <1>3, <1>5 DEF ShelfStep, Shelf!vars, Whole
<1>6. CASE blobs' = [blobs EXCEPT ![b] = "good"]
  BY <1>1, <1>2, <1>3, <1>6, KeepsStep
<1> QED BY <1>4, <1>5, <1>6

\* A pull or a create that fails, or has nothing to begin with.
LEMMA FailsStep ==
    ASSUME TableInv, NEW o \in Op,
           PullStops(o) \/ PullAbandons(o) \/ CreateFails(o) \/ WriteFails(o)
    PROVE  ShelfStep
<1>1. (\A p \in Op \ {o} : Kept(p)) /\ (Starts(o) \/ Stays(o)) /\ ops \in [Op -> OpState]
  BY StepKeeps DEF Pull, Make, Write, TableInv, TypeOK
<1>2. Finish(o) /\ UNCHANGED <<manifests, blobs>>
  BY Zenon DEF PullStops, PullAbandons, CreateFails, WriteFails, disk
<1>3. ops[o].at \notin {"idle", "release"}
  <2>1. CASE PullStops(o)
    BY <2>1 DEF PullStops
  <2>2. CASE PullAbandons(o)
    <3>1. (\E b \in Blob : Opens(o, b)) \/ ops[o].at \in {"rename", "verify"}
      BY <2>2, ZenonT(60) DEF PullAbandons
    <3> QED BY <3>1 DEF Opens
  <2>3. CASE CreateFails(o) \/ WriteFails(o)
    BY <2>3 DEF CreateFails, WriteFails, Making, Installing
  <2> QED BY <2>1, <2>2, <2>3
<1>4. ops'[o] = Finished(o)
  BY <1>1, <1>2 DEF Finish
<1> QED BY <1>1, <1>2, <1>3, <1>4, EndStep DEF Starts

LEMMA ReleaseStep ==
    ASSUME TableInv, NEW o \in Op, Release(o) PROVE Shelf!Next
<1>1. (\A p \in Op \ {o} : Kept(p)) /\ ops \in [Op -> OpState]
  BY StepKeeps DEF Write, TableInv, TypeOK
<1>2. /\ ops[o].at = "release" /\ ops[o].kind \in Claimed /\ ops'[o].at = "idle"
      /\ UNCHANGED manifests /\ Whole' = Whole
  BY <1>1, Known DEF Release, RightKind, Idle, disk, Whole
<1>3. PICK n \in Name : n = ops[o].name /\ Claims[n] = {Claim(ops[o])}
  BY <1>2, ClaimOf
<1>4. Claims' = [Claims EXCEPT ![n] = {}]
  BY <1>1, <1>2, <1>3, ClaimEnds
<1>5. Claim(ops[o]).stage = "over"
  BY <1>2 DEF Claim, Stage
<1>6. Shelf!Leaves(n, Claim(ops[o]))
  BY <1>2, <1>4, <1>5 DEF Shelf!Leaves
<1> QED BY <1>3, <1>6 DEF Shelf!Next

\* Beside a task that runs alone nobody has a claim.
LEMMA AloneClaims ==
    ASSUME TableInv, NEW o \in Op, ops[o].kind \notin Claimed,
           \A p \in Op \ {o} : ops[p].at = "idle"
    PROVE  \A n \in Name : Claims[n] = {}
<1>1. \A n \in Name : Writers(n) = {}
  BY DEF Writers
<1>2. {Claim(ops[p]) : p \in {}} = {}
  OBVIOUS
<1>3. \A n \in Name : ClaimsOn(n) = {}
  BY <1>1, <1>2, Zenon DEF ClaimsOn
<1> QED BY <1>3, Zenon DEF Claims

LEMMA InstallStep ==
    ASSUME StoreInv, AskedInv, Apart, NEW o \in Op, Install(o) PROVE ShelfStep
<1>0. /\ (\A p \in Op \ {o} : Kept(p)) /\ (Starts(o) \/ Stays(o)) /\ ops[o] \in OpState
      /\ TableInv /\ ops \in [Op -> OpState]
  BY StepKeeps, Known DEF Write, StoreInv, TableInv, TypeOK
<1> DEFINE m == ops[o].manifest
<1>1. PICK n \in Name : n = ops[o].name
  BY <1>0, Known DEF Install, Proper
<1>2. /\ ops[o].at = "install" /\ Stays(o) /\ Whole' = Whole
      /\ m \in Manifest /\ temp[n] = m /\ BlobsOf[m] \subseteq Whole
  <2>1. ops[o].at = "install" /\ Stays(o) /\ Whole' = Whole
    BY <1>0 DEF Install, Starts, Whole
  <2>2. m \in Manifest /\ temp[n] = m
    BY <1>0, <1>1, <2>1, Known DEF StoreInv, TaskInv, Doing, Proper, Installing, Making
  <2>3. \A b \in BlobsOf[m] : blobs[b] = "good"
    BY <2>1 DEF StoreInv, TaskInv, Doing, Bringing, Fetching, Installing, Making
  <2> QED BY <2>1, <2>2, <2>3, StoreAssumption DEF Whole
<1>3. m # None
  BY <1>2, StoreAssumption
<1>4. /\ manifests' = [manifests EXCEPT ![n] = m]
      /\ ops' = [Moved(Writing(n), ToFinal) EXCEPT ![o] = Finished(o)]
  BY <1>1, <1>2, <1>3 DEF Install
<1>5. ops'[o] = Finished(o)
  <2>1. Moved(Writing(n), ToFinal) \in [Op -> OpState]
    BY <1>0, MovedKept
  <2> QED BY <1>4, <2>1
<1>6. CASE ops[o].kind \in Claimed
  <2>2. ops'[o].at = "release" /\ Same(ops'[o], ops[o]) /\ ops'[o].manifest = m
    BY <1>0, <1>5, <1>6, ReleasedAs
  <2>3. /\ Claim(ops'[o]) = [Claim(ops[o]) EXCEPT !.stage = "over"]
        /\ Claim(ops[o]).stage = "brings" /\ Claim(ops[o]).model = m
    BY <1>2, <2>2, ClaimOver DEF Claim, Stage
  <2>4. Claims[n] = {Claim(ops[o])}
    BY <1>0, <1>1, <1>2, <1>6, ClaimOf
  <2>5. Claims' = [Claims EXCEPT ![n] = {[Claim(ops[o]) EXCEPT !.stage = "over"]}]
    BY <1>0, <1>1, <1>2, <1>6, <2>2, <2>3, ClaimGoesOn
  <2>6. Shelf!Publishes(n, Claim(ops[o]))
    BY <1>2, <1>4, <2>3, <2>5 DEF Shelf!Publishes
  <2> QED BY <2>4, <2>6 DEF ShelfStep, Shelf!Next
<1>7. CASE ops[o].kind \notin Claimed
  <2>1. ops[o].kind = "copy"
    BY <1>0, <1>2, <1>7, Known DEF RightKind, OpState, Kind, Claimed, Installing, Making
  <2>2. /\ <<ops[o].from, n>> \in Copies /\ m = manifests[ops[o].from]
    BY <1>1, <1>2, <2>1 DEF AskedInv, Installing, Making
  <2>3. \A k \in Name : Claims[k] = {}
    BY <1>0, <1>2, <1>7, <2>1, CopyAlone, AloneClaims
  <2>4. Claims' = Claims
    <3>1. ops'[o].at = "idle"
      BY <1>5, <1>7 DEF Finished, Idle
    <3> QED BY <1>0, <1>7, <3>1, ClaimsUnseen
  <2>5. Shelf!CopiesTo(ops[o].from, n)
    BY <1>2, <1>3, <1>4, <2>2, <2>3, <2>4 DEF Shelf!CopiesTo
  <2> QED BY <2>2, <2>5 DEF ShelfStep, Shelf!Next
<1> QED BY <1>6, <1>7

\* A create finds its FROM, or it fails; a copy finds its source, or it is over.
LEMMA ReadFromStep ==
    ASSUME StoreInv, NEW o \in Op, ReadFrom(o) PROVE ShelfStep
<1>0. /\ (\A p \in Op \ {o} : Kept(p)) /\ (Starts(o) \/ Stays(o)) /\ ops[o] \in OpState
      /\ TableInv /\ ops \in [Op -> OpState]
  BY StepKeeps, Known DEF Make, StoreInv, TableInv, TypeOK
<1> DEFINE m == manifests[ops[o].from]
           d == Derived[m]
           B == BlobsOf[d] \ BlobsOf[m]
<1>1. /\ ops[o].at = "read" /\ UNCHANGED <<manifests, blobs>> /\ Whole' = Whole /\ Stays(o)
      /\ ops[o].from \in Name
  BY <1>0, Known DEF ReadFrom, disk, Whole, Starts, Proper
<1>2. \/ Finish(o)
      \/ /\ m \in Manifest /\ ops[o].kind = "create"
         /\ ops' = [ops EXCEPT ![o] = [@ EXCEPT !.at = "layers", !.manifest = d, !.todo = B]]
      \/ /\ m \in Manifest /\ ops[o].kind = "copy"
         /\ ops' = [ops EXCEPT ![o] = [@ EXCEPT !.at = "write_temp", !.manifest = m]]
  BY DEF ReadFrom
<1> HIDE DEF d, B
<1>3. CASE Finish(o)
  <2>1. ops'[o] = Finished(o)
    BY <1>0, <1>3 DEF Finish
  <2> QED BY <1>0, <1>1, <2>1, EndStep
<1>4. CASE /\ m \in Manifest /\ ops[o].kind = "create"
           /\ ops' = [ops EXCEPT ![o] = [@ EXCEPT !.at = "layers", !.manifest = d, !.todo = B]]
  <2>1. ops'[o].at = "layers" /\ ops'[o].manifest = d /\ Same(ops'[o], ops[o])
    BY <1>0, <1>4 DEF OpState, Same
  <2>2. Stage(ops[o]) = "asked" /\ Stage(ops'[o]) = "brings"
    BY <1>1, <2>1 DEF Stage
  <2>3. Claim(ops'[o]) = [Claim(ops[o]) EXCEPT !.model = d, !.stage = "brings"]
    <3>1. Claim(ops'[o]) = [kind |-> ops[o].kind, key |-> ops[o].key, from |-> ops[o].from,
                            model |-> d, stage |-> "brings"]
      BY <2>1, <2>2 DEF Claim, Same
    <3>2. [Claim(ops[o]) EXCEPT !.model = d, !.stage = "brings"] =
           [kind |-> ops[o].kind, key |-> ops[o].key, from |-> ops[o].from,
            model |-> d, stage |-> "brings"]
      BY ClaimBrings, Zenon
    <3> QED BY <3>1, <3>2, Zenon
  <2>4. /\ Claim(ops[o]).stage = "asked" /\ Claim(ops[o]).kind = "create"
        /\ Claim(ops[o]).from = ops[o].from
    BY <1>4, <2>2 DEF Claim
  <2>5. PICK n \in Name : n = ops[o].name /\ Claims[n] = {Claim(ops[o])}
    BY <1>0, <1>1, <1>4, ClaimOf DEF Claimed
  <2>6. Claims' = [Claims EXCEPT ![n] = {Claim(ops'[o])}]
    BY <1>0, <1>1, <1>4, <2>1, <2>5, ClaimGoesOn DEF Claimed
  <2>7. m # None
    BY <1>4, StoreAssumption
  <2>8. Shelf!Brings(n, Claim(ops[o]), d)
    BY <1>1, <2>3, <2>4, <2>6 DEF Shelf!Brings
  <2>9. Shelf!BringsDerived(n, Claim(ops[o]))
    BY <2>4, <2>7, <2>8 DEF Shelf!BringsDerived, d
  <2> QED BY <2>5, <2>9 DEF ShelfStep, Shelf!Next
<1>5. CASE /\ m \in Manifest /\ ops[o].kind = "copy"
           /\ ops' = [ops EXCEPT ![o] = [@ EXCEPT !.at = "write_temp", !.manifest = m]]
  <2>1. ops[o].kind \notin Claimed /\ ops'[o].kind \notin Claimed
    BY <1>0, <1>5 DEF OpState, Claimed
  <2> QED BY <1>0, <1>1, <2>1, UnseenStep DEF ShelfStep
<1> QED BY <1>2, <1>3, <1>4, <1>5

LEMMA CopyStartStep ==
    ASSUME TableInv, NEW o \in Op, CopyStart(o) \/ DeleteStart(o) PROVE UNCHANGED Shelf!vars
<1>0. (\A p \in Op \ {o} : Kept(p)) /\ ops \in [Op -> OpState]
  BY StepKeeps DEF Make, Delete, TableInv, TypeOK
<1>1. UNCHANGED disk /\ ops[o].at = "idle"
  BY Zenon DEF CopyStart, DeleteStart
<1>2. CopyStart(o) => ops'[o].kind = "copy"
  <2> SUFFICES ASSUME CopyStart(o) PROVE ops'[o].kind = "copy"
    OBVIOUS
  <2>1. PICK c \in Copies :
          /\ ~Busy(c[2])
          /\ ops' = [ops EXCEPT ![o] = [Idle EXCEPT !.at = "read", !.kind = "copy",
                                                    !.name = c[2], !.from = c[1]]]
    BY Zenon DEF CopyStart
  <2> QED BY <1>0, <2>1 DEF Idle
<1>3. DeleteStart(o) => ops'[o].kind = "delete"
  <2> SUFFICES ASSUME DeleteStart(o) PROVE ops'[o].kind = "delete"
    OBVIOUS
  <2>1. PICK n \in Deletes :
          /\ ~Busy(n)
          /\ ops' = [ops EXCEPT ![o] = [Idle EXCEPT !.at = "remove", !.kind = "delete",
                                                    !.name = n]]
    BY Zenon DEF DeleteStart
  <2> QED BY <1>0, <2>1 DEF Idle
<1> QED BY <1>0, <1>1, <1>2, <1>3, UnseenStep DEF disk, Claimed

\* A delete removes the model at once; what it prunes no model needs.
LEMMA RemoveStep ==
    ASSUME StoreInv, AskedInv, Apart, NEW o \in Op, RemoveManifest(o) PROVE ShelfStep
<1>0. /\ (\A p \in Op \ {o} : Kept(p)) /\ (Starts(o) \/ Stays(o))
      /\ TableInv /\ ops \in [Op -> OpState]
  BY StepKeeps DEF Delete, StoreInv, TableInv, TypeOK
<1>1. /\ ops[o].at = "remove" /\ ops[o].kind = "delete" /\ ops[o].kind \notin Claimed
      /\ Whole' = Whole /\ Stays(o) /\ ops[o].name \in Deletes
  BY <1>0, Known DEF RemoveManifest, RightKind, Whole, Starts, Claimed, AskedInv
<1>2. Claims' = Claims
  BY <1>0, <1>1, ClaimsUnseen DEF Stays, Same
<1>3. CASE UNCHANGED manifests
  BY <1>1, <1>2, <1>3 DEF ShelfStep, Shelf!vars
<1>4. CASE manifests[ops[o].name] # None /\ manifests' = [manifests EXCEPT ![ops[o].name] = None]
  <2>1. \A n \in Name : Claims[n] = {}
    BY <1>0, <1>1, DeleteAlone, AloneClaims
  <2>2. Shelf!Removes(ops[o].name)
    BY <1>1, <1>2, <1>4, <2>1, StoreAssumption DEF Shelf!Removes
  <2> QED BY <1>1, <2>2 DEF ShelfStep, Shelf!Next
<1> QED BY <1>3, <1>4 DEF RemoveManifest

LEMMA PruneBlobStep ==
    ASSUME StoreInv, NEW o \in Op, PruneBlob(o) PROVE ShelfStep
<1>0. /\ (\A p \in Op \ {o} : Kept(p)) /\ (Starts(o) \/ Stays(o)) /\ ops[o] \in OpState
      /\ TableInv /\ ops \in [Op -> OpState]
  BY StepKeeps, Known DEF Delete, StoreInv, TableInv, TypeOK
<1>1. /\ ops[o].at = "sweep" /\ ops[o].kind = "delete" /\ ops[o].kind \notin Claimed
      /\ UNCHANGED manifests /\ Stays(o)
  <2>1. ops[o].at = "sweep" /\ UNCHANGED manifests
    BY Zenon DEF PruneBlob
  <2> QED BY <1>0, <2>1, Known DEF RightKind, Starts, Claimed
<1>2. Claims' = Claims
  BY <1>0, <1>1, ClaimsUnseen DEF Stays, Same
<1>3. CASE UNCHANGED blobs
  BY <1>1, <1>2, <1>3 DEF ShelfStep, Shelf!vars, Whole
<1>4. ASSUME NEW b \in ops[o].todo, blobs[b] # "absent", blobs' = [blobs EXCEPT ![b] = "absent"]
      PROVE  ShelfStep
  <2>1. b \in Blob /\ blobs[b] = "good"
    BY <1>0, <1>4 DEF OpState, StoreInv, BlobsVerified
  <2>2. b \in Whole /\ Whole' = Whole \ {b}
    BY <1>0, <1>4, <2>1 DEF Whole, TableInv, TypeOK, DiskOK
  <2>3. ~Shelf!Needs(b)
    BY <1>1 DEF Shelf!Needs, StoreInv, TaskInv, Doing
  <2>4. Shelf!Drops(b)
    BY <1>1, <1>2, <2>2, <2>3 DEF Shelf!Drops
  <2> QED BY <2>1, <2>4 DEF ShelfStep, Shelf!Next
<1>5. \/ UNCHANGED blobs
      \/ \E b \in ops[o].todo : blobs[b] # "absent" /\ blobs' = [blobs EXCEPT ![b] = "absent"]
  BY ZenonT(60) DEF PruneBlob
<1> QED BY <1>3, <1>4, <1>5

LEMMA ListStep ==
    ASSUME TableInv, NEW o \in Op, ListToPrune(o) \/ Prune(o) PROVE UNCHANGED Shelf!vars
<1>0. (\A p \in Op \ {o} : Kept(p)) /\ (Starts(o) \/ Stays(o))
  BY StepKeeps DEF Delete
<1>1. ops[o].at \in {"list", "prune"} /\ UNCHANGED <<manifests, blobs>>
  BY DEF ListToPrune, Prune, disk
<1>2. ops[o].kind \notin Claimed
  BY <1>1, Known DEF RightKind, Claimed
<1>3. Stays(o)
  BY <1>0, <1>1 DEF Starts
<1>4. ops'[o].at = "idle" \/ ops'[o].kind \notin Claimed
  BY <1>2, <1>3 DEF Stays, Same
<1> QED BY <1>0, <1>1, <1>2, <1>4, UnseenStep

LEMMA InitShelf == Init => Shelf!Init
<1> SUFFICES ASSUME Init PROVE Shelf!Init
  OBVIOUS
<1>1. manifests = Installed
  BY DEF Init
<1>2. Whole = {b \in Blob : Shelf!Needs(b)}
  <2>1. \A b \in Blob : blobs[b] = "good" <=>
                          \E n \in Name : Installed[n] # None /\ b \in BlobsOf[Installed[n]]
    BY DEF Init
  <2>2. \A b \in Blob : blobs[b] = "good" <=> Shelf!Needs(b)
    BY <1>1, <2>1, Zenon DEF Shelf!Needs
  <2> QED BY <2>2, Zenon DEF Whole
<1>a. \A o \in Op : ops[o].at = "idle"
  BY DEF Init, Idle
<1>3. \A n \in Name : Writers(n) = {}
  BY <1>a DEF Writers
<1>4. {Claim(ops[p]) : p \in {}} = {}
  OBVIOUS
<1>5. \A n \in Name : ClaimsOn(n) = {}
  BY <1>3, <1>4, Zenon DEF ClaimsOn
<1>6. Claims = [n \in Name |-> {}]
  BY <1>5 DEF Claims
<1> QED BY <1>1, <1>2, <1>6 DEF Shelf!Init

LEMMA CrashStep == ASSUME Crash PROVE Shelf!Next
<1>1. \A n \in Name : Writers(n)' = {}
  BY DEF Crash, Writers, Idle
<1>2. {Claim(ops'[p]) : p \in {}} = {}
  OBVIOUS
<1>3. \A n \in Name : ClaimsOn(n)' = {}
  BY <1>1, <1>2, Zenon DEF ClaimsOn
<1>4. Claims' = [n \in Name |-> {}]
  BY <1>3 DEF Claims
<1>5. Shelf!Dies
  BY <1>4 DEF Crash, Shelf!Dies, Whole
<1> QED BY <1>5 DEF Shelf!Next

LEMMA StepShelf ==
    ASSUME StoreInv, AskedInv, Apart, [Next]_vars PROVE [Shelf!Next]_(Shelf!vars)
<1> SUFFICES ShelfStep
  BY DEF ShelfStep
<1>0. TableInv
  BY DEF StoreInv
<1>1. CASE UNCHANGED vars
  BY <1>1 DEF vars, ShelfStep, Shelf!vars, Whole, Claims, ClaimsOn, Writers
<1>2. ASSUME NEW o \in Op, Pull(o) PROVE ShelfStep
  BY <1>0, <1>2, StartStep, FetchManifestStep, FailsStep, FetchingStep, VerifyStep,
     RenameBlobStep DEF Pull, ShelfStep
<1>3. ASSUME NEW o \in Op, Write(o) PROVE ShelfStep
  BY <1>0, <1>3, FetchingStep, InstallStep, FailsStep, ReleaseStep DEF Write, ShelfStep
<1>4. ASSUME NEW o \in Op, Make(o) PROVE ShelfStep
  BY <1>0, <1>4, StartStep, CopyStartStep, ReadFromStep, FetchingStep, PutBlobStep,
     FailsStep DEF Make, ShelfStep
<1>5. ASSUME NEW o \in Op, Delete(o) PROVE ShelfStep
  BY <1>0, <1>5, CopyStartStep, RemoveStep, ListStep, PruneBlobStep DEF Delete, ShelfStep
<1>6. CASE Crash
  BY <1>6, CrashStep DEF ShelfStep
<1>7. ASSUME NEW b \in Blob, Late(b) PROVE ShelfStep
  BY <1>7, LateStep
<1> QED BY <1>1, <1>2, <1>3, <1>4, <1>5, <1>6, <1>7 DEF Next

\* Every run of the store, for any number of tasks, names and blobs, through failures and
\* crashes at any step, is a run of Shelf: while deletes and copies meet no other task and
\* no two tasks bring one missing blob at a time, a model comes, is replaced and goes at once and
\* whole, by whoever claimed its name, as the model asked for; no blob goes that one needs.
THEOREM StoreImplements == Spec /\ []Apart => OnShelf
<1>1. Init => StoreInv /\ AskedInv /\ Shelf!Init
  <2>1. Init => AskedInv
    BY DEF Init, Idle, AskedInv
  <2> QED BY <2>1, InitStore, InitShelf
<1>2. StoreInv /\ AskedInv /\ Apart /\ Apart' /\ [Next]_vars => (StoreInv /\ AskedInv)'
  BY StepStore, StepAsked
<1>3. StoreInv /\ AskedInv /\ Apart /\ [Next]_vars => [Shelf!Next]_(Shelf!vars)
  BY StepShelf
<1> QED BY <1>1, <1>2, <1>3, PTL DEF Spec, OnShelf, Shelf!Spec

=============================================================================
