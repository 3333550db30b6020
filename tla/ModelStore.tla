----------------------------- MODULE ModelStore -----------------------------
(***************************************************************************)
(* The local model store and the operations of the daemon on it: pull,     *)
(* create, copy and delete, each a task of its own on a multi-threaded     *)
(* runtime.                                                                *)
(*                                                                         *)
(* The disk holds manifests (one file per name), blobs (shared by the      *)
(* manifests that name them), one partial file per blob being downloaded   *)
(* and one temporary file per manifest, and per blob, being written.  A    *)
(* rename moves the file another task may still be writing, so a writer    *)
(* remembers where the file it opened is now.  A pull given up does not    *)
(* take back the file operation it waited for, which may come later.  The  *)
(* daemon may die between any two steps; the disk stays.                   *)
(*                                                                         *)
(* Each step is one file operation, except the two directory scans (the    *)
(* list of the manifests, that of the blobs), which are one step each.     *)
(* Sizes matter only in that a file of the right size may be wrong.        *)
(* Routers, which pull the models they route to as well, are left out.     *)
(***************************************************************************)
CONSTANTS
    Name,        \* manifest files: canonical names without their digest
    Manifest,    \* manifests, by digest
    Blob,        \* blobs, by digest
    Op,          \* tasks: pulls, and requests that create, copy or delete
    None,        \* no name, manifest, blob or pull
    Half,        \* a manifest file cut short
    BlobsOf,     \* the blobs a manifest names
    Offers,      \* the manifests the registry may serve for a name
    Derived,     \* what a create makes of the manifest of its FROM
    Pulls,       \* bounds: the names pulled,
    Pinned,      \* <<name, digest>> of the pulls by digest,
    Creates,     \* <<name, FROM>> of the creates,
    Copies,      \* <<source, destination>> of the copies,
    Deletes,     \* the names deleted,
    MayCrash,    \* whether the daemon may die
    Installed    \* the models in the store at first

ASSUME StoreAssumption ==
    /\ BlobsOf \in [Manifest -> SUBSET Blob]
    /\ Offers \in [Name -> SUBSET Manifest]
    /\ Derived \in [Manifest -> Manifest]
    /\ Pulls \subseteq Name /\ Pinned \subseteq Name \X Manifest /\ Deletes \subseteq Name
    /\ Creates \subseteq Name \X Name /\ Copies \subseteq Name \X Name
    /\ MayCrash \in BOOLEAN
    /\ Installed \in [Name -> Manifest \cup {None}]
    /\ None \notin Manifest \cup Blob \cup Name \cup {Half, "tag"}
    /\ Half \notin Manifest

VARIABLES
    manifests, \* the manifest file of each name
    blobs,     \* the content of each blob file
    partial,   \* the content of each partial download
    temp,      \* the temporary manifest file of each name
    stale,     \* temporary manifest files a dead daemon left
    made,      \* the content of the temporary file of each blob written here
    late,      \* the file operations that pulls given up left to the thread pool
    pulls,     \* Ollaya::pulls: the key of the pull in flight for each name
    creating,  \* Ollaya::creating
    ops        \* the tasks

\* The files, and what is still to come to them whatever the tasks do.
disk == <<manifests, blobs, partial, temp, stale, made, late>>
vars == <<manifests, blobs, partial, temp, stale, made, late, pulls, creating, ops>>

-----------------------------------------------------------------------------
(* The content of a file: "short" and "wrong" are not what the digest says, *)
(* and "wrong" has the right size.                                          *)
Content == {"absent", "short", "wrong", "good"}

\* The key of a pull: the digest its name is pinned to, or the tag alone.
Key == Manifest \cup {"tag"}

Kind == {"pull", "create", "copy", "delete"}
Claimed == {"pull", "create"}
Points == {"idle", "fetch_manifest", "layers", "download", "verify", "rename",
           "read", "write_blob", "fill_blob", "rename_blob",
           "write_temp", "fill_temp", "install", "remove", "list",
           "prune", "sweep", "release"}

Fetching   == {"download", "verify", "rename"}
Making     == {"write_blob", "fill_blob", "rename_blob"}
Bringing   == {"layers"} \cup Fetching \cup Making
Installing == {"write_temp", "fill_temp", "install"}

\* What a dropped future leaves to the thread pool: opening the partial file anew,
\* putting it in place, removing it.
Call == {"open", "rename", "remove"}

\* A task: where it is, what it is asked, the manifest it writes, the blobs it
\* still has to bring (or, pruning, to keep, then to remove), the temporary blobs it
\* still has to remove, the blob it downloads or writes, where the file it opened is
\* now, and whether another task truncated that file since.
OpState ==
    [at : Points, kind : Kind, name : Name \cup {None}, key : Key,
     from : Name \cup {None}, manifest : Manifest \cup {None},
     todo : SUBSET Blob, temps : SUBSET Blob, blob : Blob \cup {None},
     file : {"temp", "final", "gone"}, lost : BOOLEAN]

Idle == [at |-> "idle", kind |-> "pull", name |-> None, key |-> "tag", from |-> None,
         manifest |-> None, todo |-> {}, temps |-> {}, blob |-> None, file |-> "gone",
         lost |-> FALSE]

DiskOK ==
    /\ manifests \in [Name -> Manifest \cup {None, Half}]
    /\ blobs \in [Blob -> Content]
    /\ partial \in [Blob -> Content]
    /\ temp \in [Name -> Manifest \cup {None, Half}]
    /\ stale \subseteq Manifest \cup {Half}
    /\ made \in [Blob -> {"absent", "short", "good"}]
    /\ late \subseteq Blob \X Call

\* What a task at some point is sure to remember.
Proper(s) ==
    /\ s.at # "idle" => s.name \in Name
    /\ s.at = "read" => s.from \in Name
    /\ s.at \in Bringing \cup Installing => s.manifest \in Manifest
    /\ s.at \in Fetching \cup Making => s.blob \in Blob

TypeOK ==
    /\ DiskOK
    /\ pulls \in [Name -> Key \cup {None}]
    /\ creating \subseteq Name
    /\ ops \in [Op -> OpState]
    /\ \A o \in Op : Proper(ops[o])

Init ==
    /\ manifests = Installed
    /\ blobs = [b \in Blob |->
                 IF \E n \in Name : Installed[n] # None /\ b \in BlobsOf[Installed[n]]
                 THEN "good" ELSE "absent"]
    /\ partial = [b \in Blob |-> "absent"]
    /\ temp = [n \in Name |-> None]
    /\ stale = {}
    /\ made = [b \in Blob |-> "absent"]
    /\ late = {}
    /\ pulls = [n \in Name |-> None]
    /\ creating = {}
    /\ ops = [o \in Op |-> Idle]

-----------------------------------------------------------------------------
(* Helpers *)

Busy(n) == pulls[n] # None \/ n \in creating

\* Present with the expected size.
HasBlob(b) == blobs[b] \in {"wrong", "good"}

\* The manifests Store::list reads, temporary files included; none when one of
\* them does not parse.
Files == {manifests[n] : n \in Name} \cup {temp[n] : n \in Name} \cup stale
ListFails == Half \in Files
Listed == Files \ {None, Half}

\* Task o goes to p, with what it remembers changed.
Goto(o, p) == ops' = [ops EXCEPT ![o].at = p]

\* The end of an operation, successful or not.
Finished(o) ==
    IF ops[o].kind \in Claimed
    THEN [ops[o] EXCEPT !.at = "release", !.todo = {}, !.blob = None, !.file = "gone", !.lost = FALSE]
    ELSE Idle
Finish(o) == ops' = [ops EXCEPT ![o] = Finished(o)]

\* The file of the writers W moved as the map from where it was says.
Moved(W, map) == [p \in Op |-> IF p \in W THEN [ops[p] EXCEPT !.file = map[@]] ELSE ops[p]]
ToFinal   == [temp |-> "final", final |-> "gone", gone |-> "gone"]
TempGone  == [temp |-> "gone", final |-> "final", gone |-> "gone"]
FinalGone == [temp |-> "temp", final |-> "gone", gone |-> "gone"]
Downloading(B) == {p \in Op : ops[p].at = "download" /\ ops[p].blob \in B}
Writing(n) == {p \in Op : ops[p].at = "fill_temp" /\ ops[p].name = n}
Filling(b) == {p \in Op : ops[p].at = "fill_blob" /\ ops[p].blob = b}

\* Pull o may open the partial file of b: to bring it, or once more.
Opens(o, b) ==
    \/ ops[o].kind = "pull" /\ ops[o].at = "layers" /\ b \in ops[o].todo /\ ~HasBlob(b)
    \/ ops[o].at = "download" /\ b = ops[o].blob

\* What those writing the partial file of b have when it is truncated.
Truncated(b) ==
    [p \in Op |-> IF p \in Downloading({b}) /\ ops[p].file = "temp"
                  THEN [ops[p] EXCEPT !.lost = TRUE] ELSE ops[p]]

-----------------------------------------------------------------------------
(* Ollaya::pull, Puller::pull_one *)

\* Fault: a create in progress is not looked at.
PullStartUnchecked(o) ==
    /\ ops[o].at = "idle"
    /\ \E n \in Pulls, k \in {"tag"} \cup Manifest :
          /\ k # "tag" => <<n, k>> \in Pinned
          /\ pulls[n] = None
          /\ pulls' = [pulls EXCEPT ![n] = k]
          /\ ops' = [ops EXCEPT ![o] = [Idle EXCEPT !.at = "fetch_manifest", !.name = n, !.key = k]]
    /\ UNCHANGED <<disk, creating>>

\* A pull claims its name unless one in flight is joined or the name is busy.
PullStart(o) ==
    /\ ops[o].at = "idle"
    /\ \E n \in Pulls, k \in {"tag"} \cup Manifest :
          /\ k # "tag" => <<n, k>> \in Pinned
          /\ ~Busy(n)
          /\ pulls' = [pulls EXCEPT ![n] = k]
          /\ ops' = [ops EXCEPT ![o] = [Idle EXCEPT !.at = "fetch_manifest", !.name = n, !.key = k]]
    /\ UNCHANGED <<disk, creating>>

\* Fault: a manifest pulled by digest is not compared with it.
FetchManifestUnchecked(o) ==
    /\ ops[o].at = "fetch_manifest"
    /\ \E m \in Offers[ops[o].name] :
          ops' = [ops EXCEPT ![o] = [@ EXCEPT !.at = "layers", !.manifest = m,
                                             !.todo = BlobsOf[m]]]
    /\ UNCHANGED <<disk, pulls, creating>>

\* Whatever the tag holds in the registry now, or the manifest the digest names.
FetchManifest(o) ==
    /\ ops[o].at = "fetch_manifest"
    /\ \E m \in Offers[ops[o].name] :
          /\ ops[o].key \in {"tag", m}
          /\ ops' = [ops EXCEPT ![o] = [@ EXCEPT !.at = "layers", !.manifest = m,
                                                 !.todo = BlobsOf[m]]]
    /\ UNCHANGED <<disk, pulls, creating>>

\* The pull fails - no connection, retries used up, a model that cannot run here -
\* or no client waits for it anymore: its future is dropped where it waits.
PullStops(o) ==
    /\ ops[o].kind = "pull"
    /\ ops[o].at \in {"fetch_manifest", "layers", "download", "verify"}
    /\ Finish(o)
    /\ UNCHANGED <<disk, pulls, creating>>

\* It waited for a file operation, which a thread does all the same: now or later,
\* when the name may be free again.  (A bound: one such call of a kind per blob.)
PullAbandons(o) ==
    /\ ops[o].kind = "pull"
    /\ \E b \in Blob, call \in Call :
          /\ \/ call = "open" /\ Opens(o, b)
             \/ call = "rename" /\ ops[o].at = "rename" /\ b = ops[o].blob
             \/ call = "remove" /\ ops[o].at = "verify" /\ b = ops[o].blob /\ partial[b] # "good"
          /\ late' = late \cup {<<b, call>>}
    /\ Finish(o)
    /\ UNCHANGED <<manifests, blobs, partial, temp, stale, made, pulls, creating>>

\* A blob of the expected size is not downloaded.
SkipBlob(o) ==
    /\ ops[o].kind = "pull" /\ ops[o].at = "layers"
    /\ \E b \in ops[o].todo : /\ HasBlob(b)
                              /\ ops' = [ops EXCEPT ![o].todo = @ \ {b}]
    /\ UNCHANGED <<disk, pulls, creating>>

\* Open the partial file: created or truncated ("wrong": preallocated for ranges),
\* or resumed where the last attempt left it.  A retry of a single stream, or the
\* fallback to one, opens it again.
OpenPartial(o) ==
    /\ \E b \in Blob :
       LET opened == [ops[o] EXCEPT !.at = "download", !.blob = b, !.file = "temp",
                                    !.lost = FALSE]
       IN
       /\ Opens(o, b)
       /\ \/ /\ \E c \in {"short", "wrong"} : partial' = [partial EXCEPT ![b] = c]
             /\ ops' = [Truncated(b) EXCEPT ![o] = opened]
          \/ /\ ops[o].at = "layers" /\ partial[b] \in {"wrong", "good"}
             /\ ops' = [ops EXCEPT ![o] = opened]
             /\ UNCHANGED partial
    /\ UNCHANGED <<manifests, blobs, temp, stale, made, late, pulls, creating>>

\* All bytes are written, right ones or not, to wherever the opened file is now;
\* bytes another task truncated away are missing.
FetchDone(o) ==
    /\ ops[o].at = "download"
    /\ \E c \in {"good", "wrong"} :
       LET b == ops[o].blob
           kept(content) == IF ops[o].lost /\ c = "good" THEN content[b] ELSE c
       IN
       /\ partial' = IF ops[o].file = "temp" THEN [partial EXCEPT ![b] = kept(partial)] ELSE partial
       /\ blobs' = IF ops[o].file = "final" THEN [blobs EXCEPT ![b] = kept(blobs)] ELSE blobs
    /\ ops' = [ops EXCEPT ![o] = [@ EXCEPT !.at = "verify", !.file = "gone", !.lost = FALSE]]
    /\ UNCHANGED <<manifests, temp, stale, made, late, pulls, creating>>

\* Fault: the digest is not compared.
VerifyNothing(o) ==
    /\ ops[o].at = "verify"
    /\ Goto(o, "rename")
    /\ UNCHANGED <<disk, pulls, creating>>

\* Hash the partial file: on a mismatch it is removed and the pull fails.
Verify(o) ==
    LET b == ops[o].blob IN
    /\ ops[o].at = "verify"
    /\ IF partial[b] = "good"
       THEN Goto(o, "rename") /\ UNCHANGED partial
       ELSE /\ partial' = [partial EXCEPT ![b] = "absent"]
            /\ ops' = [Moved(Downloading({b}), TempGone) EXCEPT ![o] = Finished(o)]
    /\ UNCHANGED <<manifests, blobs, temp, stale, made, late, pulls, creating>>

\* Rename whatever the partial file is by now into place.
RenameBlob(o) ==
    LET b == ops[o].blob IN
    /\ ops[o].at = "rename"
    /\ IF partial[b] = "absent"
       THEN Finish(o) /\ UNCHANGED <<blobs, partial>>
       ELSE /\ blobs' = [blobs EXCEPT ![b] = partial[b]]
            /\ partial' = [partial EXCEPT ![b] = "absent"]
            /\ ops' = [Moved(Downloading({b}), ToFinal) EXCEPT
                         ![o] = [@ EXCEPT !.at = "layers", !.todo = ops[o].todo \ {b},
                                      !.blob = None]]
    /\ UNCHANGED <<manifests, temp, stale, made, late, pulls, creating>>

\* What a pull given up left to the thread pool happens.
LateOpen(b) ==
    /\ <<b, "open">> \in late
    /\ \E c \in {"short", "wrong"} : partial' = [partial EXCEPT ![b] = c]
    /\ ops' = Truncated(b)
    /\ late' = late \ {<<b, "open">>}
    /\ UNCHANGED <<manifests, blobs, temp, stale, made, pulls, creating>>

LateRename(b) ==
    /\ <<b, "rename">> \in late
    /\ IF partial[b] = "absent" THEN UNCHANGED <<blobs, partial, ops>>
       ELSE /\ blobs' = [blobs EXCEPT ![b] = partial[b]]
            /\ partial' = [partial EXCEPT ![b] = "absent"]
            /\ ops' = Moved(Downloading({b}), ToFinal)
    /\ late' = late \ {<<b, "rename">>}
    /\ UNCHANGED <<manifests, temp, stale, made, pulls, creating>>

LateRemove(b) ==
    /\ <<b, "remove">> \in late
    /\ partial' = [partial EXCEPT ![b] = "absent"]
    /\ ops' = Moved(Downloading({b}), TempGone)
    /\ late' = late \ {<<b, "remove">>}
    /\ UNCHANGED <<manifests, blobs, temp, stale, made, pulls, creating>>

\* Fault: the manifest is written before the layers.
LayersDoneEarly(o) ==
    /\ ops[o].at = "layers"
    /\ Goto(o, "write_temp")
    /\ UNCHANGED <<disk, pulls, creating>>

\* Every blob is there: the manifest is next.
LayersDone(o) ==
    /\ ops[o].at = "layers" /\ ops[o].todo = {}
    /\ Goto(o, "write_temp")
    /\ UNCHANGED <<disk, pulls, creating>>

-----------------------------------------------------------------------------
(* Store::write_manifest: a temporary sibling, then a rename *)

WriteTemp(o) ==
    LET n == ops[o].name IN
    /\ ops[o].at = "write_temp"
    /\ temp' = [temp EXCEPT ![n] = Half]
    /\ ops' = [ops EXCEPT ![o] = [@ EXCEPT !.at = "fill_temp", !.file = "temp"]]
    /\ UNCHANGED <<manifests, blobs, partial, stale, made, late, pulls, creating>>

FillTemp(o) ==
    LET n == ops[o].name  m == ops[o].manifest IN
    /\ ops[o].at = "fill_temp"
    /\ temp' = IF ops[o].file = "temp" THEN [temp EXCEPT ![n] = m] ELSE temp
    /\ manifests' = IF ops[o].file = "final" THEN [manifests EXCEPT ![n] = m] ELSE manifests
    /\ ops' = [ops EXCEPT ![o] = [@ EXCEPT !.at = "install", !.file = "gone"]]
    /\ UNCHANGED <<blobs, partial, stale, made, late, pulls, creating>>

Install(o) ==
    LET n == ops[o].name IN
    /\ ops[o].at = "install"
    /\ IF temp[n] = None
       THEN Finish(o) /\ UNCHANGED <<manifests, temp>>
       ELSE /\ manifests' = [manifests EXCEPT ![n] = temp[n]]
            /\ temp' = [temp EXCEPT ![n] = None]
            /\ ops' = [Moved(Writing(n), ToFinal) EXCEPT ![o] = Finished(o)]
    /\ UNCHANGED <<blobs, partial, stale, made, late, pulls, creating>>

\* The disk is full: what was written of the temporary file stays.
WriteFails(o) ==
    /\ ops[o].at \in Installing
    /\ Finish(o)
    /\ UNCHANGED <<disk, pulls, creating>>

\* The pull leaves the table, or the create drops its claim.
Release(o) ==
    LET n == ops[o].name IN
    /\ ops[o].at = "release"
    /\ pulls' = IF ops[o].kind = "pull" THEN [pulls EXCEPT ![n] = None] ELSE pulls
    /\ creating' = IF ops[o].kind = "create" THEN creating \ {n} ELSE creating
    /\ ops' = [ops EXCEPT ![o] = Idle]
    /\ UNCHANGED disk

-----------------------------------------------------------------------------
(* Ollaya::create, Ollaya::copy *)

CreateStart(o) ==
    /\ ops[o].at = "idle"
    /\ \E c \in Creates :
          /\ ~Busy(c[1])
          /\ creating' = creating \cup {c[1]}
          /\ ops' = [ops EXCEPT ![o] = [Idle EXCEPT !.at = "read", !.kind = "create",
                                                    !.name = c[1], !.from = c[2]]]
    /\ UNCHANGED <<disk, pulls>>

CopyStart(o) ==
    /\ ops[o].at = "idle"
    /\ \E c \in Copies :
          /\ ~Busy(c[2])
          /\ ops' = [ops EXCEPT ![o] = [Idle EXCEPT !.at = "read", !.kind = "copy",
                                                    !.name = c[2], !.from = c[1]]]
    /\ UNCHANGED <<disk, pulls, creating>>

\* The manifest of FROM, or of the source, as it is now.
ReadFrom(o) ==
    LET m == manifests[ops[o].from] IN
    /\ ops[o].at = "read"
    /\ \/ m \in {None, Half} /\ Finish(o)
       \/ /\ m \in Manifest /\ ops[o].kind = "create"
          /\ ops' = [ops EXCEPT ![o] = [@ EXCEPT !.at = "layers", !.manifest = Derived[m],
                                          !.todo = BlobsOf[Derived[m]] \ BlobsOf[m]]]
       \/ /\ m \in Manifest /\ ops[o].kind = "copy"
          /\ ops' = [ops EXCEPT ![o] = [@ EXCEPT !.at = "write_temp", !.manifest = m]]
    /\ UNCHANGED <<disk, pulls, creating>>

\* Store::write_blob: nothing is written when a file is there, of whatever size.
CheckBlob(o) ==
    /\ ops[o].kind = "create" /\ ops[o].at = "layers"
    /\ \E b \in ops[o].todo :
          \/ /\ blobs[b] # "absent"
             /\ ops' = [ops EXCEPT ![o].todo = @ \ {b}]
          \/ /\ blobs[b] = "absent"
             /\ ops' = [ops EXCEPT ![o] = [@ EXCEPT !.at = "write_blob", !.blob = b]]
    /\ UNCHANGED <<disk, pulls, creating>>

\* The temporary file is the daemon's, not the task's: another create of the same
\* blob truncates it, or renames it.
WriteBlob(o) ==
    /\ ops[o].at = "write_blob"
    /\ made' = [made EXCEPT ![ops[o].blob] = "short"]
    /\ ops' = [ops EXCEPT ![o] = [@ EXCEPT !.at = "fill_blob", !.file = "temp"]]
    /\ UNCHANGED <<manifests, blobs, partial, temp, stale, late, pulls, creating>>

FillBlob(o) ==
    LET b == ops[o].blob IN
    /\ ops[o].at = "fill_blob"
    /\ made' = IF ops[o].file = "temp" THEN [made EXCEPT ![b] = "good"] ELSE made
    /\ blobs' = IF ops[o].file = "final" THEN [blobs EXCEPT ![b] = "good"] ELSE blobs
    /\ ops' = [ops EXCEPT ![o] = [@ EXCEPT !.at = "rename_blob", !.file = "gone"]]
    /\ UNCHANGED <<manifests, partial, temp, stale, late, pulls, creating>>

PutBlob(o) ==
    LET b == ops[o].blob IN
    /\ ops[o].at = "rename_blob"
    /\ IF made[b] = "absent"
       THEN Finish(o) /\ UNCHANGED <<blobs, made>>
       ELSE /\ blobs' = [blobs EXCEPT ![b] = made[b]]
            /\ made' = [made EXCEPT ![b] = "absent"]
            /\ ops' = [Moved(Filling(b), ToFinal) EXCEPT
                         ![o] = [@ EXCEPT !.at = "layers", !.todo = ops[o].todo \ {b},
                                      !.blob = None]]
    /\ UNCHANGED <<manifests, partial, temp, stale, late, pulls, creating>>

\* An invalid schema, an unreadable config, a full disk.
CreateFails(o) ==
    /\ ops[o].kind = "create" /\ ops[o].at \in {"layers"} \cup Making
    /\ Finish(o)
    /\ UNCHANGED <<disk, pulls, creating>>

-----------------------------------------------------------------------------
(* Ollaya::delete, Store::remove, Store::prune *)

\* Not busy now: the model is unloaded, which may take a while, then removed.
DeleteStart(o) ==
    /\ ops[o].at = "idle"
    /\ \E n \in Deletes :
          /\ ~Busy(n)
          /\ ops' = [ops EXCEPT ![o] = [Idle EXCEPT !.at = "remove", !.kind = "delete", !.name = n]]
    /\ UNCHANGED <<disk, pulls, creating>>

RemoveManifest(o) ==
    LET n == ops[o].name IN
    /\ ops[o].at = "remove"
    /\ IF manifests[n] = None
       THEN Finish(o) /\ UNCHANGED manifests
       ELSE /\ manifests' = [manifests EXCEPT ![n] = None]
            /\ ops' = [Moved(Writing(n), FinalGone) EXCEPT ![o].at = "list"]
    /\ UNCHANGED <<blobs, partial, temp, stale, made, late, pulls, creating>>

\* Fault: a model's manifest is taken for one that names no blob.
ListToPruneNone(o) ==
    /\ ops[o].at = "list"
    /\ ops' = [ops EXCEPT ![o] = [@ EXCEPT !.at = "prune", !.todo = {}]]
    /\ UNCHANGED <<disk, pulls, creating>>

ListToPrune(o) ==
    /\ ops[o].at = "list"
    /\ IF ListFails THEN Finish(o)
       ELSE ops' = [ops EXCEPT ![o] = [@ EXCEPT !.at = "prune",
                                         !.todo = UNION {BlobsOf[m] : m \in Listed}]]
    /\ UNCHANGED <<disk, pulls, creating>>

\* The files there are that no listed manifest names, temporary ones too; partial
\* files stay.
Prune(o) ==
    /\ ops[o].at = "prune"
    /\ ops' = [ops EXCEPT ![o] = [@ EXCEPT
                        !.at = "sweep",
                        !.todo = {b \in Blob \ ops[o].todo : blobs[b] # "absent"},
                        !.temps = {b \in Blob : made[b] # "absent"}]]
    /\ UNCHANGED <<disk, pulls, creating>>

\* Fault: one blob at most is removed.
PruneFirst(o) ==
    /\ ops[o].at = "sweep"
    /\ \/ ops[o].todo = {} /\ UNCHANGED blobs
       \/ \E b \in ops[o].todo : blobs' = [blobs EXCEPT ![b] = "absent"]
    /\ ops' = [ops EXCEPT ![o] = Idle]
    /\ UNCHANGED <<manifests, partial, temp, stale, made, late, pulls, creating>>

\* They go one by one.  A file another task removed meanwhile is an error, which
\* leaves the rest in place.
PruneBlob(o) ==
    /\ ops[o].at = "sweep"
    /\ \/ /\ \/ ops[o].todo \cup ops[o].temps = {}
             \/ \E b \in ops[o].todo : blobs[b] = "absent"
             \/ \E b \in ops[o].temps : made[b] = "absent"
          /\ Finish(o)
          /\ UNCHANGED <<blobs, made>>
       \/ \E b \in ops[o].todo :
             /\ blobs[b] # "absent"
             /\ blobs' = [blobs EXCEPT ![b] = "absent"]
             /\ ops' = [Moved(Downloading({b}) \cup Filling(b), FinalGone) EXCEPT ![o].todo = @ \ {b}]
             /\ UNCHANGED made
       \/ \E b \in ops[o].temps :
             /\ made[b] # "absent"
             /\ made' = [made EXCEPT ![b] = "absent"]
             /\ ops' = [Moved(Filling(b), TempGone) EXCEPT ![o].temps = @ \ {b}]
             /\ UNCHANGED blobs
    /\ UNCHANGED <<manifests, partial, temp, stale, late, pulls, creating>>

-----------------------------------------------------------------------------
\* The daemon dies and starts again, under another process id: the files it was
\* writing stay under names no later daemon uses, its tables are gone.  Temporary
\* blobs left like this are read by nobody and pruned like any other.
Crash ==
    /\ MayCrash
    /\ stale' = stale \cup ({temp[n] : n \in Name} \ {None})
    /\ temp' = [n \in Name |-> None]
    /\ made' = [b \in Blob |-> "absent"]
    /\ late' = {}
    /\ pulls' = [n \in Name |-> None]
    /\ creating' = {}
    /\ ops' = [o \in Op |-> Idle]
    /\ UNCHANGED <<manifests, blobs, partial>>

Pull(o) ==
    \/ PullStart(o) \/ FetchManifest(o) \/ PullStops(o) \/ PullAbandons(o) \/ SkipBlob(o)
    \/ OpenPartial(o) \/ FetchDone(o) \/ Verify(o) \/ RenameBlob(o)
Write(o) ==
    LayersDone(o) \/ WriteTemp(o) \/ FillTemp(o) \/ Install(o) \/ WriteFails(o) \/ Release(o)
Make(o) ==
    \/ CreateStart(o) \/ CopyStart(o) \/ ReadFrom(o) \/ CheckBlob(o) \/ WriteBlob(o)
    \/ FillBlob(o) \/ PutBlob(o) \/ CreateFails(o)
Delete(o) == DeleteStart(o) \/ RemoveManifest(o) \/ ListToPrune(o) \/ Prune(o) \/ PruneBlob(o)

Late(b) == LateOpen(b) \/ LateRename(b) \/ LateRemove(b)

Next ==
    \/ \E o \in Op : Pull(o) \/ Write(o) \/ Make(o) \/ Delete(o)
    \/ \E b \in Blob : Late(b)
    \/ Crash

Spec == Init /\ [][Next]_vars

-----------------------------------------------------------------------------
(* Safety *)

Writers(n) == {o \in Op : ops[o].name = n /\ ops[o].kind \in Claimed /\ ops[o].at # "idle"}

\* One table: at most one pull or create writes the manifest file of a name, and
\* the name is busy for as long as it does.
OneWriter ==
    \A n \in Name : /\ \A o, p \in Writers(n) : o = p
                    /\ Busy(n) <=> Writers(n) # {}

\* A model is either fully present or not listed.
Complete ==
    \A n \in Name : manifests[n] # None =>
        /\ manifests[n] # Half
        /\ \A b \in BlobsOf[manifests[n]] : blobs[b] = "good"

\* Every blob in place has the content its digest says, whatever the registry served
\* and wherever a pull was given up or a daemon died: the partial file it left, which
\* a pull of another name that needs the blob resumes, included.
BlobsVerified == \A b \in Blob : blobs[b] \in {"absent", "good"}

\* A delete that meets no other task, and whose listing no file cut short fails,
\* leaves no blob that no model needs, those of pulls given up and of creates that
\* failed earlier included, nor a temporary one: remove drops the manifest before it
\* lists the others.
NothingLeft ==
    [][\A o \in Op : PruneBlob(o) /\ ops'[o].at = "idle" =>
          \A b \in Blob : /\ blobs'[b] # "absent" => \E m \in Listed : b \in BlobsOf[m]
                          /\ made'[b] = "absent"]_vars

\* docs/api.md 1559-1561: manifests are written last, atomically, and a crash leaves
\* either the old state or the new one, never a half-written model.  Listing the
\* store, which a delete does too, must not fail over a file a crash cut short.
ListsAfterCrash == (\A o \in Op : ops[o].at = "idle") => ~ListFails

-----------------------------------------------------------------------------
(* What the store asks of those who use it: Complete and BlobsVerified hold as *)
(* long as it is granted, and nothing in the daemon sees to it.                *)

Alone(o) == \A p \in Op \ {o} : ops[p].at = "idle"

\* A delete meets no other task, nor what one left to the thread pool.
DeletesAlone ==
    \A o \in Op : ops[o].at # "idle" /\ ops[o].kind = "delete" => Alone(o) /\ late = {}

CopiesAlone == \A o \in Op : ops[o].at # "idle" /\ ops[o].kind = "copy" => Alone(o)

\* What a pull or create has to bring that is not there.
Missing(o) == {b \in Blob : ops[o].at \in Bringing /\ b \in ops[o].todo /\ ~HasBlob(b)}

\* No two tasks bring one blob at a time: two tags may share it, one after the other.
OneBringer ==
    \A o \in Op : /\ \A p \in Op \ {o} : Missing(o) \cap Missing(p) = {}
                  /\ \A b \in Missing(o), call \in Call : <<b, call>> \notin late

Apart == DeletesAlone /\ CopiesAlone /\ OneBringer

-----------------------------------------------------------------------------
(* The inductive invariants *)

\* Which operation is where.
RightKind(s) ==
    /\ s.at \in {"fetch_manifest"} \cup Fetching => s.kind = "pull"
    /\ s.at \in Making => s.kind = "create"
    /\ s.at \in {"layers", "release"} => s.kind \in Claimed
    /\ s.at = "read" => s.kind \in {"create", "copy"}
    /\ s.at \in {"remove", "list", "prune", "sweep"} => s.kind = "delete"
    /\ s.at \in Installing => s.kind # "delete"

KindInv == \A o \in Op : RightKind(ops[o])

\* Each table holds the names its writers write, one writer a name.
ClaimInv ==
    \A n \in Name :
        /\ \A o, p \in Writers(n) : o = p
        /\ pulls[n] # None <=> \E o \in Writers(n) : ops[o].kind = "pull"
        /\ n \in creating <=> \E o \in Writers(n) : ops[o].kind = "create"

TableInv == TypeOK /\ KindInv /\ ClaimInv

\* What a task has done so far.
Doing(o) ==
    /\ ops[o].at \in Bringing => ops[o].todo \subseteq BlobsOf[ops[o].manifest]
    /\ ops[o].at \in Fetching \cup Making =>
          ops[o].blob \in ops[o].todo /\ blobs[ops[o].blob] = "absent"
    /\ ops[o].at \in {"download", "fill_blob", "fill_temp"} => ops[o].file = "temp"
    /\ ops[o].at = "rename" => partial[ops[o].blob] = "good"
    /\ ops[o].at = "rename_blob" => made[ops[o].blob] = "good"
    /\ ops[o].at \in Bringing \cup Installing =>
          \A b \in BlobsOf[ops[o].manifest] :
              blobs[b] # "good" => ops[o].at \in Bringing /\ b \in ops[o].todo
    /\ ops[o].at = "install" => temp[ops[o].name] = ops[o].manifest
    /\ \A n \in Name : manifests[n] # None =>
          /\ ops[o].at = "prune" => BlobsOf[manifests[n]] \subseteq ops[o].todo
          /\ ops[o].at = "sweep" => BlobsOf[manifests[n]] \cap ops[o].todo = {}

TaskInv == \A o \in Op : Doing(o)

\* One call at most is left to come for a blob, and a rename finds what was verified.
LateInv ==
    \A b \in Blob :
        /\ \A c, d \in Call : <<b, c>> \in late /\ <<b, d>> \in late => c = d
        /\ <<b, "rename">> \in late => partial[b] = "good"

StoreInv == TableInv /\ TaskInv /\ LateInv /\ Complete /\ BlobsVerified

\* A copy or a delete does what was asked: what a copy is about to write is what its
\* source still has.
AskedInv ==
    \A o \in Op : ops[o].at # "idle" =>
        /\ ops[o].kind = "delete" => ops[o].name \in Deletes
        /\ ops[o].kind = "copy" =>
              /\ <<ops[o].from, ops[o].name>> \in Copies
              /\ ops[o].at \in Installing => ops[o].manifest = manifests[ops[o].from]

\* What a delete that runs alone still has to keep, then to remove: all the models
\* need, then all that is there and no model needs.
SweepInv ==
    \A o \in Op :
        /\ ops[o].at = "prune" => ops[o].todo = UNION {BlobsOf[m] : m \in Listed}
        /\ ops[o].at = "sweep" =>
              /\ \A b \in ops[o].todo : blobs[b] # "absent"
              /\ \A b \in Blob : blobs[b] # "absent" =>
                    b \in ops[o].todo \cup UNION {BlobsOf[m] : m \in Listed}
              /\ ops[o].temps = {b \in Blob : made[b] # "absent"}

AloneInv == TableInv /\ SweepInv

\* Deletes beside deletes, and nothing else.
OnlyDeletes == Pulls = {} /\ Creates = {} /\ Copies = {}

\* What a delete will remove no model needs, whichever others were removed since it
\* listed them: the list may name too many blobs to keep, never too few.
PruneInv ==
    /\ \A n \in Name : temp[n] = None
    /\ stale = {} /\ late = {}
    /\ \A o \in Op :
         /\ ops[o].at \in {"idle", "remove", "list", "prune", "sweep"}
         /\ \A n \in Name : manifests[n] # None =>
              /\ ops[o].at = "prune" => BlobsOf[manifests[n]] \subseteq ops[o].todo
              /\ ops[o].at = "sweep" => BlobsOf[manifests[n]] \cap ops[o].todo = {}

DeleteInv == TableInv /\ PruneInv /\ Complete
=============================================================================
