------------------------------ MODULE Download ------------------------------
(***************************************************************************)
(* How one large blob is downloaded, over any number of pulls: ranges      *)
(* fetched beside each other into a preallocated partial file, the count   *)
(* of each saved next to it every so often, and read again by the next     *)
(* pull.  tokio hands a file's writes to a thread of its own and returns,  *)
(* so bytes are counted before they are in the file.                       *)
(*                                                                         *)
(* The host serves the right bytes, if any: ModelStore has what becomes of *)
(* wrong ones.  Here what may be wrong with the file is a hole.  One pull  *)
(* at a time downloads the blob.                                           *)
(***************************************************************************)
EXTENDS Integers

CONSTANTS
    Part,       \* the ranges the blob is planned in
    Size,       \* the blocks of each; a block arrives, and is written, whole
    Body,       \* the one stream of a host that ignores ranges
    None,
    Torn,       \* saved counts that cannot be read
    MaxRetries, \* MAX_RETRIES
    MaxHarm,    \* bounds failed writes, ends of the daemon and pulls given up
    MaxBreaks   \* bounds the errors of host and network

ASSUME DownloadAssumption ==
    /\ Size \in [Part -> Nat \ {0}]
    /\ Body \notin Part
    /\ None \notin [Part -> SUBSET Nat] \cup [Part -> Nat]
    /\ MaxRetries \in Nat /\ MaxHarm \in Nat /\ MaxBreaks \in Nat

VARIABLES
    at,         \* where the pull is, "idle" between two
    result,     \* how its ranges ended
    part,       \* what the job of each range does
    done,       \* the counters: blocks of each range counted
    attempt,    \* retries, of each range and of the one stream
    file,       \* the blocks in the partial file, None when there is none
    writing,    \* the blocks counted whose write has yet to happen
    state,      \* the saved counts
    saving,     \* counts on their way there
    blob,       \* the blocks of the blob in place
    harm,       \* how often a write failed, the daemon ended or a pull was given up
    breaks      \* how often host or network failed

jobs == <<part, done, attempt>>
disk == <<file, writing, state, saving, blob>>
vars == <<at, result, jobs, disk, harm, breaks>>

-----------------------------------------------------------------------------
Index == UNION {1 .. Size[p] : p \in Part}
Counts == {n \in [Part -> Index \cup {0}] : \A p \in Part : n[p] <= Size[p]}
Blocks == {f \in [Part -> SUBSET Index] : \A p \in Part : f[p] \subseteq 1 .. Size[p]}

Zero  == [p \in Part |-> 0]
Empty == [p \in Part |-> {}]
Upto(n) == [p \in Part |-> 1 .. n[p]]
Whole == Upto(Size)

\* tick: the counts are being saved while the ranges go on; saving: at their end.
Stage == {"idle", "ranges", "tick", "ended", "saving", "fallback", "whole", "hash",
          "mismatch", "forget", "cleanup"}

\* failed: the last write through the job's handle has, as its next call will say.
Job == {"off", "get", "stream", "failed", "wait", "ok"}

TypeOK ==
    /\ at \in Stage
    /\ result \in {"ok", "error", "no_ranges"}
    /\ part \in [Part -> Job]
    /\ done \in Counts
    /\ attempt \in [Part \cup {Body} -> 0 .. MaxRetries]
    /\ file \in Blocks \cup {None}
    /\ writing \in Blocks
    /\ state \in Counts \cup {None, Torn}
    /\ saving \in Counts \cup {None}
    /\ blob \in Blocks \cup {None}
    /\ harm \in 0 .. MaxHarm
    /\ breaks \in 0 .. MaxBreaks

Init ==
    /\ at = "idle" /\ result = "ok"
    /\ part = [p \in Part |-> "off"]
    /\ done = Zero
    /\ attempt = [p \in Part \cup {Body} |-> 0]
    /\ file = None /\ writing = Empty
    /\ state = None /\ saving = None
    /\ blob = None
    /\ harm = 0 /\ breaks = 0

Harm == harm < MaxHarm /\ harm' = harm + 1
Break == breaks < MaxBreaks /\ breaks' = breaks + 1
Calm == UNCHANGED <<harm, breaks>>

-----------------------------------------------------------------------------
(* The plan *)

\* Saved counts are used when they can be read and the partial file is there.
Resumes == file # None /\ state \in Counts

\* A pull that needs the blob.  Anew, the partial file is truncated; the state a
\* pull before left stays until the first tick saves over it.
Plan ==
    /\ at = "idle" /\ blob = None
    /\ at' = "ranges"
    /\ done' = IF Resumes THEN state ELSE Zero
    /\ file' = IF Resumes THEN file ELSE Empty
    /\ part' = [p \in Part |-> IF done'[p] < Size[p] THEN "get" ELSE "ok"]
    /\ attempt' = [p \in Part \cup {Body} |-> 0]
    /\ UNCHANGED <<result, writing, state, saving, blob>> /\ Calm

-----------------------------------------------------------------------------
(* The ranges *)

Off == [p \in Part |-> "off"]

\* The stream of jobs ends with the first error; dropping it drops the others.
EndRanges(r) ==
    /\ at' = "ended" /\ result' = r
    /\ part' = Off
    /\ UNCHANGED <<done, attempt>>

\* The range is asked for again after a while, or the pull fails.
Retry(p) ==
    \/ /\ attempt[p] < MaxRetries
       /\ attempt' = [attempt EXCEPT ![p] = @ + 1]
       /\ part' = [part EXCEPT ![p] = "wait"]
       /\ UNCHANGED <<at, result, done>>
    \/ attempt[p] = MaxRetries /\ EndRanges("error")

\* A partial response: the job opens the file for itself.
Respond(p) ==
    /\ at = "ranges" /\ part[p] = "get"
    /\ part' = [part EXCEPT ![p] = "stream"]
    /\ UNCHANGED <<at, result, done, attempt, disk>> /\ Calm

\* The whole body instead: the host ignores ranges.
NoRanges(p) ==
    /\ at = "ranges" /\ part[p] = "get"
    /\ EndRanges("no_ranges")
    /\ UNCHANGED disk /\ Calm

\* An answer that a retry would not change.
Refused(p) ==
    /\ at = "ranges" /\ part[p] = "get"
    /\ EndRanges("error")
    /\ Break /\ UNCHANGED <<disk, harm>>

\* The last block counted has been written, or its write has failed.
Written(p) == done[p] \notin writing[p]

\* A fault: more than was asked for is taken.
ChunkUncut(p) ==
    /\ at = "ranges" /\ part[p] = "stream"
    /\ Written(p) /\ done[p] <= Size[p]
    /\ done' = [done EXCEPT ![p] = @ + 1]
    /\ writing' = [writing EXCEPT ![p] = @ \cup {done'[p]}]
    /\ UNCHANGED <<at, result, part, attempt, file, state, saving, blob>> /\ Calm

\* The handle takes a block once it has written the one before, and the block is
\* counted then.  Bytes past the range's end are cut off (room).
Chunk(p) ==
    /\ at = "ranges" /\ part[p] = "stream"
    /\ Written(p) /\ done[p] < Size[p]
    /\ done' = [done EXCEPT ![p] = @ + 1]
    /\ writing' = [writing EXCEPT ![p] = @ \cup {done'[p]}]
    /\ UNCHANGED <<at, result, part, attempt, file, state, saving, blob>> /\ Calm

\* A fault: a stream that ended early is taken for the whole range.
PartDoneShort(p) ==
    /\ at = "ranges" /\ part[p] = "stream"
    /\ Written(p)
    /\ part' = [part EXCEPT ![p] = "ok"]
    /\ UNCHANGED <<at, result, done, attempt, disk>> /\ Calm

\* A fault: nobody waits for the last write.
PartDoneUnflushed(p) ==
    /\ at = "ranges" /\ part[p] = "stream"
    /\ done[p] = Size[p]
    /\ part' = [part EXCEPT ![p] = "ok"]
    /\ UNCHANGED <<at, result, done, attempt, disk>> /\ Calm

\* The stream ended and the flush has waited for the last write.
PartDone(p) ==
    /\ at = "ranges" /\ part[p] = "stream"
    /\ Written(p) /\ done[p] = Size[p]
    /\ part' = [part EXCEPT ![p] = "ok"]
    /\ UNCHANGED <<at, result, done, attempt, disk>> /\ Calm

\* The connection breaks, stalls, or ends early; what was counted stays so.
PartBreaks(p) ==
    /\ at = "ranges" /\ part[p] \in {"get", "stream"}
    /\ Retry(p)
    /\ Break /\ UNCHANGED <<disk, harm>>

\* The next call on the handle says that the write before has failed.  The block
\* stays counted: a retry goes on behind it.
PartFailed(p) ==
    /\ at = "ranges" /\ part[p] = "failed"
    /\ Retry(p)
    /\ UNCHANGED disk /\ Calm

\* The retry, from where the counter stands, which may be the end: then nobody waits
\* for the write the handle before had taken.
Again(p) ==
    /\ at = "ranges" /\ part[p] = "wait"
    /\ part' = [part EXCEPT ![p] = IF done[p] < Size[p] THEN "get" ELSE "ok"]
    /\ UNCHANGED <<at, result, done, attempt, disk>> /\ Calm

AllDone ==
    /\ at = "ranges"
    /\ \A p \in Part : part[p] = "ok"
    /\ EndRanges("ok")
    /\ UNCHANGED disk /\ Calm

-----------------------------------------------------------------------------
(* The thread that writes *)

\* A write happens, whatever has become of the job that asked for it.
Land(p) == \E k \in writing[p] :
    /\ writing' = [writing EXCEPT ![p] = @ \ {k}]
    /\ file' = [file EXCEPT ![p] = @ \cup {k}]
    /\ UNCHANGED <<at, result, jobs, state, saving, blob>> /\ Calm

\* Or it fails: the disk is full.
LoseWrite(p) == \E k \in writing[p] :
    /\ writing' = [writing EXCEPT ![p] = @ \ {k}]
    /\ part' = [part EXCEPT ![p] = IF @ = "stream" /\ k = done[p] THEN "failed" ELSE @]
    /\ Harm
    /\ UNCHANGED <<at, result, done, attempt, file, state, saving, blob, breaks>>

-----------------------------------------------------------------------------
(* The saved counts *)

\* save_state truncates, then writes; the jobs are not polled meanwhile.  A save
\* that a pull left behind is waited for: two never overlap here.
Save(stage) ==
    /\ saving = None
    /\ at' = stage
    /\ state' = Torn /\ saving' = done
    /\ UNCHANGED <<result, jobs, file, writing, blob>> /\ Calm

Tick == at = "ranges" /\ Save("tick")

\* A fault: no save once the ranges have ended.
LastSaveNone ==
    /\ at = "ended" /\ saving = None
    /\ at' = CASE result = "ok" -> "hash"
               [] result = "error" -> "idle"
               [] result = "no_ranges" -> "fallback"
    /\ UNCHANGED <<result, jobs, disk>> /\ Calm

\* After the ranges have ended, well or not.
LastSave == at = "ended" /\ Save("saving")

\* What follows the last save.
AfterSave ==
    CASE at = "tick" -> "ranges"
      [] at = "saving" /\ result = "ok" -> "hash"
      [] at = "saving" /\ result = "error" -> "idle"
      [] at = "saving" /\ result = "no_ranges" -> "fallback"
      [] OTHER -> at

\* A save happens, its pull's own or one a pull that was given up left behind.
Saved ==
    /\ saving # None
    /\ at' = AfterSave
    /\ state' = saving /\ saving' = None
    /\ UNCHANGED <<result, jobs, file, writing, blob>> /\ Calm

\* Or it fails, which nobody looks at.
SaveFails ==
    /\ saving # None
    /\ at' = AfterSave
    /\ saving' = None /\ Harm
    /\ UNCHANGED <<result, jobs, file, writing, state, blob, breaks>>

-----------------------------------------------------------------------------
(* One stream, then the verification *)

Fallback ==
    /\ at = "fallback" /\ at' = "whole"
    /\ state' = None
    /\ UNCHANGED <<result, jobs, file, writing, saving, blob>> /\ Calm

\* The file is truncated and the body written from its start.
FetchWhole ==
    /\ at = "whole" /\ at' = "hash"
    /\ file' = Whole
    /\ UNCHANGED <<result, jobs, writing, state, saving, blob>> /\ Calm

\* Or part of it, and again from the start; not again after too many retries, or
\* when the body ended early.
WholeBreaks ==
    /\ at = "whole"
    /\ \/ /\ attempt[Body] < MaxRetries
          /\ attempt' = [attempt EXCEPT ![Body] = @ + 1]
          /\ at' = "whole"
       \/ at' = "idle" /\ UNCHANGED attempt
    /\ \E n \in Counts : file' = Upto(n)
    /\ Break
    /\ UNCHANGED <<result, part, done, writing, state, saving, blob, harm>>

\* The file's digest is right when it has every block; then it is renamed.  What is
\* still to be written goes to a file that has it.
Hash ==
    /\ at = "hash"
    /\ \/ /\ file = Whole
          /\ blob' = file
          /\ file' = None /\ writing' = Empty
          /\ at' = IF result = "ok" THEN "cleanup" ELSE "idle"
       \/ /\ file # Whole
          /\ at' = "mismatch"
          /\ UNCHANGED <<blob, file, writing>>
    /\ UNCHANGED <<result, jobs, state, saving>> /\ Calm

\* A fault: the file that failed the verification is kept, and so are its counts.
DiscardNothing ==
    /\ at = "mismatch" /\ at' = "idle"
    /\ UNCHANGED <<result, jobs, disk>> /\ Calm

\* A mismatch: the partial file goes, with what is still to be written to it, and
\* the state after it.
Discard ==
    /\ at = "mismatch" /\ at' = "forget"
    /\ file' = None /\ writing' = Empty
    /\ UNCHANGED <<result, jobs, state, saving, blob>> /\ Calm

Forget ==
    /\ at \in {"forget", "cleanup"} /\ at' = "idle"
    /\ state' = None
    /\ UNCHANGED <<result, jobs, file, writing, saving, blob>> /\ Calm

-----------------------------------------------------------------------------
(* What ends a pull at any point *)

\* The pull's last client has left: its writes and its save go on without it.
GiveUp ==
    /\ at # "idle" /\ at' = "idle"
    /\ part' = Off
    /\ Harm
    /\ UNCHANGED <<result, done, attempt, disk, breaks>>

\* The daemon is killed: writes that have not happened never do.
Crash ==
    /\ at' = "idle"
    /\ part' = Off
    /\ writing' = Empty /\ saving' = None
    /\ Harm
    /\ UNCHANGED <<result, done, attempt, file, state, blob, breaks>>

\* A delete prunes the blob, and only the blob.
Prune ==
    /\ blob # None /\ blob' = None
    /\ UNCHANGED <<at, result, jobs, file, writing, state, saving>> /\ Calm

-----------------------------------------------------------------------------
Fetch(p) == Respond(p) \/ Chunk(p) \/ PartDone(p) \/ PartFailed(p) \/ Again(p)
Pull == Plan \/ AllDone \/ LastSave \/ Fallback \/ FetchWhole \/ Hash \/ Discard \/ Forget

Next ==
    \/ \E p \in Part : Fetch(p) \/ NoRanges(p) \/ Refused(p) \/ PartBreaks(p)
    \/ \E p \in Part : Land(p) \/ LoseWrite(p)
    \/ Pull \/ Tick \/ Saved \/ SaveFails \/ WholeBreaks
    \/ GiveUp \/ Crash \/ Prune

Spec == Init /\ [][Next]_vars

\* The select polls both the jobs and the ticker, which may interrupt a job for ever
\* but for its turn (SF).  A client asks again for a blob that is not there, writes
\* and saves happen or fail, and harm and breaks are bounded: the network, the disk
\* and the clients end a pull finitely often.
Fairness ==
    /\ \A p \in Part : SF_vars(Fetch(p)) /\ WF_vars(Land(p))
    /\ SF_vars(Pull) /\ WF_vars(Saved)

FairSpec == Spec /\ Fairness

-----------------------------------------------------------------------------
(* Properties *)

\* A file is verified when it is whole but for what is being written at this moment,
\* and for holes that have a cause: retries, broken connections, resumed pulls and
\* falls back leave none, only a failed write, a dead daemon or a pull given up does.
NoHoles ==
    at = "hash" /\ harm = 0 =>
        /\ file # None
        /\ \A p \in Part : 1 .. Size[p] \subseteq file[p] \cup writing[p]

\* pull.rs 4-5: an interrupted pull resumes where it stopped.  A pull that fails on
\* its own leaves a state that says what is in the file, or is about to be, and that
\* is all it had counted.
Resumable ==
    at = "idle" /\ harm = 0 /\ state # None =>
        /\ state = done /\ file # None
        /\ \A p \in Part : 1 .. done[p] \subseteq file[p] \cup writing[p]

\* Nothing a pull leaves behind, holes, torn or stale counts, late writes and late
\* saves, keeps later ones from having the blob: a mismatch starts over.
Installed == []<>(blob # None)

\* How often anything failed so far.
Failures == harm + breaks

StartsOverAt(n) == [](at = "forget" /\ Failures = n => [](Failures = n => at # "mismatch"))

\* A mismatch costs one download: the pulls after it verify no file with a hole until
\* a write, the host, the network, the daemon or a client fails again, whatever the
\* pulls before it left.
StartsOver == \A n \in 0 .. MaxHarm + MaxBreaks : StartsOverAt(n)
-----------------------------------------------------------------------------
(* The inductive invariant *)

\* What the counts n say is in the file, or is being written to it.
InFile(n) == file # None /\ \A p \in Part : 1 .. n[p] \subseteq file[p] \cup writing[p]

\* How the ranges ended decides what comes after them.
ResultInv ==
    /\ at \in {"fallback", "whole"} => result = "no_ranges"
    /\ at = "hash" => result # "error"

\* A range that has ended is counted in full.
FullInv ==
    /\ at \in {"ranges", "tick"} => \A p \in Part : part[p] = "ok" => done[p] = Size[p]
    /\ at \in {"ended", "saving"} /\ result = "ok" => done = Size

\* Without harm, the counters never run ahead of the file, no save outlives its
\* pull, and saved counts are there only for the next pull to find.
Clean ==
    /\ at \in {"ranges", "tick", "ended", "saving"} => InFile(done)
    /\ at = "hash" => InFile(Size)
    /\ saving # None => at \in {"tick", "saving"} /\ saving = done
    /\ at = "whole" \/ (at = "hash" /\ result = "no_ranges") => state = None
    /\ at = "idle" /\ state # None => state = done /\ InFile(done)

CleanInv == harm = 0 => Clean

\* Writes go to a partial file, which a pull has until it has verified it.
WritingInv ==
    /\ file = None => writing = Empty
    /\ at \notin {"idle", "forget", "cleanup"} => file # None
    /\ at \in {"forget", "cleanup"} => file = None

\* As long as nothing fails after a start over, each range has what it counted, all
\* but the block it writes now in the file, and the file is verified when it is whole.
Fresh ==
    /\ at # "mismatch"
    /\ at \in {"idle", "forget", "cleanup"} => file = None
    /\ at \in {"ranges", "tick"} => \A p \in Part :
          /\ part[p] \in {"get", "stream", "ok"}
          /\ 1 .. done[p] \subseteq file[p] \cup writing[p]
          /\ writing[p] \subseteq {done[p]}
          /\ part[p] # "stream" => writing[p] = {}
    /\ at \in {"ended", "saving"} =>
          result = "no_ranges" \/ (result = "ok" /\ file = Whole)
    /\ at = "hash" => file = Whole

DownloadInv == TypeOK /\ ResultInv /\ FullInv /\ WritingInv /\ CleanInv
=============================================================================
