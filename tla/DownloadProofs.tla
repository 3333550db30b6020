--------------------------- MODULE DownloadProofs ---------------------------
(***************************************************************************)
(* Proofs about the download, for any plan of ranges and any bounds on     *)
(* harm and errors: a file is verified with holes only after a write was   *)
(* lost or a pull ended, and not again after a start over.                 *)
(***************************************************************************)
EXTENDS Download, TLAPS

-----------------------------------------------------------------------------
(* Counts and blocks *)

LEMMA Sizes ==
    /\ Index \subseteq Nat
    /\ \A p \in Part : Size[p] \in Nat \ {0} /\ 1 .. Size[p] \subseteq Index
BY DownloadAssumption DEF Index

\* Counts need no more than their bound, blocks no more than their range.
LEMMA CountsAre ==
    ASSUME NEW n
    PROVE  n \in Counts <=> n \in [Part -> Nat] /\ \A p \in Part : n[p] <= Size[p]
<1>1. ASSUME n \in Counts PROVE n \in [Part -> Nat] /\ \A p \in Part : n[p] <= Size[p]
  <2>1. n \in [Part -> Index \cup {0}] /\ \A p \in Part : n[p] <= Size[p]
    BY <1>1 DEF Counts
  <2>2. Index \cup {0} \subseteq Nat
    BY Sizes
  <2> QED BY <2>1, <2>2
<1>2. ASSUME n \in [Part -> Nat], \A p \in Part : n[p] <= Size[p] PROVE n \in Counts
  <2>1. \A p \in Part : n[p] = 0 \/ n[p] \in 1 .. Size[p]
    <3> SUFFICES ASSUME NEW p \in Part PROVE n[p] = 0 \/ n[p] \in 1 .. Size[p]
      OBVIOUS
    <3>1. n[p] \in Nat /\ n[p] <= Size[p] /\ Size[p] \in Nat
      BY <1>2, Sizes
    <3> QED BY <3>1
  <2>2. n \in [Part -> Index \cup {0}]
    BY <1>2, <2>1, Sizes
  <2> QED BY <1>2, <2>2 DEF Counts
<1> QED BY <1>1, <1>2

LEMMA BlocksAre ==
    ASSUME NEW f
    PROVE  f \in Blocks <=>
             f \in [Part -> SUBSET Nat] /\ \A p \in Part : f[p] \subseteq 1 .. Size[p]
<1>1. ASSUME f \in Blocks
      PROVE  f \in [Part -> SUBSET Nat] /\ \A p \in Part : f[p] \subseteq 1 .. Size[p]
  BY <1>1, Sizes DEF Blocks
<1>2. ASSUME f \in [Part -> SUBSET Nat], \A p \in Part : f[p] \subseteq 1 .. Size[p]
      PROVE  f \in Blocks
  <2>1. \A p \in Part : f[p] \subseteq Index
    BY <1>2, Sizes
  <2>2. f \in [Part -> SUBSET Index]
    BY <1>2, <2>1
  <2> QED BY <1>2, <2>2 DEF Blocks
<1> QED BY <1>1, <1>2

LEMMA Ends ==
    /\ Zero \in Counts /\ Size \in Counts
    /\ Empty \in Blocks /\ Whole \in Blocks
    /\ \A n \in Counts : Upto(n) \in Blocks
<1>1. Zero \in Counts
  BY Sizes, CountsAre DEF Zero
<1>2. Size \in Counts
  BY DownloadAssumption, Sizes, CountsAre
<1>3. Empty \in Blocks
  BY BlocksAre DEF Empty
<1>4. ASSUME NEW n \in Counts PROVE Upto(n) \in Blocks
  <2>1. n \in [Part -> Nat] /\ \A p \in Part : n[p] <= Size[p]
    BY CountsAre
  <2>2. \A p \in Part : 1 .. n[p] \subseteq 1 .. Size[p]
    <3> SUFFICES ASSUME NEW p \in Part PROVE 1 .. n[p] \subseteq 1 .. Size[p]
      OBVIOUS
    <3>1. n[p] \in Nat /\ n[p] <= Size[p] /\ Size[p] \in Nat
      BY <2>1, Sizes
    <3> QED BY <3>1
  <2>3. Upto(n) \in [Part -> SUBSET Nat] /\ \A p \in Part : Upto(n)[p] \subseteq 1 .. Size[p]
    BY <2>1, <2>2 DEF Upto
  <2> QED BY <2>3, BlocksAre
<1> QED BY <1>1, <1>2, <1>3, <1>4 DEF Whole

\* Blocks of one range added or taken away.
LEMMA BlocksPut ==
    ASSUME NEW f \in Blocks, NEW p \in Part, NEW s, s \subseteq 1 .. Size[p]
    PROVE  [f EXCEPT ![p] = s] \in Blocks
<1>1. f \in [Part -> SUBSET Nat] /\ \A q \in Part : f[q] \subseteq 1 .. Size[q]
  BY BlocksAre
<1>2. 1 .. Size[p] \subseteq Nat
  BY Sizes
<1>3. [f EXCEPT ![p] = s] \in [Part -> SUBSET Nat]
  BY <1>1, <1>2
<1>4. \A q \in Part : [f EXCEPT ![p] = s][q] \subseteq 1 .. Size[q]
  BY <1>1
<1> QED BY <1>3, <1>4, BlocksAre

-----------------------------------------------------------------------------
(* Types *)

LEMMA RetryTyped ==
    ASSUME TypeOK, NEW p \in Part, at = "ranges", Retry(p)
    PROVE  /\ at' \in Stage /\ result' \in {"ok", "error", "no_ranges"}
           /\ part' \in [Part -> Job] /\ done' = done
           /\ attempt' \in [Part \cup {Body} -> 0 .. MaxRetries]
<1>1. CASE attempt[p] < MaxRetries /\ attempt' = [attempt EXCEPT ![p] = @ + 1]
           /\ part' = [part EXCEPT ![p] = "wait"] /\ UNCHANGED <<at, result, done>>
  <2>1. attempt[p] + 1 \in 0 .. MaxRetries
    BY <1>1, DownloadAssumption DEF TypeOK
  <2> QED BY <1>1, <2>1 DEF TypeOK, Job
<1>2. CASE attempt[p] = MaxRetries /\ EndRanges("error")
  BY <1>2 DEF TypeOK, EndRanges, Off, Stage, Job
<1> QED BY <1>1, <1>2 DEF Retry

LEMMA Bounded ==
    ASSUME TypeOK
    PROVE  /\ Harm => harm' \in 0 .. MaxHarm
           /\ Break => breaks' \in 0 .. MaxBreaks
BY DownloadAssumption DEF TypeOK, Harm, Break

LEMMA PlanTyped ==
    ASSUME TypeOK, Plan PROVE TypeOK'
<1>1. done' \in Counts /\ file' \in Blocks \cup {None}
  BY Ends DEF TypeOK, Plan, Resumes
<1>2. part' \in [Part -> Job]
  BY DEF Plan, Job
<1>3. attempt' \in [Part \cup {Body} -> 0 .. MaxRetries]
  BY DownloadAssumption DEF Plan
<1> QED BY <1>1, <1>2, <1>3 DEF TypeOK, Plan, Stage, Calm

LEMMA FetchTyped ==
    ASSUME TypeOK, NEW p \in Part, Fetch(p) PROVE TypeOK'
<1>1. CASE Respond(p)
  BY <1>1 DEF TypeOK, Respond, Job, disk, Calm
<1>2. CASE Chunk(p)
  <2>1. done \in [Part -> Nat] /\ done[p] \in Nat /\ Size[p] \in Nat
    BY Sizes, CountsAre DEF TypeOK
  <2>2. done'[p] = done[p] + 1 /\ done'[p] \in 1 .. Size[p]
    BY <1>2, <2>1 DEF Chunk
  <2>3. done' \in [Part -> Nat]
    BY <1>2, <2>1 DEF Chunk
  <2>4. \A q \in Part : done'[q] <= Size[q]
    BY <1>2, <2>1, <2>2, CountsAre DEF Chunk, TypeOK
  <2>5. done' \in Counts
    BY <2>3, <2>4, CountsAre
  <2>6. writing[p] \cup {done'[p]} \subseteq 1 .. Size[p]
    BY <2>2, BlocksAre DEF TypeOK
  <2>7. writing' \in Blocks
    BY <1>2, <2>6, BlocksPut DEF Chunk, TypeOK
  <2> QED BY <1>2, <2>5, <2>7 DEF TypeOK, Chunk, Calm
<1>3. CASE PartDone(p)
  BY <1>3 DEF TypeOK, PartDone, Job, disk, Calm
<1>4. CASE PartFailed(p)
  BY <1>4, RetryTyped DEF TypeOK, PartFailed, disk, Calm
<1>5. CASE Again(p)
  BY <1>5 DEF TypeOK, Again, Job, disk, Calm
<1> QED BY <1>1, <1>2, <1>3, <1>4, <1>5 DEF Fetch

LEMMA PartEndTyped ==
    ASSUME TypeOK, NEW p \in Part, NoRanges(p) \/ Refused(p) \/ PartBreaks(p) PROVE TypeOK'
<1>1. CASE NoRanges(p)
  BY <1>1 DEF TypeOK, NoRanges, EndRanges, Off, Stage, Job, disk, Calm
<1>2. CASE Refused(p)
  BY <1>2, Bounded DEF TypeOK, Refused, EndRanges, Off, Stage, Job, disk, Break
<1>3. CASE PartBreaks(p)
  BY <1>3, RetryTyped, Bounded DEF TypeOK, PartBreaks, disk, Break
<1> QED BY <1>1, <1>2, <1>3

LEMMA WriteTyped ==
    ASSUME TypeOK, WritingInv, NEW p \in Part, Land(p) \/ LoseWrite(p) PROVE TypeOK'
<1>1. CASE Land(p)
  <2>1. PICK k \in writing[p] :
          /\ writing' = [writing EXCEPT ![p] = @ \ {k}]
          /\ file' = [file EXCEPT ![p] = @ \cup {k}]
          /\ UNCHANGED <<at, result, jobs, state, saving, blob>> /\ Calm
    BY <1>1 DEF Land
  <2>2. file \in Blocks
    BY <2>1 DEF TypeOK, WritingInv, Empty
  <2>3. writing[p] \subseteq 1 .. Size[p] /\ file[p] \subseteq 1 .. Size[p]
    BY <2>2, BlocksAre DEF TypeOK
  <2>4. writing' \in Blocks /\ file' \in Blocks
    BY <2>1, <2>2, <2>3, BlocksPut DEF TypeOK
  <2> QED BY <2>1, <2>4 DEF TypeOK, jobs, Calm
<1>2. CASE LoseWrite(p)
  <2>1. PICK k \in writing[p] : writing' = [writing EXCEPT ![p] = @ \ {k}]
    BY <1>2 DEF LoseWrite
  <2>2. writing[p] \subseteq 1 .. Size[p]
    BY BlocksAre DEF TypeOK
  <2>3. writing' \in Blocks
    BY <2>1, <2>2, BlocksPut DEF TypeOK
  <2>4. part' \in [Part -> Job]
    BY <1>2 DEF TypeOK, LoseWrite, Job
  <2> QED BY <1>2, <2>3, <2>4, Bounded DEF TypeOK, LoseWrite, Harm
<1> QED BY <1>1, <1>2

LEMMA PullTyped ==
    ASSUME TypeOK, Pull PROVE TypeOK'
<1>1. CASE Plan
  BY <1>1, PlanTyped
<1>2. CASE AllDone
  BY <1>2 DEF TypeOK, AllDone, EndRanges, Off, Stage, Job, disk, Calm
<1>3. CASE LastSave
  BY <1>3 DEF TypeOK, LastSave, Save, Stage, jobs, Calm
<1>4. CASE Fallback
  BY <1>4 DEF TypeOK, Fallback, Stage, jobs, Calm
<1>5. CASE FetchWhole
  BY <1>5, Ends DEF TypeOK, FetchWhole, Stage, jobs, Calm
<1>6. CASE Hash
  BY <1>6, Ends DEF TypeOK, Hash, Stage, jobs, Calm
<1>7. CASE Discard
  BY <1>7, Ends DEF TypeOK, Discard, Stage, jobs, Calm
<1>8. CASE Forget
  BY <1>8 DEF TypeOK, Forget, Stage, jobs, Calm
<1> QED BY <1>1, <1>2, <1>3, <1>4, <1>5, <1>6, <1>7, <1>8 DEF Pull

LEMMA RestTyped ==
    ASSUME TypeOK,
           Tick \/ Saved \/ SaveFails \/ WholeBreaks \/ GiveUp \/ Crash \/ Prune
    PROVE  TypeOK'
<1>1. CASE Tick
  BY <1>1 DEF TypeOK, Tick, Save, Stage, jobs, Calm
<1>0. AfterSave \in Stage
  BY DEF TypeOK, AfterSave, Stage
<1>2. CASE Saved
  BY <1>0, <1>2 DEF TypeOK, Saved, jobs, Calm
<1>3. CASE SaveFails
  BY <1>0, <1>3, Bounded DEF TypeOK, SaveFails, jobs, Harm
<1>4. CASE WholeBreaks
  <2>1. file' \in Blocks /\ at' \in Stage
    BY <1>4, Ends DEF WholeBreaks, Stage
  <2>2. attempt' \in [Part \cup {Body} -> 0 .. MaxRetries]
    <3>1. CASE UNCHANGED attempt
      BY <3>1 DEF TypeOK
    <3>2. CASE attempt[Body] < MaxRetries /\ attempt' = [attempt EXCEPT ![Body] = @ + 1]
      <4>1. attempt[Body] + 1 \in 0 .. MaxRetries
        BY <3>2, DownloadAssumption DEF TypeOK
      <4> QED BY <3>2, <4>1 DEF TypeOK
    <3> QED BY <1>4, <3>1, <3>2 DEF WholeBreaks
  <2> QED BY <1>4, <2>1, <2>2, Bounded DEF TypeOK, WholeBreaks, Break
<1>5. CASE GiveUp
  BY <1>5, Bounded DEF TypeOK, GiveUp, Off, Stage, Job, disk, Harm
<1>6. CASE Crash
  BY <1>6, Ends, Bounded DEF TypeOK, Crash, Off, Stage, Job, Harm
<1>7. CASE Prune
  BY <1>7 DEF TypeOK, Prune, jobs, Calm
<1> QED BY <1>1, <1>2, <1>3, <1>4, <1>5, <1>6, <1>7

-----------------------------------------------------------------------------
(* Writes without a file *)

LEMMA WritingKept ==
    ASSUME TypeOK, WritingInv, Next
    PROVE  WritingInv'
<1>0. Empty # None /\ Whole # None /\ (\A n \in Counts : Upto(n) # None)
      /\ \A f \in [Part -> SUBSET Nat] : f # None
  BY Ends, BlocksAre, DownloadAssumption
<1>1. ASSUME NEW p \in Part, Fetch(p) \/ NoRanges(p) \/ Refused(p) \/ PartBreaks(p)
      PROVE  WritingInv'
  <2>1. at = "ranges" /\ at' \in {"ranges", "ended"} /\ UNCHANGED file
    BY <1>1 DEF Fetch, Respond, Chunk, PartDone, PartFailed, Again, NoRanges, Refused,
                PartBreaks, Retry, EndRanges, disk
  <2> QED BY <2>1 DEF WritingInv
<1>2. ASSUME NEW p \in Part, Land(p) \/ LoseWrite(p) PROVE WritingInv'
  <2>1. file # None
    BY <1>2 DEF WritingInv, Empty, Land, LoseWrite
  <2>2. file' \in [Part -> SUBSET Nat] /\ UNCHANGED at
    <3>1. file \in [Part -> SUBSET Nat] /\ writing \in [Part -> SUBSET Nat]
      BY <2>1, BlocksAre DEF TypeOK
    <3> QED BY <1>2, <3>1 DEF Land, LoseWrite
  <2> QED BY <1>0, <2>1, <2>2 DEF WritingInv
<1>3. CASE Plan
  BY <1>0, <1>3 DEF WritingInv, Plan, Resumes
<1>4. CASE Pull /\ ~Plan
  BY <1>0, <1>4 DEF WritingInv, Pull, AllDone, EndRanges, LastSave, Save, Fallback,
       FetchWhole, Hash, Discard, Forget, disk
<1>5. CASE Tick \/ Saved \/ SaveFails
  BY <1>5 DEF WritingInv, Tick, Save, Saved, SaveFails, AfterSave
<1>6. CASE WholeBreaks
  BY <1>0, <1>6 DEF WritingInv, WholeBreaks
<1>7. CASE GiveUp \/ Crash \/ Prune
  BY <1>7 DEF WritingInv, GiveUp, Crash, Prune, disk
<1> QED BY <1>1, <1>2, <1>3, <1>4, <1>5, <1>6, <1>7 DEF Next

-----------------------------------------------------------------------------
(* Ranges that ended in full *)

LEMMA FullKept ==
    ASSUME TypeOK, ResultInv, FullInv, Next
    PROVE  ResultInv' /\ FullInv'
<1>1. ASSUME NEW p \in Part, Respond(p) PROVE ResultInv' /\ FullInv'
  BY <1>1 DEF TypeOK, ResultInv, FullInv, Respond
<1>2. ASSUME NEW p \in Part, Chunk(p) PROVE ResultInv' /\ FullInv'
  BY <1>2 DEF TypeOK, ResultInv, FullInv, Chunk, Counts
<1>3. ASSUME NEW p \in Part, PartDone(p) PROVE ResultInv' /\ FullInv'
  BY <1>3 DEF TypeOK, ResultInv, FullInv, PartDone
<1>4. ASSUME NEW p \in Part, PartFailed(p) \/ PartBreaks(p) PROVE ResultInv' /\ FullInv'
  BY <1>4 DEF TypeOK, ResultInv, FullInv, PartFailed, PartBreaks, Retry, EndRanges
<1>5. ASSUME NEW p \in Part, Again(p) PROVE ResultInv' /\ FullInv'
  <2>1. done[p] \in Nat /\ Size[p] \in Nat /\ done[p] <= Size[p]
    BY Sizes, CountsAre DEF TypeOK
  <2> QED BY <1>5, <2>1 DEF TypeOK, ResultInv, FullInv, Again
<1>6. ASSUME NEW p \in Part, NoRanges(p) \/ Refused(p) PROVE ResultInv' /\ FullInv'
  BY <1>6 DEF ResultInv, FullInv, NoRanges, Refused, EndRanges
<1>7. ASSUME NEW p \in Part, Land(p) \/ LoseWrite(p) PROVE ResultInv' /\ FullInv'
  BY <1>7 DEF TypeOK, ResultInv, FullInv, Land, LoseWrite, jobs
<1>8. CASE Plan
  <2>1. at' = "ranges"
    BY <1>8 DEF Plan
  <2>2. done' \in Counts
    BY <1>8, Ends DEF Plan, Resumes
  <2>3. ASSUME NEW p \in Part, part'[p] = "ok" PROVE done'[p] = Size[p]
    <3>1. ~(done'[p] < Size[p])
      BY <1>8, <2>3 DEF Plan
    <3>2. done'[p] \in Nat /\ Size[p] \in Nat /\ done'[p] <= Size[p]
      BY <2>2, Sizes, CountsAre
    <3> QED BY <3>1, <3>2
  <2> QED BY <2>1, <2>3 DEF ResultInv, FullInv
<1>9. CASE AllDone
  <2>1. \A p \in Part : done[p] = Size[p]
    BY <1>9 DEF AllDone, FullInv
  <2>2. done = Size
    BY <2>1, CountsAre, DownloadAssumption DEF TypeOK
  <2> QED BY <1>9, <2>2 DEF ResultInv, FullInv, AllDone, EndRanges
<1>10. CASE Tick \/ LastSave
  BY <1>10 DEF ResultInv, FullInv, Tick, LastSave, Save, jobs
<1>11. CASE Saved \/ SaveFails
  BY <1>11 DEF TypeOK, ResultInv, FullInv, Saved, SaveFails, AfterSave, jobs
<1>12. CASE Fallback \/ FetchWhole \/ WholeBreaks
  BY <1>12 DEF ResultInv, FullInv, Fallback, FetchWhole, WholeBreaks, jobs
<1>13. CASE Hash \/ Discard \/ Forget
  BY <1>13 DEF ResultInv, FullInv, Hash, Discard, Forget
<1>14. CASE GiveUp \/ Crash
  BY <1>14 DEF ResultInv, FullInv, GiveUp, Crash
<1>15. CASE Prune
  BY <1>15 DEF ResultInv, FullInv, Prune, jobs
<1> QED
  BY <1>1, <1>2, <1>3, <1>4, <1>5, <1>6, <1>7, <1>8, <1>9, <1>10, <1>11, <1>12, <1>13,
     <1>14, <1>15 DEF Next, Fetch, Pull

-----------------------------------------------------------------------------
(* Counters and saved counts without harm *)

\* What was counted stays so while only bytes come to the file or to be written.
LEMMA InFileKept ==
    ASSUME NEW n, InFile(n), file' # None,
           \A p \in Part : file[p] \cup writing[p] \subseteq file'[p] \cup writing'[p],
           UNCHANGED n
    PROVE  InFile(n)'
BY DEF InFile

\* A write moves a block from one set to the other.
LEMMA LandMoves ==
    ASSUME TypeOK, WritingInv, NEW p \in Part, Land(p)
    PROVE  /\ file \in Blocks /\ file' # None
           /\ \A q \in Part : file[q] \cup writing[q] \subseteq file'[q] \cup writing'[q]
<1>1. file # None
  BY DEF WritingInv, Empty, Land
<1>2. file \in [Part -> SUBSET Nat] /\ writing \in [Part -> SUBSET Nat]
  BY <1>1, BlocksAre DEF TypeOK
<1>3. file' \in [Part -> SUBSET Nat]
  BY <1>2 DEF Land
<1>4. ASSUME NEW q \in Part
      PROVE  file[q] \cup writing[q] \subseteq file'[q] \cup writing'[q]
  BY <1>2 DEF Land
<1> QED BY <1>1, <1>3, <1>4, DownloadAssumption DEF TypeOK

\* While the ranges go on, and when they end, only the counters matter.
LEMMA RangesClean ==
    ASSUME Clean, at = "ranges", at' \in {"ranges", "ended"}, InFile(done)', saving' = saving
    PROVE  Clean'
BY DEF Clean

LEMMA RangesStart ==
    ASSUME at' = "ranges", InFile(done)', saving' = None
    PROVE  Clean'
BY DEF Clean

LEMMA JobClean ==
    ASSUME DownloadInv, Clean, NEW p \in Part,
           Fetch(p) \/ NoRanges(p) \/ Refused(p) \/ PartBreaks(p)
    PROVE  Clean'
<1>1. CASE Chunk(p)
  <2>1. done \in [Part -> Nat] /\ writing \in [Part -> SUBSET Nat]
    BY CountsAre, BlocksAre DEF DownloadInv, TypeOK
  <2>2. InFile(done) /\ file' = file
    BY <1>1 DEF Clean, Chunk
  <2>3. ASSUME NEW q \in Part PROVE 1 .. done'[q] \subseteq file'[q] \cup writing'[q]
    <3>1. CASE q = p
      <4>1. done'[q] = done[q] + 1 /\ writing'[q] = writing[q] \cup {done[q] + 1}
        BY <1>1, <2>1, <3>1 DEF Chunk
      <4>2. 1 .. done'[q] = 1 .. done[q] \cup {done[q] + 1}
        BY <2>1, <4>1
      <4> QED BY <2>2, <4>1, <4>2 DEF InFile
    <3>2. CASE q # p
      BY <1>1, <2>1, <2>2, <3>2 DEF Chunk, InFile
    <3> QED BY <3>1, <3>2
  <2>4. InFile(done)'
    BY <2>2, <2>3 DEF InFile
  <2> QED BY <1>1, <2>4, RangesClean DEF Chunk
<1>2. CASE ~Chunk(p)
  <2>1. at = "ranges" /\ at' \in {"ranges", "ended"} /\ UNCHANGED <<done, disk>>
    BY <1>2 DEF Fetch, Respond, PartDone, PartFailed, Again, NoRanges, Refused, PartBreaks,
                Retry, EndRanges
  <2>2. InFile(done)'
    BY <2>1 DEF Clean, InFile, disk
  <2> QED BY <2>1, <2>2, RangesClean DEF disk
<1> QED BY <1>1, <1>2

LEMMA PlanClean ==
    ASSUME DownloadInv, Clean, Plan PROVE Clean'
<1>1. at = "idle" /\ at' = "ranges" /\ saving = None /\ saving' = None
  BY DEF Plan, Clean
<1>2. CASE Resumes
  <2>1. state # None /\ state = done /\ InFile(done)
    BY <1>1, <1>2, CountsAre, DownloadAssumption DEF Resumes, Clean
  <2>2. InFile(done)'
    BY <1>2, <2>1 DEF Plan, InFile
  <2> QED BY <1>1, <2>2, RangesStart
<1>3. CASE ~Resumes
  <2>1. file' = Empty /\ done' = Zero /\ Empty # None
    BY <1>3, Ends, BlocksAre, DownloadAssumption DEF Plan
  <2>2. \A p \in Part : 1 .. done'[p] = {}
    BY <2>1 DEF Zero
  <2>3. InFile(done)'
    BY <2>1, <2>2 DEF InFile
  <2> QED BY <1>1, <2>3, RangesStart
<1> QED BY <1>2, <1>3

LEMMA SaveClean ==
    ASSUME DownloadInv, Clean, Tick \/ LastSave \/ Saved PROVE Clean'
<1>1. CASE Tick \/ LastSave
  <2>1. InFile(done)' /\ saving' = done /\ done' = done /\ at' \in {"tick", "saving"}
    BY <1>1 DEF Tick, LastSave, Save, Clean, InFile, jobs
  <2> QED BY <2>1 DEF Clean
<1>2. CASE Saved
  <2>1. /\ at \in {"tick", "saving"} /\ saving = done /\ InFile(done)
        /\ state' = done /\ saving' = None /\ at' = AfterSave
        /\ UNCHANGED <<result, done, file, writing>>
    BY <1>2 DEF Saved, Clean, jobs
  <2>2. InFile(done)'
    BY <2>1 DEF InFile
  <2>3. CASE at = "tick"
    BY <2>1, <2>2, <2>3 DEF Clean, AfterSave
  <2>4. CASE at = "saving" /\ result = "ok"
    <3>1. done = Size
      BY <2>4 DEF DownloadInv, FullInv
    <3>2. InFile(Size)'
      BY <2>1, <3>1 DEF InFile
    <3> QED BY <2>1, <2>4, <3>2 DEF Clean, AfterSave
  <2>5. CASE at = "saving" /\ result = "error"
    BY <2>1, <2>2, <2>5 DEF Clean, AfterSave
  <2>6. CASE at = "saving" /\ result = "no_ranges"
    BY <2>1, <2>6 DEF Clean, AfterSave
  <2> QED BY <2>1, <2>3, <2>4, <2>5, <2>6 DEF DownloadInv, TypeOK
<1> QED BY <1>1, <1>2

LEMMA WholeClean ==
    ASSUME DownloadInv, Clean,
           Fallback \/ FetchWhole \/ WholeBreaks \/ Hash \/ Discard \/ Forget
    PROVE  Clean'
<1>1. saving = None /\ saving' = None
  BY DEF Clean, Fallback, FetchWhole, WholeBreaks, Hash, Discard, Forget
<1>2. CASE Fallback
  BY <1>1, <1>2 DEF Clean, Fallback
<1>3. CASE FetchWhole
  <2>1. file' = Whole /\ Whole # None /\ state = None /\ state' = None /\ at' = "hash"
    BY <1>3, Ends, BlocksAre, DownloadAssumption DEF FetchWhole, Clean
  <2>2. InFile(Size)'
    BY <2>1 DEF InFile, Whole, Upto
  <2> QED BY <1>1, <2>1, <2>2 DEF Clean
<1>4. CASE WholeBreaks
  BY <1>1, <1>4 DEF Clean, WholeBreaks
<1>5. CASE Hash
  BY <1>1, <1>5 DEF Clean, Hash, DownloadInv, TypeOK, ResultInv
<1>6. CASE Discard \/ Forget
  BY <1>1, <1>6 DEF Clean, Discard, Forget
<1> QED BY <1>2, <1>3, <1>4, <1>5, <1>6

LEMMA LandClean ==
    ASSUME DownloadInv, Clean, NEW p \in Part, Land(p) PROVE Clean'
<1>1. /\ file' # None
      /\ \A q \in Part : file[q] \cup writing[q] \subseteq file'[q] \cup writing'[q]
  BY LandMoves DEF DownloadInv
<1>2. UNCHANGED <<at, result, done, state, saving, Size>>
  BY DEF Land, jobs
<1>3. (InFile(done) => InFile(done)') /\ (InFile(Size) => InFile(Size)')
  BY <1>1, <1>2 DEF InFile
<1> QED BY <1>2, <1>3 DEF Clean

LEMMA CleanKept ==
    ASSUME DownloadInv, Next PROVE CleanInv'
<1> SUFFICES ASSUME harm' = 0 PROVE Clean'
  BY DEF CleanInv
<1>1. ~Harm
  BY DownloadAssumption DEF Harm, DownloadInv, TypeOK
<1>2. harm = 0
  BY <1>1 DEF Next, Pull, Fetch, Respond, Chunk, PartDone, PartFailed, Again, NoRanges,
       Refused, PartBreaks, Land, LoseWrite, Plan, AllDone, LastSave, Save, Tick, Fallback,
       FetchWhole, Hash, Discard, Forget, Saved, SaveFails, WholeBreaks, GiveUp, Crash,
       Prune, Calm
<1>3. Clean
  BY <1>2 DEF DownloadInv, CleanInv
<1>4. ASSUME NEW p \in Part, Fetch(p) \/ NoRanges(p) \/ Refused(p) \/ PartBreaks(p)
      PROVE  Clean'
  BY <1>3, <1>4, JobClean
<1>5. ASSUME NEW p \in Part, Land(p) \/ LoseWrite(p) PROVE Clean'
  BY <1>1, <1>3, <1>5, LandClean DEF LoseWrite
<1>6. CASE AllDone
  <2>1. InFile(done)' /\ saving' = saving
    BY <1>3, <1>6 DEF Clean, InFile, AllDone, EndRanges, disk
  <2> QED BY <1>3, <1>6, <2>1, RangesClean DEF AllDone, EndRanges
<1>7. CASE Pull /\ ~AllDone
  BY <1>3, <1>7, PlanClean, SaveClean, WholeClean DEF Pull
<1>8. CASE Tick \/ Saved \/ SaveFails \/ WholeBreaks
  BY <1>1, <1>3, <1>8, SaveClean, WholeClean DEF SaveFails
<1>9. CASE GiveUp \/ Crash
  BY <1>1, <1>9 DEF GiveUp, Crash
<1>10. CASE Prune
  BY <1>3, <1>10 DEF Clean, InFile, Prune, jobs
<1> QED BY <1>4, <1>5, <1>6, <1>7, <1>8, <1>9, <1>10 DEF Next

-----------------------------------------------------------------------------
(* After a start over *)

\* A file with all its blocks is whole.
LEMMA AllBlocks ==
    ASSUME NEW f \in Blocks, \A p \in Part : 1 .. Size[p] \subseteq f[p]
    PROVE  f = Whole
<1>1. f \in [Part -> SUBSET Nat] /\ Whole \in [Part -> SUBSET Nat]
  BY Ends, BlocksAre
<1>2. \A p \in Part : f[p] = Whole[p]
  BY BlocksAre DEF Whole, Upto
<1> QED BY <1>1, <1>2

\* Nothing fails in a step that leaves the count of failures as it is.
LEMMA NothingFails ==
    ASSUME TypeOK, Failures' = Failures
    PROVE  /\ ~(Harm /\ UNCHANGED breaks)
           /\ ~(Break /\ UNCHANGED harm)
BY DownloadAssumption DEF TypeOK, Failures, Harm, Break

LEMMA JobFresh ==
    ASSUME DownloadInv, Fresh, Failures' = Failures, NEW p \in Part,
           Fetch(p) \/ NoRanges(p) \/ Refused(p) \/ PartBreaks(p)
    PROVE  Fresh'
<1>0. /\ done \in [Part -> Nat] /\ writing \in [Part -> SUBSET Nat]
      /\ part \in [Part -> Job] /\ at = "ranges"
  BY CountsAre, BlocksAre DEF DownloadInv, TypeOK, Fetch, Respond, Chunk, PartDone, PartFailed,
     Again, NoRanges, Refused, PartBreaks
<1>1. CASE Respond(p) \/ PartDone(p)
  <2>1. CASE Respond(p)
    BY <1>0, <2>1 DEF Respond, Fresh, disk
  <2>2. CASE PartDone(p)
    BY <1>0, <2>2 DEF PartDone, Written, Fresh, disk
  <2> QED BY <1>1, <2>1, <2>2
<1>2. CASE Chunk(p)
  <2>1. /\ done' = [done EXCEPT ![p] = done[p] + 1] /\ at' = at /\ part' = part /\ file' = file
        /\ writing' = [writing EXCEPT ![p] = writing[p] \cup {done[p] + 1}]
        /\ part[p] = "stream" /\ done[p] \notin writing[p]
    BY <1>0, <1>2 DEF Chunk, Written
  <2>2. writing[p] = {}
    BY <1>0, <2>1 DEF Fresh
  <2>3. ASSUME NEW q \in Part
        PROVE  /\ part'[q] \in {"get", "stream", "ok"}
               /\ 1 .. done'[q] \subseteq file'[q] \cup writing'[q]
               /\ writing'[q] \subseteq {done'[q]}
               /\ part'[q] # "stream" => writing'[q] = {}
    <3>1. CASE q = p
      <4>1. 1 .. done'[q] = 1 .. done[q] \cup {done[q] + 1}
        BY <1>0, <2>1, <3>1
      <4> QED BY <1>0, <2>1, <2>2, <3>1, <4>1 DEF Fresh
    <3>2. CASE q # p
      BY <1>0, <2>1, <3>2 DEF Fresh
    <3> QED BY <3>1, <3>2
  <2> QED BY <1>0, <2>1, <2>3 DEF Fresh
<1>3. CASE NoRanges(p)
  BY <1>3 DEF NoRanges, EndRanges, Fresh
<1>4. ~Refused(p) /\ ~PartBreaks(p)
  BY NothingFails DEF DownloadInv, Refused, PartBreaks
<1>5. ~PartFailed(p) /\ ~Again(p)
  BY <1>0 DEF Fresh, PartFailed, Again
<1> QED BY <1>1, <1>2, <1>3, <1>4, <1>5 DEF Fetch

LEMMA LandFresh ==
    ASSUME DownloadInv, Fresh, NEW p \in Part, Land(p), TypeOK'
    PROVE  Fresh'
<1>1. /\ file \in Blocks /\ file' # None
      /\ \A q \in Part : file[q] \cup writing[q] \subseteq file'[q] \cup writing'[q]
  BY LandMoves DEF DownloadInv
<1>2. UNCHANGED <<at, result, part, done>>
  BY DEF Land, jobs
<1>3. file \in [Part -> SUBSET Nat] /\ writing \in [Part -> SUBSET Nat]
  BY <1>1, BlocksAre DEF DownloadInv, TypeOK
<1>4. \A q \in Part : writing'[q] \subseteq writing[q] /\ file[q] \subseteq file'[q]
  BY <1>3 DEF Land
<1>5. file # None
  BY DEF DownloadInv, WritingInv, Empty, Land
<1>6. file = Whole => file' = Whole
  <2> SUFFICES ASSUME file = Whole PROVE file' = Whole
    OBVIOUS
  <2>1. \A q \in Part : 1 .. Size[q] \subseteq file'[q]
    BY <1>4 DEF Whole, Upto
  <2> QED BY <1>1, <2>1, AllBlocks DEF TypeOK
<1>7. at \in {"ranges", "tick"} => \A q \in Part :
        /\ part[q] \in {"get", "stream", "ok"}
        /\ 1 .. done[q] \subseteq file'[q] \cup writing'[q]
        /\ writing'[q] \subseteq {done[q]}
        /\ part[q] # "stream" => writing'[q] = {}
  BY <1>1, <1>4 DEF Fresh
<1> QED BY <1>2, <1>5, <1>6, <1>7 DEF Fresh

LEMMA PullFresh ==
    ASSUME DownloadInv, Fresh, Pull
    PROVE  Fresh'
<1>1. CASE Plan
  <2>1. file = None /\ writing = Empty
    BY <1>1 DEF Plan, Fresh, DownloadInv, WritingInv
  <2>2. done' = Zero /\ file' = Empty /\ writing' = Empty /\ at' = "ranges"
    BY <1>1, <2>1 DEF Plan, Resumes
  <2>3. \A p \in Part : part'[p] = "get"
    <3> SUFFICES ASSUME NEW p \in Part PROVE part'[p] = "get"
      OBVIOUS
    <3>1. done'[p] < Size[p]
      BY <2>2, Sizes DEF Zero
    <3> QED BY <1>1, <3>1 DEF Plan
  <2>4. \A p \in Part : 1 .. done'[p] = {} /\ writing'[p] = {}
    BY <2>2 DEF Zero, Empty
  <2> QED BY <2>2, <2>3, <2>4 DEF Fresh
<1>2. CASE AllDone
  <2>1. \A p \in Part : 1 .. Size[p] \subseteq file[p]
    BY <1>2 DEF AllDone, Fresh, DownloadInv, FullInv
  <2>2. file \in Blocks
    BY <1>2 DEF AllDone, DownloadInv, WritingInv, TypeOK
  <2>3. file = Whole
    BY <2>1, <2>2, AllBlocks
  <2> QED BY <1>2, <2>3 DEF AllDone, EndRanges, disk, Fresh
<1>3. CASE LastSave
  BY <1>3 DEF LastSave, Save, Fresh
<1>4. CASE Fallback \/ FetchWhole
  BY <1>4 DEF Fallback, FetchWhole, Fresh
<1>5. CASE Hash
  BY <1>5 DEF Hash, Fresh
<1>6. CASE Discard \/ Forget
  BY <1>6 DEF Discard, Forget, Fresh
<1> QED BY <1>1, <1>2, <1>3, <1>4, <1>5, <1>6 DEF Pull

LEMMA FreshKept ==
    ASSUME DownloadInv, Fresh, Next, TypeOK', Failures' = Failures
    PROVE  Fresh'
<1>1. ASSUME NEW p \in Part, Fetch(p) \/ NoRanges(p) \/ Refused(p) \/ PartBreaks(p)
      PROVE  Fresh'
  BY <1>1, JobFresh
<1>2. ASSUME NEW p \in Part, Land(p) \/ LoseWrite(p) PROVE Fresh'
  <2>1. ~LoseWrite(p)
    BY NothingFails DEF DownloadInv, LoseWrite
  <2> QED BY <1>2, <2>1, LandFresh
<1>3. CASE Pull
  BY <1>3, PullFresh
<1>4. CASE Tick
  BY <1>4 DEF Tick, Save, jobs, Fresh
<1>5. CASE Saved
  <2>1. CASE at \in {"tick", "saving"}
    BY <1>5, <2>1 DEF Saved, AfterSave, jobs, Fresh, DownloadInv, TypeOK
  <2>2. CASE at \notin {"tick", "saving"}
    BY <1>5, <2>2 DEF Saved, AfterSave, jobs, Fresh
  <2> QED BY <2>1, <2>2
<1>6. ~SaveFails /\ ~WholeBreaks /\ ~GiveUp /\ ~Crash
  BY NothingFails DEF DownloadInv, SaveFails, WholeBreaks, GiveUp, Crash
<1>7. CASE Prune
  BY <1>7 DEF Prune, jobs, Fresh
<1> QED BY <1>1, <1>2, <1>3, <1>4, <1>5, <1>6, <1>7 DEF Next

-----------------------------------------------------------------------------
(* Theorems *)

LEMMA Start == Init => DownloadInv
<1> SUFFICES ASSUME Init PROVE DownloadInv
  OBVIOUS
<1>1. TypeOK
  BY Ends, DownloadAssumption DEF Init, TypeOK, Stage, Job
<1>2. ResultInv /\ FullInv /\ WritingInv
  BY DEF Init, ResultInv, FullInv, WritingInv
<1>3. CleanInv
  BY DEF Init, CleanInv, Clean
<1> QED BY <1>1, <1>2, <1>3 DEF DownloadInv

LEMMA Step == DownloadInv /\ [Next]_vars => DownloadInv'
<1> SUFFICES ASSUME DownloadInv, [Next]_vars PROVE DownloadInv'
  OBVIOUS
<1>1. CASE Next
  <2>1. TypeOK'
    BY <1>1, FetchTyped, PartEndTyped, WriteTyped, PullTyped, RestTyped DEF DownloadInv, Next
  <2>2. WritingInv'
    BY <1>1, WritingKept DEF DownloadInv
  <2>3. ResultInv' /\ FullInv'
    BY <1>1, FullKept DEF DownloadInv
  <2>4. CleanInv'
    BY <1>1, CleanKept
  <2> QED BY <2>1, <2>2, <2>3, <2>4 DEF DownloadInv
<1>2. CASE UNCHANGED vars
  BY <1>2 DEF vars, jobs, disk, DownloadInv, TypeOK, ResultInv, FullInv,
              WritingInv, CleanInv, Clean, InFile
<1> QED BY <1>1, <1>2

\* The invariant of the download holds for any plan of ranges, through any number of
\* pulls, retries, lost writes and ended daemons that the bounds let happen.
THEOREM DownloadInvariance == Spec => []DownloadInv
BY Start, Step, PTL DEF Spec

\* Every variable keeps its type: no counter passes the end of its range.
THEOREM DownloadTyped == Spec => []TypeOK
BY DownloadInvariance, PTL DEF DownloadInv

\* A file is verified with a hole only after a write was lost, a pull given up or
\* the daemon ended.
THEOREM HolesNeedHarm == Spec => []NoHoles
<1>1. DownloadInv => NoHoles
  BY DEF DownloadInv, CleanInv, Clean, InFile, NoHoles
<1> QED BY <1>1, DownloadInvariance, PTL

\* A pull that fails by itself leaves counts that say what is in its file, and all
\* that it had counted.
THEOREM FailedPullsResume == Spec => []Resumable
<1>1. DownloadInv => Resumable
  BY DEF DownloadInv, CleanInv, Clean, InFile, Resumable
<1> QED BY <1>1, DownloadInvariance, PTL

\* What failed once stays counted.
LEMMA FailuresStay ==
    ASSUME DownloadInv, [Next]_vars
    PROVE  Failures \in Nat /\ Failures' \in Nat /\ Failures' >= Failures
<1>1. harm \in Nat /\ breaks \in Nat
  BY DownloadAssumption DEF DownloadInv, TypeOK
<1>2. (harm' = harm \/ harm' = harm + 1) /\ (breaks' = breaks \/ breaks' = breaks + 1)
  BY DEF Next, Pull, Fetch, Respond, Chunk, PartDone, PartFailed, Again, NoRanges,
       Refused, PartBreaks, Land, LoseWrite, Plan, AllDone, LastSave, Save, Tick, Fallback,
       FetchWhole, Hash, Discard, Forget, Saved, SaveFails, WholeBreaks, GiveUp, Crash,
       Prune, Calm, Harm, Break, vars
<1> QED BY <1>1, <1>2 DEF Failures

\* A mismatch costs one download: whatever torn or stale counts, late saves and late
\* writes the pulls before left, the next file to be verified is whole, unless
\* something fails again.
THEOREM OneStartOver == Spec => StartsOver
<1> SUFFICES ASSUME NEW n \in 0 .. MaxHarm + MaxBreaks
             PROVE  Spec => StartsOverAt(n)
  BY DEF StartsOver
<1> DEFINE Since == Failures >= n /\ (Failures = n => Fresh)
<1>0. n \in Nat
  BY DownloadAssumption
<1>1. DownloadInv /\ at = "forget" /\ Failures = n => Since
  BY <1>0 DEF DownloadInv, WritingInv, Fresh
<1>2. DownloadInv /\ Since /\ DownloadInv' /\ [Next]_vars => Since'
  <2> SUFFICES ASSUME DownloadInv, Since, DownloadInv', [Next]_vars PROVE Since'
    OBVIOUS
  <2>1. Failures \in Nat /\ Failures' \in Nat /\ Failures' >= Failures
    BY FailuresStay
  <2>2. ASSUME Failures' = n PROVE Fresh'
    <3>1. Failures = n /\ Fresh
      BY <1>0, <2>1, <2>2
    <3>2. CASE Next
      BY <2>2, <3>1, <3>2, FreshKept DEF DownloadInv
    <3>3. CASE UNCHANGED vars
      BY <3>1, <3>3 DEF vars, jobs, disk, Fresh
    <3> QED BY <3>2, <3>3
  <2> QED BY <1>0, <2>1, <2>2
<1>3. Since /\ Failures = n => at # "mismatch"
  BY DEF Fresh
<1> HIDE DEF Since
<1> QED BY <1>1, <1>2, <1>3, DownloadInvariance, PTL DEF Spec, StartsOverAt
=============================================================================
