# Ollaya in TLA+

Ollaya is a local server of decision models: a daemon that keeps models in a store, loads each of
them into a process of its own (a *runner*), and answers questions over HTTP. These modules model
the parts of it where order matters: who loads and unloads runners, who writes the store, how
clients share a pull, how a decision travels to its runner and back, how a model comes to a device
and what it keeps between requests, and who starts and stops the daemon. TLC checks the models on
small instances; TLAPS proves the most important properties for every instance.

Paths below are relative to `src/crates/`, or to `src/` (`desktop/`, `docs/`). Line numbers are in `PROJECT.json`, under `map`.

## 1. The system

| Component | State | Operations | Interacts with |
|---|---|---|---|
| Runner scheduler, `ollaya-server/src/scheduler.rs` | map digest → runner; per runner its process, lease counter, last use, deadline, two flags; the load lock | acquire, drop of a lease, pin, unload, reap, make room, spawn, shutdown | called by the service; starts runner processes |
| Model store, `ollaya-registry/src/store.rs` | files: blobs, manifests | has_blob, write_blob, write_manifest, list, remove, prune, copy | called by puller and service; no lock, no other state |
| Puller, `ollaya-registry/src/pull.rs` | partial files and their saved counts | pull one model: manifest, check, blobs, manifest file | reads the registry, writes the store, sends progress |
| Service, `ollaya-server/src/service.rs` | tables of pulls and creates in flight | decide, load, pin, pull, create, delete, copy | scheduler, puller, store |
| HTTP server, `ollaya-server/src/http.rs` | decision counter, activity log, preloading flag | the endpoints, preload, serve and shut down | service |
| Runner launch, `ollaya-server/src/launch.rs` | none | executable, pack and device of a runner | the scheduler calls it |
| Runner process, `ollaya-runner/src/server.rs` | the model and the queue of its thread | load with fall back, decide, health | the scheduler starts and kills it, the service posts to it |
| Engines, `ollaya-runner/src/*` | sessions; the context of `llama/mod.rs` with its prefix; the bounded cache of `clm.rs` | the passes of a request | run by the model thread |
| MLX worker, `ollaya-mlx/src/worker.rs` | one thread, a channel | run a job, close and join | the MLX engines |
| Presets, `ollaya-server/src/presets.rs` | one file a preset | get, list, put, delete | HTTP server |
| Daemon control, `ollaya/src/daemon.rs` and the command line | pid file | start, find, stop the daemon | HTTP client |
| API types, `ollaya-api/src` | none | parse, validate, `keep_alive` | everything |
| Decisions, languages, browser build, `ollaya-decision`, `ollaya-lang`, `ollaya-web` | none | pure functions | engines, service, browser |
| Desktop, `desktop/src-tauri/src` | what its menu shows, whether it started the server | start, stop, follow the server | daemon control, HTTP client |
| Exporters, training, site, packaging | outside the daemon | | |

What is hard in it, and what makes it correct:

- **Scheduler.** Its map is locked for moments only, so each waiting operation (make room, unload,
  reap, load) acts on what it read before. Correct means: a request never loses the runner it
  leases to an unload; one process loads at a time and no model is loaded twice; leases are counted
  exactly; every idle runner can expire; everything that waits ends.
- **Store and puller.** No lock at all: a model is the sum of files written one by one, beside
  other pulls, creates and prunes, with crashes between any two. Correct means: a listed model has
  all its blobs, each with the content its name promises; one writer a name.
- **Shared pulls.** A task, its clients, a poll that gives it up, and a bounded channel between
  them. Correct means: one download a name; every client is told the end of the pull it follows;
  a pull that nobody follows stops, one that ended frees its name.
- **Decisions.** Handlers are dropped at any await, tasks are not. Correct means: the count of
  slots is exact and bounds the clients; a decision whose client has left is skipped while that is
  still possible; no job is lost or run twice; nobody starves.
- **Loads.** A launch of the daemon, a load in the runner, a warm-up, falls back within the process
  and by a second one, each of which may fail, crash or hang. Correct means: a device asked for by
  name is where the model runs, auto ends on the CPU before it gives up, one model is in memory at
  a time.
- **Engines with a memory.** A llama.cpp context keeps its cells, and clm-v1 its projections, for
  the next request, and any step may fail half-way. Correct means: an answer's numbers depend on
  its own rows alone.
- **Daemon control.** Servers race for a port and for one file that names them, commands read the
  file and act on it later. Correct means: the file names no server but the one that serves, a stop
  that says so has stopped one, and the tray comes to show what there is.

`PROJECT.json`, under `hazards`, lists what a test would hardly reach, line by line, with the
properties about it. What no property covers is in sections 5 and 6.

## 2. The modules

| Module | Models | Role |
|---|---|---|
| `Scheduler` | scheduler.rs; the callers in service.rs and http.rs | component |
| `SchedulerInv` | | its inductive invariant |
| `SchedulerProofs` | | its theorems, and that it implements `Runners` |
| `Runners` | what the daemon relies on from the scheduler | abstract specification |
| `RunnersProofs` | | its theorems |
| `SchedulerRefines` | | the scheduler's state as that of `Runners` |
| `MCScheduler` | | its instance for TLC |
| `ModelStore` | store.rs, pull.rs, and create, copy, delete and the claims of service.rs | component, with its inductive invariant |
| `Shelf` | what the daemon relies on from the store | abstract specification |
| `StoreRefines` | | the store's state as that of `Shelf` |
| `ModelStoreProofs` | | its theorems, and that it implements `Shelf` |
| `MCModelStore` | | its instance for TLC |
| `Download` | the ranges, saved counts and verification of one blob, in pull.rs | component, with its inductive invariant |
| `DownloadProofs` | | its theorems |
| `MCDownload` | | its instance for TLC |
| `PullService` | the pull task of service.rs and its HTTP response | component |
| `PullServiceProofs` | | its theorems |
| `MCPullService` | | its instance for TLC |
| `Decisions` | slots and detached decisions of http.rs, decide of service.rs, the model thread | component |
| `DecisionsProofs` | | its theorems |
| `RunnerLoad` | plan and spawn of scheduler.rs, launch.rs, load of the runner's server.rs, the devices of llama/mod.rs | component |
| `LlamaContext` | the context and the passes of llama/mod.rs | component |
| `ClmProjections` | the cache and the batches of clm.rs and engine.rs | component |
| `Runner` | a runner from its launch to its requests | composes the three above |
| `MCRunner` | | its instance for TLC |
| `Daemon` | daemon.rs; the bind, signal and shutdown of http.rs | component |
| `Desktop` | tray.rs and the start and stop of desktop lib.rs, beside `Daemon` | component, composed |
| `ProcessProofs` | | the theorems of `RunnerLoad`, `LlamaContext` and `ClmProjections` |
| `DesktopProofs` | | the theorems of `Daemon` and `Desktop` |

Definitions named like the code's functions model them; a definition whose comment begins with
"Fault" or "A fault" is a plausible bug, used by the mutants of `PROJECT.json` and by nothing else.

### Scheduler

`runners` is the map, `runner[r]` what a `Runner` object holds, `load_lock` the tokio mutex, `older`
the order of last use. A thread (a request's task, or the reaper) is at `pc[t]`; one action is one
critical section, and what a thread carries from one section to the next is in `tgt`, `hold`,
`expired` and `dead`. `LeaseLoaded`, `Queue`, `LeaseAfterWait`, `TakeLoadLock`, `MakeRoom`, `Spawn`,
`FallBackToCpu`, `LoadDone` and `LoadFails` are `acquire`; `StartClock` and `Unlease` are the drop
of a lease; `UnloadTake` and `UnloadKill` are `unload`, `ReapScan` to `Forget` the reaper.

Abstractions: time is whether a deadline is set and has passed (`Expire`); the drop of a lease is
two steps, the clock and then the counter, the order that matters to those who read them without
a lock; `pin` and `lease_existing` are one step, each being one critical section; the second look
at the map is one step with taking the load lock, since nothing happens between; `shutdown` drains
the map and kills the runners in one step; runner identities stand for `Arc`s and are used again
once nobody holds one (`DropUnheld`, kill_on_drop). Bounds: `Request` tasks at once, `Runner`
objects at once, `Asks` for the values requests bring, `Preloaded` for the models pinned at start.

### Runners and the refinement

`Runners` is what the scheduler promises whatever its waits, evictions and reaping do: a model is
offered by at most one runner; one model loads at a time, and none that is offered; a request
leases the runner that is offered for its model, keeps it until it gives it back, and meanwhile no
step ends that runner's process but its own exit or the daemon's. Its steps have no locks, lists or
clocks. `SchedulerRefines` maps the scheduler to it: the map is the offer, the loading model that
of the load lock's holder while it starts a process, a lease what a request holds, and a process
counts while the map or a request has its runner. Everything else is a stutter.

### ModelStore

`blobs`, `partial`, `manifests`, `temp` and `made` are the files: blobs in place, being downloaded,
manifests, and the temporary siblings of manifests and of blobs that `write_atomic` makes (`stale`
are those of a dead daemon). `pulls` and `creating` are the two tables, `ops[o]` a task: what it
does, and where it is. A pull goes `PullStart`, `FetchManifest`, for each blob `SkipBlob` or
`OpenPartial`, `FetchDone`, `Verify`, `RenameBlob`, then `LayersDone`, `WriteTemp`, `FillTemp`,
`Install` and `Release`. A create brings its blobs by `CheckBlob`, `WriteBlob`, `FillBlob` and
`PutBlob`, the steps of `write_blob`. `Crash` ends every task and keeps the files.

Partial and temporary files belong to a blob, not to a task, so tasks that share a blob meet in them:
one truncates (`Truncated`), removes or renames (`Moved`) the file another has open, and a task's
`file` and `lost` say where the file it opened is now and whether its bytes were cut away. A pull
given up at an await drops its future (`PullStops`), but a file operation it waited for is on tokio's
thread pool and happens all the same, then or later: `PullAbandons` leaves it in `late`, and
`LateOpen`, `LateRename` and `LateRemove` are its coming, when others may hold the name. `WriteFails`
is a write or rename that fails: what was written of the temporary manifest stays.

Abstractions: a listing of the directory is one step (both in `list` and in `prune`); the wait of a
delete for its unload is inside `DeleteStart` to `RemoveManifest`, any number of steps of others
apart; the order of a manifest's blobs is left open; a download leaves good or bad content, which
over-approximates the parts and their resume; of the calls left to come there is one of a kind for
a blob, an open that resumes has no effect and is left out, and the writes that outlive their pull
are `Download`'s; manifest temporary files belong to a name each, so names that share one are not
covered; routers are not covered. A manifest is an identity with a set of blobs; the size a blob is
checked by is right for good content and for bad content of the same length, so `HasBlob` sees
presence only. Power loss is not covered: there is no fsync before the renames, and what a disk keeps
then is open.

`Apart` is what the store asks of those who use it: a delete or a copy meets no other task, nor a
call one left, and no two tasks bring one missing blob at a time. Tags may share any blobs, one
after the other. Nothing in the daemon sees to it (section 5); the run has it as its constraint, the
theorems as their hypothesis `[]Apart`.

### Shelf and the refinement

`Shelf` is the store without files: a name has a model or none, which comes, is replaced and goes at
once; a model is there only with all its blobs; who brings one has claimed its name, once, and
brings what it asked for (the digest of the name, or the model derived from the one `FROM` has).
`StoreRefines` maps the store to it: the models are the manifest files, a blob is kept when its file
has the right content, a claim is the task that writes the name, as far as it is. Partial and
temporary files, the tables, and the order of a pull's steps do not appear.

### Download

One blob, over any number of pulls. `file` is the `-partial` file, `state` the `-partial.json` next
to it, `done` the counters, `part[p]` the job of a range (`fetch_part`), `at` where the pull is in
`download` and `fetch_ranges`. What makes it hard is in `writing` and `saving`: tokio hands a write
to a thread and returns, so a block is counted (`Chunk`) before it is in the file (`Land`), the
failure of a write (`LoseWrite`) is told by the next call on the handle (`PartFailed`), and a write or
a save goes on after its pull is dropped (`GiveUp`). `Save` truncates the state and `Saved` fills it,
so a crash in between leaves it `Torn`. A retry (`Again`) starts from the counter, a next pull
(`Plan`) from the saved counts.

Abstractions: a chunk is a block, and a range a few; the host serves the right bytes if any, since
wrong ones are `ModelStore`'s, so a file is good when it has no holes; hashing and the rename are
one step, as nothing else touches the file of a lone pull between them but late writes of right
bytes. One pull at a time downloads the blob; two at once are `ModelStore`'s. All ranges may
run at once (the code lets 8). A small blob, or a host that ignores ranges, takes `FetchWhole`,
whose file the model fills in one step or, failing, in part; that is exact enough because no state
is left beside it. A save waits for one left behind by an earlier pull: that two of them overlap is
left out.

### PullService

`pulls` and `creating` are the tables again, `task[p]` the spawned task of a pull, `sent[p]` the
broadcast channel and `client[c]` a request of `POST /api/pull`, with its place in the channel.
`Ends` is the `select!`; `LeaveTable` and `Report` are what the task does after it, one critical
section and one send. A client reads the head of its response up to the first layer (`head`), then
streams (`lines`) or collects (`quiet`). The lag of a slow reader is what tokio's channel does:
it skips to the oldest event kept. A request refused with 409 makes no step. The poll's 250 ms are
abstracted. `MaxLines` bounds the progress a pull reports. What a pull does to the store is
`ModelStore`'s.

### Decisions

`in_flight` is the atomic counter; `client[c]` a connection's handler, `task[t]` the detached task,
`jobs` and `model` the runner's queue and thread. `Ask` and `Refuse` are `slot`, with the window
between its count and the count given back. `Leave` is the drop of the handler, which drops the
slot and sets the flag. `Acquired` is the scheduler's answer and the one look at the flag, between
which there is no await. The scheduler stands as its promise: a lease or an error, after a while.
Bounds: `Client` connections and `Task` tasks at once.

### RunnerLoad, LlamaContext, ClmProjections and Runner

`RunnerLoad` is one load: `setup` is what it starts from and never changes, `launch` which launch
the daemon is at (`plan`, `Spawn`, `Retry`, `Killed`, `Announce`), `at` and `want` where the process
is in `load` and on which device, `mem` what is in memory. The helpers have the code's names
(`runner_launch`, `plan`, `onnx_device`, `auto_gpu`). `StartOnnx`, `ChooseOnnx` and `StartLlama` choose
a device, `LoadWorks`, `LoadFails`, `WarmUpKept` and `WarmUpFails` are the outcomes of a load and of
its first request, `FallsBack` what an error leads to. Which of the eligible GPUs auto picks is left
open where the code compares free memory. `Setup` is the set of installs and machines; the
constraints between GPUs and backends are assumptions.

`LlamaContext` is the context of a loaded GGUF model. `cache` holds the cells of its two sequences, a
cell being a token at a position and the pass that computed it; `prefix` is `Context::prefix`,
`logits` what the last pass with an output saw, `work` the request being evaluated. `Plan` gives the
passes of a row; its five `Kind`s are the evaluation plans of the layouts. The calls of at most
N_BATCH tokens that make up one pass are one step, which may fail after any of its tokens
(`PassFails`). Two numbers are equal when the same passes saw the same cells: that is what
`FixedPlan` compares.

`ClmProjections` is a request of an ONNX model of layout clm-v1: `map` and `order` are the cache,
`call` the request with the texts it has yet to project (`todo`), their order by length and the
projections so far. A projection is the text it is of. A graph run is one step (`RunWorks`) over the
rows that `batches` puts together (`BatchEnd`).

`Runner` lets requests come once the model is announced, to the context of a GGUF model or to the
cache of an ONNX one. Bounds: `Request` and `Asked`, the requests that may come; `NCtx`, `Capacity`,
`MaxText`, `MaxRows`, `TokenBudget` and `CacheEntries` are the code's limits, made small.

### Daemon and Desktop

`doing[p]` is where a process of `ollaya serve` is, from its start to its exit, `doing[t]` where a
command is; both go through `reads`, `checks`, `removes` (`own_server`), a command to stop a server and
a process to say who has the port. `pid[x]` is the process ID read, `pidfile` the file. A process
holds the port while it is `Listening`, answers while it serves, and is `ollaya serve` to `ps` while
it is `Running`. `Other` are servers of another user: they have the port, not the file. Process IDs
are not used again, and the file is written in one step.

`Desktop` adds the application's task for the menu: `now` is the snapshot it takes in two reads
(`Looks`, `Lists`), `menu` what the items show, `drawn` what it has recorded, `open` whether the user
has the menu open. What a server has loaded stands for everything the menu shows without new items.
The header, which is drawn while the menu is open too, is left out (section 5). Its requests to
start a server are `Daemon`'s, as the command `App`.

## 3. The runs

| Run | Instance | Shows |
|---|---|---|
| `scheduler_safety` | two models, two requests, room for one, one pin, one model with a fall back | leases are exact, no unload kills a leased runner, loads are exclusive and never duplicated, idle runners have a deadline; every step is a step of `Runners` |
| `scheduler_liveness` | one model, two requests, fair | waiters end, drained runners die, expired and dead ones leave the map |
| `scheduler_eviction` | two models kept forever, room for one, fair | waiters end though the loader waits for its victim under the load lock |
| `store_write` | two published models, one republished, one asked for by digest, and a derived one; all three share a blob; two tasks; failures, late calls, crashes; within `Apart`; 815,000 states | one writer a name, listed models complete, blobs verified whoever left the partial file, a delete leaves nothing behind, and every step is a step of `Shelf` |
| `download` | a range of two blocks and one of one, one retry, two harms, one network error, fair | holes have a cause, failed pulls resume, a mismatch costs one download, no leftover keeps the blob away |
| `pull_service` | two clients, a tag and its pinned name, creates, two pulls, a channel of two, fair | one writer a file; clients are told the end of their pull, in time; abandoned pulls stop |
| `decisions` | three clients, room for two, three tasks, fair | slots are exact, early leavers are skipped, jobs are exact, requests that stay are answered |
| `runner` | every combination of install, machine, format and device that matters, then twelve GGUF requests of all kinds or six clm-v1 ones, in any order | devices asked for are kept, one model in memory, auto reaches the CPU, numbers depend on their own rows, the context is never full |
| `desktop` | two servers of this user, one of another, the application; fair | the file names the server that serves or none, stops are true, the menu catches up |
| `claim_delete_beside_pull` | a delete beside a pull | *violation*: the pull ends with a listed model whose blobs were pruned |
| `claim_crash_listing` | one pull and a crash | *violation*: a half-written temporary manifest fails every listing |
| `claim_pid_file` | two servers of this user, one of another, a command | *violation*: a server that ends removes the file of the one that runs |

**Bounds.** Two requests, or tasks, are enough for each pairwise race; the third actor of a
scheduler race is the reaper, of a decision race the third client. Two models with room for one
is the least that evicts. The three manifests of the store instances are one with weights of its
own, one with those and more, and one derived, which shares weights with its base: so the partial file
that a pull of one name leaves is resumed by one of the other. Besides what the tasks work on, one
partial file and one other leftover (a temporary file or a late call) may lie about: each is made
and met by the next two tasks, and more of a kind only repeat it (`Bounded`). The channel's two slots are
the least with which a reader may lag; 1024, the code's, needs more events than a client can be
told apart by. One line of progress is enough for a client to be in any part of its response.
In `download`, a *harm* is a failed write, a death of the daemon or a pull given up: two of them
give a hole and then a leftover of the pull that met it. A range of two blocks has one block
counted and one still to come, and a second range lets one job fail beside another. Three harms and
two network errors were checked once and hold too (1.05 million states).
In `runner`, the context holds five cells and a sequence as many: a row of four tokens fits, one of
five does only in blocks; rows share two tokens, one, all or none. The cache keeps two projections of
four texts, and a run takes two rows of two tokens, so a request is cached in part, evicts itself,
and needs one run or several. The device of a load and the requests that follow it are independent
in the code but for the engine, so both are explored whole in one run. In `desktop`, each process
runs once: two servers of this user, of which one ends while the other starts, and a stranger give
every race for the port and the file that needs two readers and a writer.
Symmetry is used in runs without liveness only.

**Deadlock** is checked in every run but three. In `runner` a load that has failed has nothing left
to do; in `desktop` and `claim_pid_file` each process is started once, so that in the end all are
gone.

**Fairness.** Tasks on tokio's runtime are scheduled: weak fairness of a thread's own steps. The
load lock is tokio's FIFO mutex, so a waiter gets its turn: strong fairness of taking it. A load
ends because of the load timeout, and a pass is assumed to end; the server has no timeout for it.
Deadlines pass. For pulls, the poll's timer fires, the task goes on once its select has ended, and
a client that stays reads; *nothing* is assumed of the download, which may hang. For a
download, jobs and the ticker share one select that takes a ready branch at random, so a job gets
its turn (strong fairness); writes and saves end; a client asks again while the blob is missing;
and `MaxHarm` and `MaxBreaks` make disk, network and clients fail finitely often, without which no
download ends. For decisions, the
scheduler answers (that is `WaitersFinish`), the model thread takes the next job, a pass ends. For
the desktop, the menu's task goes on (`TrayNext`): its timer rings and its reads end, except while a
server holds the port and does not answer, which `CatchesUp` makes an exception of. Nothing is
assumed of servers, commands or the user.

## 4. What is proved

In the eight `*Proofs` modules, for every value of the constants that their `ASSUME`s allow.

**Scheduler.** `IInv` of `SchedulerInv` strengthens the invariants with where each thread may be:
who holds the load lock, which request leases which runner, which runners are in the map, held for
an unload or being loaded. Lease counts are not inductive without it: a step that drops a runner is
harmless only because a runner outside the map with no holder has no lessee. Theorems: types, exact
lease counts, no leased runner killed, a deadline for every idle runner, one load, no second load.
Two more are the safety that its liveness rests on: no wait is a circle, though a loader waits for
its victim's lessees under the load lock (`NoCircularWait`), and no step adds a request to those an
unload waits for (`DrainsShrink`).

**Runners.** Its own theorems are short: a request uses a runner of the model it asked for, and no
step ends a process in use. That the scheduler implements it is a step simulation: one lemma for
each action of `Scheduler`, which is a step of `Runners` or a stutter from states of `IInv`. `IInv`
is what makes a kill harmless: a runner that an unload or the reaper kills is out of the map and
leased by nobody. With the simulation the theorems of `Runners` are the scheduler's (`RightRunner`,
`RunnerStays`).

**ModelStore.** `TableInv` (each table holds the names its writers write) is inductive without
any assumption, and gives types and `OneWriter`. `StoreInv` adds to it what each task knows of the
files (`TaskInv`): a blob about to be renamed is good, and a manifest about to be written has all
its blobs; and of the calls left to come (`LateInv`): one at most for a blob, and a rename finds what
was verified. It is kept by every step between states of `Apart`, so `Spec /\ []Apart` gives
`Complete` and `BlobsVerified` for any tags, shared blobs, failures, late calls and crashes. `Apart`
has three parts (`DeletesAlone`, `CopiesAlone`, `OneBringer`), and each is needed: without one,
`Complete` or `BlobsVerified` is false (section 5); `claim_delete_beside_pull` shows it for deletes. Two theorems are about deletes alone.
`DeletesLeaveNothing`: one that meets no other task and is not cut short leaves no blob that no
model needs (`SweepInv`: what it has yet to look at is all that may be left over).
`DeletesSpareModels`: when nothing happens but deletes, any number at once and over shared blobs,
none takes a blob that a listed model needs (`DeleteInv`: what a prune has yet to remove is in no
manifest that is left).

**Shelf.** `StoreImplements`: under `[]Apart`, every step of `ModelStore` is a step of `Shelf` or a
stutter, one lemma for each action. `StoreInv` gives what a publication and a prune need (all blobs
good, none needed), `TableInv` that a claim is one task's, and `AskedInv` that a copy and a delete
still act on what they were asked for. A crash drops all claims at once and nothing else.

**Download.** `DownloadInv` says how far the counters may be ahead of the file: not at all beyond
the writes under way, as long as nothing did harm (`CleanInv`), which gives `NoHoles` and
`Resumable`; and that writes have a file to go to (`WritingInv`). `OneStartOver` has an invariant of
its own, `Fresh`, which holds from a start over until something fails again: each range has what
it counted, all but the block it writes now in the file, and whatever the pulls before left, the file
is whole when it is verified. It rests on the wait for the last write at the end of each range.
All of it holds for any ranges, sizes, retries and bounds.

**PullService.** `TableExact` is inductive with the types, so the entry a task removes by file is
its own. `ChannelInv` says what a channel holds at each point of its task and where each client may
stand in it; with at least two slots (`Capacity > 1`) it gives `TellsOutcome`: a client is told how
its pull ended however it lags, and whenever it joined. With one slot it is false: "done" may
overwrite a success not yet read.

**Decisions.** The slots are counted exactly and bound the waiting clients; the cancel flag is
honoured up to the lease; a job is with the model thread exactly while its task says so.

**Daemon and Desktop.** `NamesNewest` needs that a process that has lost the port never writes, and that of those
who write the last to bind is the last to write; `StopIsTrue` that whoever is told to stop only
drains and ends, and that the port is free of it once nothing answers. A step of the application is
one of the commands' or leaves their state alone, so both hold beside it (`AppKeepsNewest`,
`AppKeepsStops`). `MenuNeverMixes` is the safety of the tray: a snapshot taken in two reads, between
which servers may stop and start, never lists models of a server that does not run.

**RunnerLoad.** One invariant relates each place of the process to its device, what is in memory and
what was tried; the three properties follow for any install, machine and `OLLAYA_DEVICE`.

**LlamaContext.** The invariant says what the cells are at each point of a row: those the plan's
passes so far leave in an empty context, after the cut back to a prefix that was one cold pass. With
it the logits are the plan's (`FixedPlan`), the prefix is true, and the cells of both sequences lie
at positions of one prompt that fits (`NeverFull`).

**ClmProjections.** Every kept projection is its own text's, those of the request too, at each point
between the sorted runs and the puts; what the request has in hand grows to all of its texts. The
cache's order lists its texts once, and a batch ends before the budget does.

TLC checked each inductive invariant as an invariant of a run before it was proved.

Only model-checked: every liveness property (the prover has no rules for fairness and ENABLED),
`CatchesUp` among them. Of the store, `ListsAfterCrash` is false and no theorem.

## 5. Differences between the documents and the code

Three are runs (section 3, and `findings` in `PROJECT.json`). Others were met while modelling, and
the models follow the code in each:

- `docs/api.md:1508` says at most `OLLAYA_MAX_LOADED_MODELS` models are loaded and 1517-1519 that
  a request waits when every loaded model is busy; `make_room` lets the load go ahead, and later
  loads evict one runner each (scheduler.rs:441-456).
- `docs/api.md:1520` says every request waiting for a load that fails gets the error; each of them
  takes the load lock and loads again (scheduler.rs:310).
- `docs/api.md:1750` says a request without keep_alive never starts the clock of a preloaded model;
  one that leased it before the pin does, because its lease has fixed its keep_alive
  (scheduler.rs:223-233).
- `docs/api.md:450` says a negative keep_alive keeps a model until a stop; the reaper unloads the
  digests it listed even if a request has asked for that since (scheduler.rs:423).
- `docs/api.md:1510` bounds decisions in flight; the code bounds the clients that wait, and a
  client that leaves gives its slot back while its decision goes on (http.rs:602-645).
- `docs/api.md:1550-1552` says there is no check followed by an act; delete and copy check once and
  act later (service.rs:327, 461).
- `docs/api.md:1009` says a client that joins a pull gets the terminal line; one that joins between
  the poll that gives the pull up and the removal of its entry gets none (service.rs:293).
  `TellsOutcome` says that this is the only way.
- `store.rs:203` says remove drops the blobs nothing references; of two prunes at once, the one
  that meets a file the other removed stops with an error (store.rs:281-288).
- `docs/api.md:951` and 1528, and `pull.rs:4-5`, say an interrupted download resumes where it
  stopped. Bytes are counted before they are written (pull.rs:489-490), and a part whose counter
  stands at its end returns without waiting for its last write (463-464). After a write that failed,
  a crash, or a pull given up, the counts may be ahead of the file; the digest then fails and the
  whole download starts over. `Installed` holds regardless, and `StartsOver` says that it starts over
  once for each such failure; `NoHoles` and `Resumable` say that nothing else causes it.
- `docs/api.md:1526` says a request whose client leaves before its decision runs is skipped; the flag
  is read once, after the lease, and a decision then queued behind others runs though its client
  has left (service.rs:173).
- `pull.rs:6` says every blob is verified before it is renamed into place. Two pulls that need one
  blob at a time (two tags of one model) share the partial file, so what is renamed may not be what
  was hashed (pull.rs:240). In `ModelStore` with two pulls of one blob, and without the constraint of
  `store_write`, `BlobsVerified` is violated in ten states.
- `store.rs:327` says readers never see a half-written file. Two creates that derive one blob under
  different names share the temporary file (store.rs:328-333): one may rename what the other has just
  truncated. If the daemon dies then, a blob cut short stays, and write_blob keeps it, since a file
  is there (store.rs:108). Without the constraint, `BlobsVerified` is violated in eleven states of
  two creates.
- The same temporary file of a manifest stays half-written when the disk is full (store.rs:330), and
  every listing fails, as in `claim_crash_listing`, until the name is written again.
- `llama/mod.rs:10-12` says a question's numbers never depend on the other questions. In an image
  request of layout winnow they do: the passes of each end where *all* its questions stop agreeing
  with the reference (`Shared`, 1219-1246). `FixedPlan` is about what ran before.
- `server.rs:981` tests that the model thread keeps serving after a panic. It does, but the engine's
  mutex is poisoned: a jev-style or clm-v1 model then fails every request (llama/mod.rs:766,
  clm.rs:277) while its health stays ok, so nothing replaces the runner.
- `own_server` removes the file it has found stale, which another server may have written since
  (daemon.rs:194-197); that server is then in no file, as in `claim_pid_file`.
- desktop `lib.rs:762` says quitting stops what the application started. It runs `ollaya stop`, which
  stops whichever server is in the file; and a stop that ends beside a start clears
  `started_server`, so that the server started stays (lib.rs:489).
- `tray.rs:40` says equal snapshots draw equal menus. The header is drawn while the menu is open and
  not recorded (216-221), so a state that flips and flips back leaves the wrong header until the
  next change. And a menu seen closed may be open when it is replaced (tray.rs:16-18).
- `presets.rs:132` says a reader never sees half a file; two puts of one name write one temporary
  file, so one may rename it half-written by the other.

## 6. Not modelled, and the plan

Out of reach: tensor code and calibrated answers (real numbers), generated bindings, text parsing,
validation and rendering of prompts, which are pure functions of strings, offline scripts, web
pages. These are nine tenths of the implementation's lines. Left out of what is modelled: power loss
(nothing is synced), process IDs that are used again and a pid file read half-written, free GPU
memory, the ONNX layouts that keep no state between requests.

Hazards that no property covers, beside those of section 5: a router's pull writes the manifests of
its targets, whose names it has not claimed (`ollaya-registry/src/pull.rs:199`); two writes of one
temporary file in one process, by copies to one destination or tags that differ after a dot only
(`store.rs:328`); a shutdown that kills the runners under their decisions (`http.rs:1100`).

Within reach, in this order:

1. **Decisions over Runners**: `Decisions` composed with `Runners` in place of its promise, so that
   a decision is shown to run on a live runner of its model.
2. **Routers** and temporary names that coincide, in `ModelStore`; `Download` put in place of the
   `partial` steps there.
3. **The shutdown** across `Daemon`, `Scheduler` and `Decisions`: five seconds for open requests, then
   the runners.
4. Presets, and the MLX worker's close.
