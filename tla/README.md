# A verification project for aitpotluck-local-client

TLA+ models of the client that turns a computer into a managed inference node: it installs
llama.cpp, supervises `llama-server` and the tunnel client `newt`, pulls, sizes, measures and
removes models, and holds back models that keep running out of memory.
TLC checks the models on small instances; TLAPS proves the properties that matter most for every
value of the constants. All definitions are translated from the Python source; `PROJECT.json`
gives the lines of each ("map").

## 1. The system

### Components, state, operations

| Component (source under `aipotluck/`) | State it keeps | Operations that change it |
|---|---|---|
| Job queue (`service/jobs.py`) | `_jobs`, `_order`, a `queue.Queue`, `_stopping`, `_thread`; in memory only | `start`, `stop`, `submit`, the worker loop `_run`/`_execute`, `_prune` |
| llama-server supervisor (`service/llama_supervisor.py`) | `_proc`, `_stop_event`, `_terminating`, `_info`, `backoff_idx`, the child process | `start`, `stop`, the loop (spawn, startup poll, wait, health poll, backoff), `_terminate_process` |
| newt supervisor (`service/newt_supervisor.py`) | the same, without health polling; `newt.log` and the health file | the same; `info()` reads the tunnel status back from the two files |
| Model health watcher (`service/model_health.py`) | `model_health.json` (OOM counts, verdicts), its offset in the router's log, cooldowns | `tick()`: credit turns, react to failures, shrink a preset, hold a model back |
| Model operations (`service/model_ops.py`) | the cache of weights, `router-presets.ini`, `model_performance.json`, verdicts | `pull`, `benchmark`, `remove`, `_reject`, `_forget_model`, the backfill of `runner.py` |
| Model cache and pulls (`installer/cache_router.py`, `model_pull.py`) | the cache of weights, a short-lived llama-server router per call, the queue of its events | `download_model`, `delete_model`, `running`, `_stream_events` |
| Presets, score and health files (`installer/model_presets.py`, `model_perf_store.py`, `service/model_health.py`) | INI and JSON files with an entry per model, each read and rewritten whole | write or remove an entry, `is_stale` |
| Model sizing, preflight, screen (`installer/model_sizing.py`, `model_preflight.py`, `model_screen.py`) | none: pure functions | `compute_sizing`, `check_fits_in_memory`, `screen_model` |
| Installer (`installer/install.py`) | `runtime.json` | `run_install`, `_carry_over_pairing` |
| llama.cpp download, cache and build (`installer/fetch.py`, `build_cache.py`, `build_strategy.py`, `source_build.py`) | downloads, directories per tag with a marker, a build directory with a fingerprint | `download_asset`, `extract_archive`, `build_llama_server`, `find_binary` |
| Pairing commands (`installer/cli.py`) | `runtime.json` | `run_login`, `run_logout`, `_restart_service` |
| Service runner and HTTP API (`service/runner.py`, `aipotluck_service.py`) | `_server`, `_stopped`, the parts it has started, the configuration read once at start | `start`, `wait`, `stop`, the signal handler, the routes that submit jobs, read them and remove models |
| OS service managers (`installer/service/*`) | the registered service | install, start, stop, status |
| Diagnostics, host detection, layout, shim, bootstrap, benchmark arithmetic, packaging | none that outlives a call | not modelled, see section 7 |

### Interactions

* The HTTP API submits work to the job queue; its one worker calls the model operations.
  `DELETE /models/...` calls them on an HTTP thread and the CLI in a process of its own, both
  *outside* the queue.
* The model operations, the watcher and the CLI share the presets, score and health files. There is
  no lock between processes and none around a read-modify-write.
* The main thread calls `start()` and `stop()` of the queue, the watcher and both supervisors while
  their own threads run; `_proc` is a field both sides test and then use. `stop()` is called from a
  signal handler, so between two steps of whatever the main thread is doing, another `stop()`
  included.
* Every pull and every removal runs a llama-server router of its own on a free port, in the service
  (the job worker, an HTTP thread) and in the CLI at the same time, over one cache.
* llama-server and newt are child processes. llama-server answers health checks and appends to a
  log that the watcher reads in chunks; newt leaves a log and a health file.
* The installer, login and logout write `runtime.json` whole; the service reads it once, when it
  starts. The service manager restarts the process.

### What is hard about it

Threads that race with `stop()`, and a signal handler that cannot wait for the code it interrupted;
files that outlive the process whose evidence they are; steps of operations that interleave because
one of them is not queued; a short-lived server that hangs, dies or says "finished" of nothing;
files changed by two processes without a lock; processes killed between two writes;
counts and verdicts that must survive restarts; arithmetic at the edge of the memory of a device;
markers that say "already done" about something else. `PROJECT.json` lists the hazards at their
lines, each with the properties that would catch it, or why none does.

### What makes each component correct

* Job queue: one job at a time, in submission order; nothing live is forgotten; shutdown starts
  nothing and leaves no thread blocked; every job ends.
* Supervisors: one child at a time, none orphaned, supervision that ends only on request, crashes
  repaired with the documented backoff, a shutdown that completes; and for newt, a tunnel status
  that follows the tunnel.
* Health watcher: a model is held back after the stated number of failures in a row and not before,
  stays so until the user decides, and no endless failure goes unnoticed.
* Model operations: weights are deleted only on request, a deleted model leaves nothing behind, a
  missing preset is backfilled, a score shown as current is.
* Model cache: a pull that succeeds has the model in the cache, none misses the end of its download,
  every call ends and takes its router with it.
* Store files: an entry written is there later, unless two writers overlapped or one was cut short.
* Service runner: a clean exit leaves neither llama-server nor newt behind, and a signal ends the process.
* Sizing: a verdict exactly when one turn of conversation cannot fit; the budget kept; no better
  choice left; three judgements in three places that agree.
* Installation: a kill or a failure never makes half an archive or build pass for a whole one, and
  never damages the installation in use.
* Pairing: no command undoes what another did, and what it wrote takes effect.

## 2. Modules

| Module | Models | Abstract specification | Proofs |
|---|---|---|---|
| `JobLedger` | what the job queue promises its callers | (is one) | |
| `JobRunner` | the job queue | implements `JobLedger` | `JobRunner_proofs` |
| `KeepAlive` | what a supervisor of one child promises | (is one) | |
| `LlamaSupervisor` | the llama-server supervisor | implements `KeepAlive` | `LlamaSupervisor_proofs` |
| `NewtSupervisor` | the newt supervisor, newt, and the readers of its status | implements `KeepAlive` | `NewtSupervisor_proofs` |
| `HealthWatcher` | the watcher against the router, the other writers of its files, and restarts | | `HealthWatcher_proofs` |
| `ModelOps` | the operations on models, run by the worker and by another actor | | `ModelOps_proofs` |
| `ServiceRunner` | start and stop of the service, its signals, jobs and requests, with both supervisors under a `stop()` that nests | | in `HealthWatcher_proofs` |
| `RecordStore`, `MCRecordStore` | the presets, score and health files under their writers | | in `Sizing_proofs` |
| `ScratchRouter` | pulls and removals through a router of their own | | in `Artifacts_proofs` |
| `Sizing`, `MCSizing` | preflight, `compute_sizing` and the screen, with a reference definition | | `Sizing_proofs` |
| `Pairing` | installer, login and logout around `runtime.json`, and the service | | `Pairing_proofs` |
| `Artifacts` | download, unpacking, custom builds and source builds | | `Artifacts_proofs` |

A module of proofs extends the module it is about. Three of them extend a second one: what the
service decides of a model and the files it keeps that in (`Sizing`, `RecordStore`), the two kinds
of download (`Artifacts`, `ScratchRouter`), and the watcher and the process it is a part of
(`HealthWatcher`, `ServiceRunner`). The second modules carry a prefix in `StoreSpec`, `PullSpec`,
`RunnerSpec` and the like for that reason.

A module stands for one component together with the actors that can interleave with it; a component
is composed with its environment (newt, the router, the operations, the service) inside the module
whose properties need it. An action is one handler or one atomic stretch of it: it ends where
another thread can observe or change what it uses next. A definition whose comment begins with
*Mutation:* is a plausible bug; no specification uses it, it is there to show that a property
notices.

### `JobRunner`

A job is its number in the order of registration; `_jobs` and `_order` are then one set,
`registry`. `SubmitRegister` and `SubmitPut` are two steps because `submit()` puts outside the lock;
`SubmitInFront` is a mutation. The worker is at `pc`: test of `_stopping`, `queue.get`, admission
(`_run`), `MarkRunning`, the job itself, `EndState` and `EndOutcome` (one after the other, under the
lock: `LockFree` keeps the lock's other users out between them), `Prune`. `StopSet`, `StopWake` and
`StopJoin` are the statements of `stop()`; a join that times out clears `_thread` and leaves the old
worker alive, so that `start()` may create a second one beside it. `Workers` are the threads that
`start()` may create.

### `LlamaSupervisor`, `NewtSupervisor`

`Procs` are `Popen` objects, `child[p]` is the operating system's view of them. The loop's `pc`
follows `_run_loop`: a test of `_proc` and its use are two steps, and so are `Popen` and its record
under the lock, since `stop()` runs in between. `_terminate_process` is a procedure of both callers,
`tpc[c]`, with the flag `_terminating` that they share. An `AttributeError` on a `_proc` that
`stop()` has just cleared ends the loop thread (`pc = "dead"`), and a `TimeoutExpired` after SIGKILL
raises out of it (`TermRaises`). `failures` is a history variable.

`NewtSupervisor` adds newt itself (external: it connects, drops, retries and logs, as the source
describes it at `newt_supervisor.py:13-29`), the tail of the log reduced to its last signal, the
health file, and a reader who, as `info()` does, reads the log first and the health file afterwards.
`earned` is a history variable: has the *current* process connected?

Here one call of `stop()` follows the other (`StopBegin`). A signal handler may also run one inside
another; that is the subject of `ServiceRunner`, and what is proved here is not used there.

Assumptions about time: a five second wait does not run out while `stop()` stands between two
adjacent statements (`Prompt`); a child that survives SIGKILL for five seconds goes in the end.

### `ServiceRunner`

The main thread is a `stack` of frames: `start()` and `wait()` at the bottom, one `stop()` for every
signal above it; only the top frame moves, which is what Python does with a handler. Before the
handlers are installed a signal kills. A frame says where it is (`StartPcs`, `StopPcs`), with which
part, and whether it holds the plain lock its step takes for a moment. `LockOf` says which one: that
of the event in the server's `shutdown()`, of a part's stop event or of `_stopped`, and the `_lock`
of a supervisor. An exception in a handler passes through all frames (`Raise`).

Since these calls of `stop()` nest, the two supervisors are modelled here once more, in less detail:
the loop thread (`Loop`) up to the record of its process and its own `_terminate_process`, and that
of every frame, from `Enter`, which reads `_proc` and `_terminating`, to `Clears`. Spawning, the
startup poll and the backoff are one step each. `DropNext`, `Drop` and `DropRaises` are the last
statement of a part's `stop()`: it tests `_thread` (or `_log_file`), uses it and sets it to `None`,
and a handler in between that has done so makes the use an `AttributeError`. `blind` is history:
supervisors for which a signal interrupted a `_terminate_process` that had found no process and had
set `_terminating`. `MissingRaises` and `BuildRaises` are a presets file that somebody has garbled
and a section of the configuration without its binary.

Assumptions about time: the loop's wait for its child does not time out while a frame that nobody
interrupts stands between two adjacent statements (`~In(s, {"nothing"})`; while it is interrupted it
may), and the join of the loop thread, 25 seconds, outlasts a health check, the 5 of that wait and the 15 of the
termination (`Join`).

### `RecordStore`

An operation changes the files of `Files` one after the other, and each of them by `Read`, `Open`
(which truncates) and `Write`, as `open(path, "w")` and the dump after it do. A record is the number
of the operation that wrote it, which is all the properties tell apart. `Tolerant` files are those
whose reader takes a text it cannot parse for an empty one (the JSON files); the INI reader raises
(`ReadRaises`). `Killed`, `WriteFails` and a slip of `EditByHand` are the faults; what a failed write
leaves may be nothing, a text that does not parse, or one that does and lacks some of the entries. `truth` is
history: what the completed writes say; `overlap` and `failed` say that two writers were at work at
once and that one did not come to the end of its operation.

### `ScratchRouter`

A call goes from `Begin` (`_free_port`) over `Spawn`, the poll of `/health` (`CameUp`, `NotUp`) and
`List` to the download (`Connect`, `Post`, `Take`, `Verify`) or to `Delete`, and ends in `Stop`,
`Waited`, `Kill` or `NotReaped`, the `finally` of `running()`; `Expire` is the deadline of the
download. `Subscribe` is the thread of `_stream_events`, which feeds `queue` and puts "end" (the
`None` of the code) into it when the stream is over. The router is external, modelled from what the
source says of it: it binds the port or exits, reads the cache when it starts and adds to its list
only what it has downloaded itself (`knows`, `fetched`), says "finished" also of a repository that does not exist, and may crash at any moment
and hang once it serves. A call talks to whatever router answers at its port (`Answers`), its own or another's. What it lists
may be gone by then: `stale` is history, a removal since the router learned of the model. A deletion
may be refused, and its answer may be lost.

### `HealthWatcher`

`tick()` is split where the source calls out: `ReadLog`, `Credit`, `Fetch`, `Judge`, `ReadPreset`,
`RecordOom`, `Hold` or `Shrink`. The router asks, serves and dies in three ways (killed silently,
an allocation failure in the log, anything else); `lines` is what the unread part of the log says of
a model, reduced to whether a turn can be attributed. Pulls, benchmarks and removals write both
files between any two steps. `Restart` keeps the files and loses everything else. Every line is read
once; log rotation is omitted. A hand may garble the presets file and mend it (`Edited`): the tick then
raises where it reads or writes a preset, after the cooldown and before the count. The count is capped at `MaxOoms`, above which the code does not tell
counts apart. `reactions` is the history the streak is checked against, and `OtherOom` is an
allocation failure that belongs to no model of the instance, which makes one model enough.

### `ModelOps`

`at[a]` is what an actor is doing: the operation, where it is, the model, `keep_rejected`, whether
the sizing was viable, and the targets left. Deleting a model and forgetting it are four steps.
The probe of a model may load it, not load it, or fail for reasons of its own, at every attempt
anew. Any exception may end an operation where it is (`Raises`), and a deletion may succeed without
its caller hearing of it (`DeleteUnheard`). When the service starts (`Starts`) it queues a backfill,
unless it is logged out or cannot list the cache; at its turn the job lists the cache again, and may
fail to. `pending` are the models that were missing at the start, until that turn; `skipped` is
history: models that this start's backfill has not sized, whatever kept it from doing so.
`disturbed` is history too: models that two actors worked on at once, whose removal was killed,
raised or was not heard of, or that were held back without being in the cache. `build` stands for
the fingerprint of the device's scores. Writes of the watcher are in `HealthWatcher`, not here.

### `Sizing`

Memory is counted in eightieths of a byte, where the 80% budget and the 2, 1.0625 and 0.5625 bytes
of a KV element are integers; floating point is not modelled. The reference (`Servable`, `Fits`) says
what the search and the divisions are to find. A model without a KV cache has no room by
definition of the code (`model_sizing.py:369-370`).

### `Pairing`

A command is a process: it reads the file, prepares (a model pull, a newt download), truncates,
writes, and then starts the service (installer) or restarts it (login, logout). `Truncate` and
`Write` are two steps because `write_text` is; `PullModel` and `FetchNewt` are the preparations.
`Halt` and `Launch` may fail silently, as `_restart_service` lets them. `asked` is what the
commands meant the file to say; `crossed`, `lost` and `missed` are history: a command's view of
the file was overwritten, an update may be lost, the service may have missed a change.
`service.cfg` is what it holds in memory.

### `Artifacts`

A run of the installer at a pin of llama.cpp with a tag (`--tag` makes the two differ): which of the
three sources is used depends on the pin and the host. `dirs[d]` has the content of an unpacked
directory and its marker, `build` the build directory, its fingerprint and whether a rebuild was cut
short. A download goes to a name of its own, is verified and renamed; it needs no state. `misfiled`
is history: directories that `--tag` had another release unpacked into.

## 3. Runs

`CHECK_DEADLOCK FALSE` stands in a configuration only where the system stops: a service that is
stopped, commands that are done, a model that is judged.

| Run | Question | Bounds and why they are enough |
|---|---|---|
| `job_runner` | Is the queue serial, ordered and complete through every interleaving of submitters, two workers and `stop()`? | 3 jobs with retention 1 (pruning happens with live jobs on both sides), 2 workers (an old one and its successor), 2 stops |
| `llama_supervisor` | Do the loop and `stop()` keep `KeepAlive`, the backoff and their liveness? | 3 Popen objects (one terminated by each thread and one being spawned), `LastDelay` 2 (middle and end of the schedule), 2 stops |
| `llama_hung` (violation) | Is a llama-server that stays unhealthy restarted? | 2 Popen objects, 1 stop |
| `newt_supervisor` | The same as `llama_supervisor` for newt, and does its status follow the tunnel? | 2 Popen objects, 1 stop, traces of an earlier run in `Init` |
| `service_runner` | What does a shutdown leave, whatever it interrupts, and does it end? | 2 signals (a handler in a handler), 1 process (the next one keeps nothing of it). Requests and jobs are left out of `RunnerFairSpec`: no step of the main thread or of a supervisor depends on what they change. The theorem is about `RunnerSpec`, which has them |
| `health_watcher` | Is a model held back when, and only when, it should be? | 1 model, `MaxOoms` 3 as in the code, contexts 6 → 3 → floor 2 |
| `model_ops` | What do overlapping, failing and killed operations leave behind? | 1 model (no property relates two), the worker and one actor outside it, 2 builds, 2 crashes |
| `scratch_router` | Can a pull be fooled, miss its end, hang, or leave its router? | 2 callers and 2 calls, 2 ports (the same and another), 1 crash or hang (a second hits another call, and the calls do not wait for each other), 1 unread event |
| `record_store` | Which entries can be lost, come back or lose their other half? | 2 writers (a lost update needs no more), 2 models (the one written and another), both files of the presets, 3 operations (two that overlap and one that finds the result), 1 kill, failed write or slip |
| `sizing` | Does `compute_sizing` find what its reference defines? | 12,096 profiles around every threshold, with thresholds 2, 3 and block 2 in place of 512, 2048 and 32, which the theorems cover |
| `pairing` | Do the commands preserve each other's part, and take effect? | 2 processes, 4 commands, 2 credentials, 2 builds, 1 kill: every pair of commands after every other |
| `artifacts` | What do failed and killed installations leave to the next? | 2 releases, 2 rebuilds of a custom build, 1 source pin (moved by `--tag`), 4 runs, 1 kill |

### What the violation shows

* `llama_hung`: the docstring of `_wait_for_exit` says that a child that "becomes unhealthy for too
  long" is restarted (`llama_supervisor.py:192-194`). The code logs the failed check and "will keep
  polling" (212-216): a child that neither exits nor answers stays for ever, and is not healthy
  again.

### Observed besides

Each of these is stated as a property in the module named, with a configuration of its own that
shows the counterexample (`tlc -config <cfg> <module>`). One more configuration,
`ServiceRunner_one.cfg`, passes: over two lives of the service with a request, its job and one
signal each, `CleanExitLeavesNoOrphan` holds without the exception that two signals need.

| Property | Says | What the code does |
|---|---|---|
| `HealthWatcher!TurnClearsCount` (`HealthWatcher_turn.cfg`) | "A completed turn clears the OOM count" (`model_health.py:203`) | the map from ports to models is built from one chunk of the log: a turn that is still running at a poll is attributed to no model when it ends (397) |
| `HealthWatcher!NoFailureIsEndless` (`HealthWatcher_garbled.cfg`) | the limit ends "looping forever on a model that genuinely cannot run here" (`model_health.py:60`) | the presets are read (430) after the cooldown is set and before the failure is counted: while the file cannot be parsed every tick raises there, and a model that dies for ever is never held back |
| `NewtSupervisor!UnearnedIsNotReported` (`NewtSupervisor_stale.cfg`) | the status "has to reflect newt's CURRENT state" (`newt_supervisor.py:149-150`) | the health file is removed at each spawn, the log is not: a success line of an earlier process makes the tunnel connected for as long as newt dies before it logs |
| `ModelOps!CurrentGradesAreCurrent` (`ModelOps_grades.cfg`) | an upgrade "invalidates every grade at once" (`model_perf_store.py:159-160`) | one fingerprint stands for all scores and each measurement overwrites it: the first benchmark after an upgrade makes the old scores of all other models look current |
| `Artifacts!UnpackedIsVerified` (`Artifacts_custom.cfg`) | "a no-op if already extracted and checksum matches" (`ARCHITECTURE.md:132-133`) | the marker records no checksum, and every rebuild of a custom build has the same tag and key: it is downloaded and verified, and never unpacked |
| `RecordStore!OthersUntouched` (`RecordStore_overlap.cfg`, module `MCRecordStore`) | entries of another model are "never touched" (`model_presets.py:109-110`, `model_perf_store.py:110-111`, `model_health.py:170-171`) | two writers of one file that overlap: the later one writes back what it read before the other wrote |
| `RecordStore!SurvivesKill` (`RecordStore_kill.cfg`, module `MCRecordStore`) | the "OOM count has to survive a service restart" (`model_health.py:119`) | `_write` truncates and then writes (162-166); a kill in between leaves an empty file, which `read_all` takes for no verdicts at all (139-140) |
| `ServiceRunner!CleanExitLeavesNoOrphan` (`ServiceRunner_orphan.cfg`) | "Clean shutdown terminates both processes with no orphans" (`ARCHITECTURE.md:342`) | a signal interrupts a `_terminate_process` that has read no process and set `_terminating` (222), between `Popen` and its record in the loop: the second handler and the loop both find a termination under way, and only wait (229-235) |
| `ServiceRunner!StopIsSafeInHandler` (`ServiceRunner_handler.cfg`) | `stop()` is "safe to run directly on a Python signal handler" (`aipotluck_service.py:74-77`) | the handler interrupts the main thread inside `Event.wait` or inside another `stop()` while that holds a plain lock, and waits for it for ever |
| `ServiceRunner!StopIsIdempotent` (`ServiceRunner_twice.cfg`) | `stop()` is "idempotent; call from a signal handler" (`runner.py:485`) | a second signal during `shutdown()` sets `_server` to `None` (587) and the first call then fails with an `AttributeError` (586), which ends the process with an error |
| `ServiceRunner!MissingNeverRaises` (`ServiceRunner_presets.cfg`) | `models_missing_presets` "Never raises" (`runner.py:153`) | `known_model_ids` lets the errors of configparser through (163): with a presets file that a slip has garbled, the service ends in `start()`, and so does every restart |
| `ServiceRunner!BackfillIsFirst` (`ServiceRunner_backfill.cfg`) | the backfill is "ahead of any pull or benchmark" that arrives (`runner.py:558-559`) | requests are served from line 527 on and the backfill is submitted at 562 |
| `ScratchRouter!FailuresHaveOneType` (`ScratchRouter_types.cfg`) | `pull_model` "raises ModelPullError on any failure" (`model_pull.py:49`) | an answer cut short by a router that dies raises `http.client.IncompleteRead` in `_model_ids`, which is neither a `URLError` nor an `OSError`; a router not reaped raises `TimeoutExpired` |
| `ScratchRouter!RouterIsItsOwn` (`ScratchRouter_port.cfg`) | a router "for the duration of the block" (`cache_router.py:126`) | `_free_port` gives up the port before the router binds it; with two callers, `/health` may be answered by the router of the other one |

Read in the code, and not stated as a property:

* One piece of the log is the evidence against every model reported as failed: a model that failed
  for another reason can be counted and shrunk (`model_health.py:419`).
* The size of the log is taken before it is read to its end (`model_health.py:343`): lines written
  in between are read again at the next tick. An allocation failure read twice is evidence against
  whatever has failed at the next tick as well; a turn read twice clears the count again, of a
  failure that came after it.
* `to_dict()` copies a job without the lock (`jobs.py:63`): a terminal state may be answered before
  its result.
* The last branch of `compute_sizing` (`model_sizing.py:406-412`) is never taken: theorem
  `Q4HoldsMore`.
* Logout says "Logged out. llama-server and the tunnel have stopped" though the restart is best
  effort and its failure only a warning; a second logout then ends with "Already logged out" and
  does not touch the service. The README of the repository says that an install "always finishes
  logged out" (116), `_carry_over_pairing` deliberately keeps the pairing.
* `remove()` answers 404 for a model that is not cached: the remnants of a removal killed half-way
  can be cleared only by pulling the model again.
* "A re-pull is a fresh start" (`model_ops.py:466`): a `forget` that falls between the watcher's
  `record_oom` and its `quarantine` is followed by the verdict it was to prevent.

## 4. Fairness

* `JobRunner`: weak fairness of the worker threads, of the steps of a `stop()` that has begun and of
  a `put` that is under way: the interpreter schedules threads. The runner starts its queue before
  it serves requests. A job's own function is assumed to return or raise. Nothing makes a client
  submit or anybody stop.
* Supervisors: the threads run; a killed process goes; for llama-server the startup poll ends (60 s
  deadline), and strong fairness of `Popen` says that the binary does not stay unusable for ever;
  it is what `CrashIsRepaired` needs and nothing else. For newt: the status is asked again and
  again, a newt that stays disconnected logs it (`WF(Retry)`), a newt that connects writes its file.
  Nothing makes it connect, and no child is assumed to crash or to obey SIGTERM.
* `HealthWatcher`: the thread runs, cooldowns end; the router answers `GET /models` and the files can
  be written infinitely often (strong fairness, since both may fail any number of times). Nothing
  is assumed of the models, nor that anybody mends a presets file: `EndlessFailureIsHeld` says so in
  its premise.
* `ModelOps`: an operation that has begun goes on; the queue reaches the backfill (strong fairness,
  as other jobs come before it; `JobRunner` shows that order).
* `ServiceRunner`: the main thread and the loop threads of the supervisors run. No job, no request
  and no signal is assumed to come or to end, and no child to obey SIGTERM or to go after SIGKILL.
* `ScratchRouter`: a call and its subscriber thread go on, because every wait of theirs has a
  timeout, and so does the whole download (`Expire`). Nothing is assumed of the router.
* `RecordStore`, `Pairing`, `Artifacts` and `Sizing` have safety properties only and no fairness.

## 5. Proofs

All theorems hold for every value of the constants that satisfies the `ASSUME`s of the module (types
of the bounds, sets that do not contain the value standing for "none"). TLC evaluates these in every
run. No theorem rests on a bound being small. Each module's `TypeOK` is a theorem: `TypeCorrect`,
`StoreTyped`, `RouterTyped`, `RunnerTypeCorrect`.

| Module | Theorems | The argument |
|---|---|---|
| `JobRunner_proofs` | `TypeCorrect`, `JobsNeverOverlap`, `LiveJobsAreKnown`, `ShutdownStartsNothing`, `WorkKeepsItsOrder`, `RunnerImplementsLedger` | `OneAtATime` is not inductive: two workers can be alive. `SerialInv` adds that while `_stopping` is clear the only worker ever born is `_thread`, and that of all workers at most one has passed the test of `_stopping`: a successor finds the event set and exits there. `PlaceInv` (`RegistryInv`, `QueueInv`, `HandInv`) says where a live job can be: put aside by its submitter, in the queue, or in a worker's hand; `Prune` takes terminal jobs only. `WorkKeepsItsOrder`: while nothing was asked to stop, a job submitted before another is ahead of it in the queue, in a hand or over. The refinement maps the job in hand with a `CHOOSE` that `SerialInv` makes unique (`InHandOf`, `InHandStays`); that `Prune` drops what the ledger drops, the oldest that is over, needs the least element of a finite set (`LeastOfFinite`, `PruneKeepsTheNewest`) |
| `LlamaSupervisor_proofs` | `TypeCorrect`, `AtMostOneChild`, `SupervisionEndsOnRequest`, `DelaysFollowTheSchedule`, `ShutdownLeavesNone`, `SupervisorKeepsAlive` | `SuperInv` = `ProcInv` (where in the loop which process may be alive, and what `_proc` is then) and `TermInv` (what the two callers of `_terminate_process` can be doing to it). The dead loop is reached only where `stop()` took the child away. `ShutdownLeavesNone`: `OrphanInv` says who is responsible for a live child. A termination that found none is one of `stop()` against a loop that has just spawned (`Missed`); one that found one has set `_terminating`, which stays until the child is gone (`Flagged`, `Single`); so `_terminating` means that somebody will signal the child or has sent SIGKILL (`Responsible`), and the loop ends with a live child only then (`LoopLeft`). The refinement counts the children (`ServedCount`) and follows from these two invariants action by action (`KeepStep`) |
| `NewtSupervisor_proofs` | `TypeCorrect`, `HealthFileIsItsOwn`, `AtMostOneNewt`, `SupervisionEndsOnRequest`, `ShutdownLeavesNone`, `SupervisorKeepsAlive` | the same parts, and `LinkInv`: a connection belongs to a live process that has earned it |
| `HealthWatcher_proofs` | `TypeCorrect`, `HeldAfterStreakOnly`, `VerdictStands`, `CreditComesFirst` | `StreakInv` relates the count in the file to the reactions counted since the last credited turn, at each step of `tick()`, with restarts and other writers between. `CreditInv`: once the credits of a chunk are given, every model that served in it has a count of 0 or is held back until it is judged |
| `ModelOps_proofs` | `TypeCorrect`, `DeletionIsAskedFor`, `TracesHaveACause` | `DeleteInv`: which operation an actor can be in where it deletes or forgets. `RemnantInv`: for a model nobody overlapped, its files and its traces by the place of the one actor at work on it |
| `Sizing_proofs` | `TypeCorrect`, `VerdictIsCorrect`, `BudgetIsKept`, `SizingIsBest`, `RefusalIsCorrect`, `LayersAgree`, `ThreeJudgesAgree`, `Q4HoldsMore` | floor division is exact for the comparison it decides (`MaxCtxIsExact`); q4_0 holds at least as many tokens as q8_0; the branches of the choice are then cases |
| `Pairing_proofs` | `TypeCorrect`, `UndoesNothing`, `TakesEffect` | `CrossInv`: whoever holds a view of the file that another has not crossed still sees that file. `LostInv`: what such a command keeps is what was asked for. `MissInv`: a difference between the service and the file has somebody at work who is about to restart it |
| `Artifacts_proofs` | `TypeCorrect`, `InstallsWhole`, `Survives` | `RunInv` (what a run at a place has verified), `DiskInv` (a marked directory holds the release of its name, but for the exceptions), `NamedInv` (what `runtime.json` names is marked). The lemma `MarkedIsLeftAlone` carries `Survives`: no action changes a marked directory |
| `Artifacts_proofs`, about `ScratchRouter` | `RouterTyped`, `RoutersAreStopped`, `PullsAreHonest`, `EndsAreHeard` | `ProcInv`: at which places of a call its router may be alive. `HonestInv`: what a call that is about to return has found in the cache. `EndsAreHeard` is the hard one: a call may be subscribed to the router of another caller, which stands at its port and may end at any moment. `PortInv` (no two routers have bound one port), `SourceInv` (a thread that is subscribed is at a router that is up, the one that has bound the port it asked) and `ThreadInv` (which thread a call has at which place) carry `QueueInv`: when the source has ended the queue holds an end, and while it has not the thread is there to put one |
| `Sizing_proofs`, about `RecordStore` | `StoreTyped`, `LossHasACause`, `ReasonsGoWithPresets`, `HandEditsAreKept` | a record is compared with the number that the last writer was to leave (`truth`). `SoloInv`: while the operations come one after the other, at most one writer is busy. `HandInv`: it holds no file open that it could not parse. `TextInv`: when all came to their end as well, an empty file belongs to the writer between `open` and the dump. `TruthInv`: then the file, and the copy of whoever holds one, are `truth`. `ReasonInv` compares the files of one operation: those in `Done(w)` have its change, the others not yet |
| `HealthWatcher_proofs`, about `ServiceRunner` | `RunnerTypeCorrect`, `CleanExitsAreClean` | `StackInv`: `start()` or `wait()` at the bottom of the stack, only frames of `stop()` above. `CleanExitLeavesNothing` is a fact of the moment `wait()` returns and says nothing before it; what leads there is `Supervised`, for each supervisor, over every frame on the stack: `LoopInv` (what the loop's place says of `_proc`, and that a frame which saw a process keeps the loop from spawning another), `EndsInv` (a process that was not sent SIGKILL has somebody who will end it: the loop, or a frame at it), `TurnInv` (`_terminating` is set, while there is or may be a process, only by somebody who is at it; the frame on top that found none is the exception, and `blind` the one a signal makes of it) and `DownInv` (a frame is past a supervisor only when its loop is over). A step of the main thread replaces one frame, adds one or removes one (`MoveFrame`, `PushFrame`, `PopFrame`), and moves past a supervisor only by joining it or because there is none (`AfterPart`, `StopMoves`, `Passes`). Nothing is taken over from `KeepAlive`: its supervisors are stopped by one call after the other |

All safety properties, action properties and refinements that the passing runs check are theorems.
Only model-checked is every liveness property (`EveryJobEnds`, `StopEndsWorkers`, `CrashIsRepaired`,
`StopCompletes`, `DropIsReported`, `ConnectionIsReported`, `EndlessFailureIsHeld`,
`MissingIsBackfilled`, `StopFinishes`, `CallEnds`), since liveness under fairness and `ENABLED` are
out of the prover's reach. The properties of the table "Observed besides" are false and have
counterexamples instead.

## 6. What the exceptions in the properties mean

Some properties hold only with exceptions, and these are part of what they show.
`RemnantsExplained`: traces of a deleted model remain if operations on it overlapped, if its removal
was killed, raised half-way (a presets file that cannot be parsed ends `_forget_model` at its first
step) or did not hear that the files were gone (a lost or late answer, a router that is not reaped),
or if it was held back without having been installed. `MissingIsBackfilled`: `skipped` excuses a
start that is logged out or cannot list the cache, a job that cannot list it, and a model whose
probe failed, for whatever reason; each is tried again at the next start and not before.
`EndlessFailureIsHeld`: of a presets file that can be parsed in the end. `NothingIsUndone`: an
installer reads the pairing before it pulls a model for minutes and writes it afterwards; a login or
logout in between is undone. `PairingTakesEffect`: not if the service manager failed, or a command
was killed before the restart. `InstalledIsWhole`: a custom build, a directory misfiled by `--tag`,
and a build directory whose rebuild was cut short can hold another release than `runtime.json`
states; the last one half a binary. `LossIsExplained`: overlapping writers, and one that was killed
or whose write failed, can lose, keep or bring back entries (a cut-off INI may still parse, and is
then rewritten without the rest); a slip in the INI costs nothing once it is corrected, one in a
JSON file costs all of it at the next write. `CleanExitLeavesNothing`: a signal that interrupts a
`_terminate_process` which has found no process (`blind`), and a child that outlives the SIGKILL it
was sent; it speaks of the two supervised children. `StopFinishes`: not if the handler needs a lock
that the code it interrupted holds, be it of an event, of `_stopped`, or the `_lock` of a
supervisor. `NeighboursAgree`: preflight and sizing have one number for the size of a model; in the
code one is asked of the repository and the other read from the log, and the span between 80% and
100% of the memory is what keeps them agreed. `PullIsHonest`: unless another process removed the
model since the router that lists it learned of it.

## 7. What is not modelled, and why

* Benchmark arithmetic, parsing of llama-bench and of logs: floating point and text; success or
  failure is a choice of `ModelOps`. Speeds seen in live use (`model_perf_live.py`) change no
  decision that is modelled.
* HTTP parsing, authorisation, CORS, the status document, progress reports: data for display.
* What the records of `RecordStore` mean: `ModelOps` and `HealthWatcher` take a write of a file as one
  step, and `RecordStore` shows when that is so.
* `list_cached_models` and the display of a pull's progress; events of other models are "progress" in
  `ScratchRouter`.
* Rotation of the router's log, and the lines of it that are read twice (section 3 says what follows).
* Unit files, plists and scheduled tasks; the service manager is the states of `Pairing`, after systemd.
* The children of what `stop()` does not look at: a probe, a benchmark or a scratch router of a job
  that outlasts its five seconds, and the scratch router of a `DELETE` that is under way
  (`runner.py:456-475`). They may be left; `CleanExitLeavesNothing` does not speak of them.
* The steps inside newt's download (success or failure is `FetchNewt` of `Pairing`), flags of the source build, apt.
* Diagnostics (read only), host detection, layout, shim, bootstrap, packaging and research scripts.

## 8. Plan

Done, in this order, from the most concurrent and longest-lived part outwards: the job queue with
its ledger; the supervisors with `KeepAlive`; the health watcher; the model operations; sizing;
pairing; artifacts; the service runner; the store files; pulls through a scratch
router; the proofs, last those about the store files, the pulls and the service runner. Next:

1. `Artifacts` and `Pairing` composed: the service running from a directory while an upgrade goes on.
2. The log reader of the watcher in bytes, with rotation and lines read twice.
3. The probe that loads a model to size it, whose outcomes are choices of `ModelOps`.
