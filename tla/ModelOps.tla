------------------------------- MODULE ModelOps -------------------------------
(***************************************************************************)
(* service/model_ops.py and the backfill of service/runner.py: what a pull,*)
(* a benchmark, a removal and the backfill at startup do to the cache of   *)
(* weights and to what is remembered of a model: its section of the presets*)
(* file, its score and the verdict that holds it back.                     *)
(*                                                                         *)
(* Three kinds of actor run these operations.  The worker of the job queue *)
(* runs pulls, benchmarks and the backfill one after the other; an HTTP    *)
(* thread runs a removal, outside the queue; a command line runs any of    *)
(* them but the backfill in a process of its own.  They share nothing but  *)
(* the files, and each function of a store is one step here.               *)
(***************************************************************************)
EXTENDS Naturals

CONSTANTS
    Models,       \* model ids
    Actors,       \* who runs operations
    Job,          \* the worker of the job queue
    MaxBuild,     \* bound on the llama.cpp builds installed
    MaxCrashes    \* bound on the processes killed in the middle of something

ASSUME OpsAssumption ==
    /\ Job \in Actors
    /\ MaxBuild \in Nat \ {0}
    /\ MaxCrashes \in Nat

NoModel == "no model"
NoGrade == 0

ASSUME NoOpsModelAssumption == NoModel \notin Models

VARIABLES
    disk,        \* models in the cache
    sized,       \* models with a section in the presets file
    grade,       \* performance file: the build that m was measured with
    device,      \* performance file: the build of its one fingerprint
    held,        \* models with a verdict in model_health.json
    build,       \* runtime.json: the llama.cpp build installed
    at,          \* what each actor is doing
    pending,     \* models missing at the start, until the backfill's turn
    crashes,     \* processes killed so far
    disturbed,   \* history: models that something has kept from being forgotten
    skipped      \* history: models that this start's backfill does not size

stores == <<disk, sized, grade, device, held>>
vars == <<stores, build, at, pending, crashes, disturbed, skipped>>

Ops == {"none", "pull", "benchmark", "remove", "backfill"}
Pcs == {"idle", "next", "download", "size", "forgive", "delete", "dropPreset",
        "dropGrade", "dropHealth", "hold", "measure", "record"}

(* keep is keep_rejected; viable is sizing.viable, or TRUE where sizing is *)
(* None; left are the targets still to do.                                 *)
Activity == [op : Ops, pc : Pcs, model : Models \cup {NoModel}, keep : BOOLEAN,
             viable : BOOLEAN, left : SUBSET Models]

Idle == [op |-> "none", pc |-> "idle", model |-> NoModel, keep |-> FALSE,
         viable |-> TRUE, left |-> {}]

(* Deleting a model and forgetting it are four steps, _forget_model three. *)
Forgetting == {"dropPreset", "dropGrade", "dropHealth"}

TypeOK ==
    /\ disk \subseteq Models
    /\ sized \subseteq Models
    /\ grade \in [Models -> 0 .. MaxBuild]
    /\ device \in 0 .. MaxBuild
    /\ held \subseteq Models
    /\ build \in 1 .. MaxBuild
    /\ at \in [Actors -> Activity]
    /\ \A a \in Actors : at[a].model = NoModel <=> at[a].pc \in {"idle", "next"}
    /\ at[Job].op # "remove" /\ \A a \in Actors \ {Job} : at[a].op # "backfill"
    /\ pending \subseteq Models
    /\ crashes \in 0 .. MaxCrashes
    /\ disturbed \subseteq Models
    /\ skipped \subseteq Models

(* Two actors work on the same model.                                      *)
Overlapped == {m \in Models : \E a, b \in Actors :
                  a # b /\ at[a].model = m /\ at[b].model = m}

(* models_missing_presets                                                  *)
Missing == disk \ sized

(* The service starts.  It queues the backfill of what is missing, unless  *)
(* it is logged out or the cache does not let itself be listed.            *)
Starts ==
    \/ pending' = Missing /\ skipped' = {}
    \/ pending' = {} /\ skipped' = skipped \cup Missing

Init ==
    /\ disk \in SUBSET Models
    /\ sized = {}
    /\ grade = [m \in Models |-> NoGrade]
    /\ device = NoGrade
    /\ held = {}
    /\ build = 1
    /\ at = [a \in Actors |-> Idle]
    /\ \/ pending = disk /\ skipped = {}
       \/ pending = {} /\ skipped = disk
    /\ crashes = 0
    /\ disturbed = {}

-----------------------------------------------------------------------------
(* The requests.                                                           *)

Becomes(a, activity) == at' = [at EXCEPT ![a] = activity]

(* Go on with the operation at p.                                          *)
Goto(a, p) == at' = [at EXCEPT ![a].pc = p]

(* Done with this model: the next target, or the end of the operation.     *)
DoneWith(a) ==
    Becomes(a, IF at[a].op \in {"pull", "remove"} THEN Idle
               ELSE [at[a] EXCEPT !.pc = "next", !.model = NoModel])

(* The preflight has let it pass, or was overridden.                       *)
StartPull(a, m, keep) ==
    /\ at[a] = Idle
    /\ Becomes(a, [Idle EXCEPT !.op = "pull", !.pc = "download", !.model = m,
                               !.keep = keep])
    /\ UNCHANGED <<stores, build, pending, crashes>>

(* One model, which nobody looks up in the cache, or all of the cache.     *)
StartBenchmark(a, targets) ==
    /\ at[a] = Idle
    /\ targets = disk \/ \E m \in Models : targets = {m}
    /\ Becomes(a, [Idle EXCEPT !.op = "benchmark", !.pc = "next", !.left = targets])
    /\ UNCHANGED <<stores, build, pending, crashes>>

(* remove() refuses a model that is not in the cache.                      *)
StartRemove(a, m) ==
    /\ a # Job
    /\ at[a] = Idle
    /\ m \in disk
    /\ Becomes(a, [Idle EXCEPT !.op = "remove", !.pc = "delete", !.model = m])
    /\ UNCHANGED <<stores, build, pending, crashes>>

(* The job lists the cache again; if that fails it sizes nothing.          *)
StartBackfill ==
    /\ at[Job] = Idle
    /\ pending # {}
    /\ pending' = {}
    /\ \/ /\ Becomes(Job, [Idle EXCEPT !.op = "backfill", !.pc = "next",
                                       !.left = Missing])
          /\ UNCHANGED skipped
       \/ skipped' = skipped \cup Missing /\ UNCHANGED at
    /\ UNCHANGED <<stores, build, crashes, disturbed>>

NextTarget(a) ==
    /\ at[a].pc = "next"
    /\ IF at[a].left = {}
       THEN Becomes(a, Idle)
       ELSE \E m \in at[a].left :
                Becomes(a, [at[a] EXCEPT !.pc = "size", !.model = m, !.left = @ \ {m}])
    /\ UNCHANGED <<stores, build, pending, crashes>>

-----------------------------------------------------------------------------
(* The steps of the operations.                                            *)

(* pull_model: it ends with the model in the cache, where it may have been *)
(* before, or with an error.                                               *)
Download(a) ==
    /\ at[a].pc = "download"
    /\ \/ Goto(a, "size") /\ disk' = disk \cup {at[a].model}
       \/ Becomes(a, Idle) /\ UNCHANGED disk
    /\ UNCHANGED <<sized, grade, device, held, build, pending, crashes>>

(* ensure_preset without force finds a section.                            *)
SkipSized(a) ==
    /\ at[a].pc = "size"
    /\ at[a].op = "backfill"
    /\ at[a].model \in sized
    /\ DoneWith(a)
    /\ UNCHANGED <<stores, build, pending, crashes>>

Probes(a) ==
    /\ at[a].pc = "size"
    /\ at[a].op = "backfill" => at[a].model \notin sized

(* The probe loads the model -- `llama-server -hf' downloads it again if   *)
(* it is gone -- and the preset is written, whatever the verdict.          *)
SizeLoads(a) ==
    /\ Probes(a)
    /\ disk' = disk \cup {at[a].model}
    /\ sized' = sized \cup {at[a].model}
    /\ \/ /\ at[a].op = "pull"
          /\ \E viable \in BOOLEAN :
                Becomes(a, [at[a] EXCEPT !.pc = "forgive", !.viable = viable])
       \/ at[a].op = "benchmark" /\ Goto(a, "measure")
       \/ at[a].op = "backfill" /\ DoneWith(a)
    /\ UNCHANGED <<grade, device, held, build, pending, crashes>>

(* Mutation: a benchmark rejects as a pull does.                           *)
SizeWontLoadRejects(a) ==
    /\ Probes(a)
    /\ \/ at[a].op = "pull" /\ Goto(a, IF at[a].keep THEN "forgive" ELSE "delete")
       \/ at[a].op = "benchmark" /\ Goto(a, "delete")
       \/ at[a].op = "backfill" /\ DoneWith(a)
    /\ UNCHANGED <<stores, build, pending, crashes>>

(* llama-server exits while it loads the model.                            *)
SizeWontLoad(a) ==
    /\ Probes(a)
    /\ \/ at[a].op = "pull" /\ Goto(a, IF at[a].keep THEN "forgive" ELSE "delete")
       \/ at[a].op = "benchmark" /\ Goto(a, "hold")
       \/ at[a].op = "backfill" /\ DoneWith(a)
    /\ UNCHANGED <<stores, build, pending, crashes>>

(* The probe fails for a reason that says nothing about the model: no      *)
(* binary, no memory at that moment, a log that cannot be parsed.          *)
SizeFails(a) ==
    /\ Probes(a)
    /\ \/ at[a].op = "pull" /\ Goto(a, "forgive")
       \/ at[a].op = "benchmark" /\ Goto(a, "measure")
       \/ at[a].op = "backfill" /\ DoneWith(a)
    /\ UNCHANGED <<stores, build, pending, crashes>>

(* pull forgets the verdict, then rejects a model that is not viable.      *)
Forgive(a) ==
    /\ at[a].pc = "forgive"
    /\ held' = held \ {at[a].model}
    /\ IF ~at[a].viable /\ ~at[a].keep THEN Goto(a, "delete") ELSE DoneWith(a)
    /\ UNCHANGED <<disk, sized, grade, device, build, pending, crashes>>

(* delete_cached_model; when it is refused everything else is left as it is.*)
Delete(a) ==
    /\ at[a].pc = "delete"
    /\ \/ /\ at[a].model \in disk
          /\ disk' = disk \ {at[a].model}
          /\ Goto(a, "dropPreset")
       \/ DoneWith(a) /\ UNCHANGED disk
    /\ UNCHANGED <<sized, grade, device, held, build, pending, crashes>>

(* The files are gone, and the router's answer is lost or late, or the     *)
(* router outlives its SIGKILL: for the caller the deletion has failed.    *)
DeleteUnheard(a) ==
    /\ at[a].pc = "delete"
    /\ at[a].model \in disk
    /\ disk' = disk \ {at[a].model}
    /\ DoneWith(a)
    /\ UNCHANGED <<sized, grade, device, held, build, pending, crashes>>

(* An exception that the operation does not handle ends it where it is: a  *)
(* presets file that cannot be parsed, a disk that is full.                *)
Raises(a) ==
    /\ at[a] # Idle
    /\ Becomes(a, Idle)
    /\ UNCHANGED <<stores, build, pending, crashes>>

(* Mutation: the score is not forgotten.                                   *)
DropPresetKeepsGrade(a) ==
    /\ at[a].pc = "dropPreset"
    /\ sized' = sized \ {at[a].model}
    /\ Goto(a, "dropHealth")
    /\ UNCHANGED <<disk, grade, device, held, build, pending, crashes>>

(* _forget_model                                                           *)
DropPreset(a) ==
    /\ at[a].pc = "dropPreset"
    /\ sized' = sized \ {at[a].model}
    /\ Goto(a, "dropGrade")
    /\ UNCHANGED <<disk, grade, device, held, build, pending, crashes>>

DropGrade(a) ==
    /\ at[a].pc = "dropGrade"
    /\ grade' = [grade EXCEPT ![at[a].model] = NoGrade]
    /\ Goto(a, "dropHealth")
    /\ UNCHANGED <<disk, sized, device, held, build, pending, crashes>>

DropHealth(a) ==
    /\ at[a].pc = "dropHealth"
    /\ held' = held \ {at[a].model}
    /\ DoneWith(a)
    /\ UNCHANGED <<disk, sized, grade, device, build, pending, crashes>>

(* benchmark holds back a model that does not load.                        *)
Hold(a) ==
    /\ at[a].pc = "hold"
    /\ held' = held \cup {at[a].model}
    /\ DoneWith(a)
    /\ UNCHANGED <<disk, sized, grade, device, build, pending, crashes>>

(* measure: no preset, a busy machine, no llama-bench, a rejection or a    *)
(* failure of the screen or the probe, or a score.                         *)
Measure(a) ==
    /\ at[a].pc = "measure"
    /\ DoneWith(a) \/ (at[a].model \in sized /\ Goto(a, "record"))
    /\ UNCHANGED <<stores, build, pending, crashes>>

(* write_record: the fingerprint is the file's, not the record's.          *)
Record(a) ==
    /\ at[a].pc = "record"
    /\ grade' = [grade EXCEPT ![at[a].model] = build]
    /\ device' = build
    /\ DoneWith(a)
    /\ UNCHANGED <<disk, sized, held, build, pending, crashes>>

-----------------------------------------------------------------------------
(* Mutation: the backfill is queued on the first start only.               *)
CrashLosesBackfill(a) ==
    /\ at[a] # Idle
    /\ crashes < MaxCrashes
    /\ crashes' = crashes + 1
    /\ Becomes(a, Idle)
    /\ UNCHANGED <<stores, build, pending, skipped>>

(* A process is killed, and started again if it is the service.            *)
Crash(a) ==
    /\ at[a] # Idle
    /\ crashes < MaxCrashes
    /\ crashes' = crashes + 1
    /\ Becomes(a, Idle)
    /\ IF a = Job THEN Starts ELSE UNCHANGED <<pending, skipped>>
    /\ UNCHANGED <<stores, build>>

(* The installer replaces llama.cpp and restarts the service.              *)
Upgrade ==
    /\ build < MaxBuild
    /\ \A a \in Actors : at[a] = Idle
    /\ build' = build + 1
    /\ Starts
    /\ UNCHANGED <<stores, at, crashes, disturbed>>

-----------------------------------------------------------------------------
Request(a) ==
    \/ \E m \in Models, keep \in BOOLEAN : StartPull(a, m, keep)
    \/ \E targets \in SUBSET Models : StartBenchmark(a, targets)
    \/ \E m \in Models : StartRemove(a, m)

Work(a) ==
    \/ NextTarget(a)
    \/ Download(a)
    \/ SkipSized(a)
    \/ SizeLoads(a)
    \/ SizeWontLoad(a)
    \/ SizeFails(a)
    \/ Forgive(a)
    \/ Delete(a)
    \/ DropPreset(a)
    \/ DropGrade(a)
    \/ DropHealth(a)
    \/ Hold(a)
    \/ Measure(a)
    \/ Record(a)

(* What may leave traces of a model that is gone: operations of two actors *)
(* on it at once, and the verdict on a model that was never in the cache.  *)
Confuses(a) ==
    Overlapped' \cup {m \in Models \ disk : at[a].model = m /\ at[a].pc = "hold"}

(* And a removal that does not come to its end: nobody forgets the rest.   *)
Interrupts(a) ==
    {m \in Models : /\ at[a].model = m
                    /\ at[a].pc \in Forgetting \/ m \in disk \ disk'}

(* Models that the backfill passes over: it could not size one of them, or *)
(* something has ended it.                                                 *)
PassesOver(a) ==
    {m \in at[a].left \cup {at[a].model} :
        /\ at[a].op = "backfill"
        /\ m \notin sized' \cup at'[a].left \cup {at'[a].model, NoModel}}

Goes(a) ==
    /\ Request(a) \/ Work(a)
    /\ disturbed' = disturbed \cup Confuses(a)
    /\ skipped' = skipped \cup PassesOver(a)

Breaks(a) ==
    /\ \/ Crash(a)
       \/ (Raises(a) \/ DeleteUnheard(a)) /\ skipped' = skipped \cup PassesOver(a)
    /\ disturbed' = disturbed \cup Confuses(a) \cup Interrupts(a)

Next ==
    \/ \E a \in Actors : Goes(a) \/ Breaks(a)
    \/ StartBackfill
    \/ Upgrade

Spec == Init /\ [][Next]_vars

(* An operation that has begun goes on, and the queue reaches the backfill:*)
(* the worker takes jobs in the order they came.                           *)
Fairness ==
    /\ \A a \in Actors : WF_vars(at[a] # Idle /\ Goes(a))
    /\ SF_vars(StartBackfill)

FairSpec == Spec /\ Fairness

-----------------------------------------------------------------------------
(* Properties                                                              *)

Remembered(m) == m \in sized \/ grade[m] # NoGrade \/ m \in held

(* "Everything this client remembers about a model whose files are gone"   *)
(* (model_ops.py:177) goes with it: a model that is not in the cache and   *)
(* that nobody is working on has left a trace only if two operations on it *)
(* overlapped, if its removal was killed or raised half-way or was not     *)
(* told that the files were gone, or if it was held back without ever      *)
(* having been installed.  No refused deletion, and no failed download,    *)
(* probe or measurement leaves one.                                        *)
RemnantsExplained ==
    \A m \in Models \ (disk \cup disturbed) :
        Remembered(m) => \E a \in Actors : at[a].model = m

(* "Getting this wrong would delete one that works" (model_ops.py:323):    *)
(* weights are deleted only by a removal of that model or by a pull of it  *)
(* whose caller did not ask to keep it, never by a benchmark or a backfill.*)
DeletedOnlyWhenAsked ==
    [][\A m \in disk \ disk' : \E a \in Actors :
          /\ at[a].model = m
          /\ at[a].op = "remove" \/ (at[a].op = "pull" /\ ~at[a].keep)]_vars

(* "On startup if it's found to be missing" (runner.py:168): a model that  *)
(* has no preset when the service starts gets one, or is removed, or this  *)
(* start's backfill has failed on it: its probe ("reported in the returned *)
(* summary", line 180), its list of the cache, or all of it by an          *)
(* exception.  No request and no crash in between loses one.               *)
MissingIsBackfilled ==
    \A m \in Models : m \in pending ~> m \in sized \cup skipped \/ m \notin disk

(* "A llama.cpp upgrade or a GPU-layers change invalidates every grade at  *)
(* once" (model_perf_store.py:159): a score that `list' shows as current   *)
(* was measured with the build that is installed.                          *)
CurrentGradesAreCurrent ==
    \A m \in Models : grade[m] # NoGrade /\ device = build => grade[m] = build
=============================================================================
