------------------------------ MODULE JobRunner ------------------------------
(***************************************************************************)
(* The single-worker job queue of service/jobs.py.  HTTP handler threads   *)
(* call submit(); one worker thread executes the jobs; the main thread     *)
(* calls start() and stop().                                               *)
(*                                                                         *)
(* A job is identified by its place in the order of registration, so the   *)
(* dictionary _jobs and the list _order are one set, `registry': _order is *)
(* that set in increasing order.                                           *)
(***************************************************************************)
EXTENDS Integers, Sequences, FiniteSets

CONSTANTS
    MaxJobs,              \* bound: how many jobs are ever submitted
    MaxFinishedRetained,  \* MAX_FINISHED_RETAINED, 50 in the code
    Workers,              \* the threads start() may create, one per start()
    MaxStops              \* bound: how many times stop() is called

ASSUME JobRunnerAssumption ==
    /\ MaxJobs \in Nat \ {0}
    /\ MaxFinishedRetained \in Nat \ {0}
    /\ MaxStops \in Nat
    /\ IsFiniteSet(Workers)

JobIds == 1 .. MaxJobs

(* The None that stop() puts into the queue, and "no job" in general.      *)
NoJob == 0

(* What _thread holds when there is no worker.                             *)
NoThread == "no thread"

ASSUME NoThreadAssumption == NoThread \notin Workers

VARIABLES
    registry,    \* ids in _jobs and _order
    submitted,   \* how many jobs have been registered
    state,       \* state[j]: Job.state, "new" before submit()
    outcome,     \* outcome[j]: are result / error / error_code filled in?
    submitting,  \* jobs registered whose queue.put has not happened yet
    queue,       \* the queue.Queue
    stopping,    \* the _stopping event
    thread,      \* _thread
    pc,          \* pc[w]: where worker thread w is in _run and _execute
    current,     \* current[w]: the job worker w took from the queue
    stopPc,      \* where the main thread is in stop()
    stops,       \* how many stop() calls have begun
    earlier      \* history: jobs whose submit() had returned when j's began

vars == <<registry, submitted, state, outcome, submitting, queue, stopping,
          thread, pc, current, stopPc, stops, earlier>>

Live == {"queued", "running"}
Terminal == {"succeeded", "failed"}
JobStates == {"new"} \cup Live \cup Terminal

(* check: the while test; get: blocked in queue.get; loaded: an item in    *)
(* hand, _stopping not yet looked at; execute: inside _execute; work: in   *)
(* the job's own function; ending: the lock is held and only the state is  *)
(* written; prune: the job is over and _prune has not run.                 *)
WorkerPcs == {"unborn", "check", "get", "loaded", "execute", "work", "ending",
              "prune", "exited"}
Busy == {"execute", "work", "ending", "prune"}

TypeOK ==
    /\ registry \subseteq JobIds
    /\ submitted \in 0 .. MaxJobs
    /\ state \in [JobIds -> JobStates]
    /\ outcome \in [JobIds -> BOOLEAN]
    /\ submitting \subseteq JobIds
    /\ queue \in Seq(JobIds \cup {NoJob})
    /\ stopping \in BOOLEAN
    /\ thread \in Workers \cup {NoThread}
    /\ pc \in [Workers -> WorkerPcs]
    /\ current \in [Workers -> JobIds \cup {NoJob}]
    /\ stopPc \in {"idle", "put", "join"}
    /\ stops \in 0 .. MaxStops
    /\ earlier \in [JobIds -> SUBSET JobIds]

Init ==
    /\ registry = {}
    /\ submitted = 0
    /\ state = [j \in JobIds |-> "new"]
    /\ outcome = [j \in JobIds |-> FALSE]
    /\ submitting = {}
    /\ queue = <<>>
    /\ stopping = FALSE
    /\ thread = NoThread
    /\ pc = [w \in Workers |-> "unborn"]
    /\ current = [w \in Workers |-> NoJob]
    /\ stopPc = "idle"
    /\ stops = 0
    /\ earlier = [j \in JobIds |-> {}]

runnerVars == <<stopping, thread, stopPc, stops>>
jobVars == <<registry, submitted, state, outcome, submitting, earlier>>
workerVars == <<pc, current>>

(* A worker in the middle of writing a job's end holds _lock.              *)
LockFree == \A w \in Workers : pc[w] # "ending"

-----------------------------------------------------------------------------
(* The main thread: start() and stop().                                    *)

(* Mutation: start() clears _stopping, so that the runner can be restarted.*)
StartClearsStopping(w) ==
    /\ stopPc = "idle"
    /\ thread = NoThread
    /\ pc[w] = "unborn"
    /\ thread' = w
    /\ stopping' = FALSE
    /\ pc' = [pc EXCEPT ![w] = "check"]
    /\ UNCHANGED <<jobVars, queue, stopPc, stops, current>>

(* A fresh thread is created only when _thread is None.  _stopping is not  *)
(* cleared.                                                                *)
Start(w) ==
    /\ stopPc = "idle"
    /\ thread = NoThread
    /\ pc[w] = "unborn"
    /\ thread' = w
    /\ pc' = [pc EXCEPT ![w] = "check"]
    /\ UNCHANGED <<jobVars, queue, stopping, stopPc, stops, current>>

StopSet ==
    /\ stopPc = "idle"
    /\ stops < MaxStops
    /\ stops' = stops + 1
    /\ stopping' = TRUE
    /\ stopPc' = "put"
    /\ UNCHANGED <<jobVars, queue, thread, workerVars>>

(* Mutation: stop() does not put the None that wakes the worker.           *)
StopSilently ==
    /\ stopPc = "put"
    /\ stopPc' = "join"
    /\ UNCHANGED <<jobVars, queue, stopping, thread, stops, workerVars>>

StopWake ==
    /\ stopPc = "put"
    /\ queue' = Append(queue, NoJob)
    /\ stopPc' = "join"
    /\ UNCHANGED <<jobVars, stopping, thread, stops, workerVars>>

(* join() returns when the thread has exited or when the timeout expires;  *)
(* _thread becomes None either way.                                        *)
StopJoin(timedOut) ==
    /\ stopPc = "join"
    /\ thread # NoThread => (timedOut \/ pc[thread] = "exited")
    /\ thread' = NoThread
    /\ stopPc' = "idle"
    /\ UNCHANGED <<jobVars, queue, stopping, stops, workerVars>>

-----------------------------------------------------------------------------
(* Any HTTP thread: submit() registers the job under the lock, then puts   *)
(* it on the queue outside the lock.                                       *)

SubmitRegister ==
    /\ LockFree
    /\ submitted < MaxJobs
    /\ LET j == submitted + 1 IN
        /\ submitted' = j
        /\ registry' = registry \cup {j}
        /\ state' = [state EXCEPT ![j] = "queued"]
        /\ submitting' = submitting \cup {j}
        /\ earlier' = [earlier EXCEPT ![j] = (1 .. submitted) \ submitting]
    /\ UNCHANGED <<outcome, queue, runnerVars, workerVars>>

(* Mutation: the newest submission is served first.                        *)
SubmitInFront(j) ==
    /\ j \in submitting
    /\ submitting' = submitting \ {j}
    /\ queue' = <<j>> \o queue
    /\ UNCHANGED <<registry, submitted, state, outcome, earlier, runnerVars,
                   workerVars>>

SubmitPut(j) ==
    /\ j \in submitting
    /\ submitting' = submitting \ {j}
    /\ queue' = Append(queue, j)
    /\ UNCHANGED <<registry, submitted, state, outcome, earlier, runnerVars,
                   workerVars>>

-----------------------------------------------------------------------------
(* The worker thread: _run, _execute and _prune.                           *)

CheckStopping(w) ==
    /\ pc[w] = "check"
    /\ pc' = [pc EXCEPT ![w] = IF stopping THEN "exited" ELSE "get"]
    /\ UNCHANGED <<jobVars, queue, runnerVars, current>>

(* A None goes straight back to the while test.                            *)
Get(w) ==
    /\ pc[w] = "get"
    /\ queue # <<>>
    /\ queue' = Tail(queue)
    /\ current' = [current EXCEPT ![w] = Head(queue)]
    /\ pc' = [pc EXCEPT ![w] = IF Head(queue) = NoJob THEN "check" ELSE "loaded"]
    /\ UNCHANGED <<jobVars, runnerVars>>

(* Mutation: no second look at _stopping.                                  *)
AdmitAlways(w) ==
    /\ pc[w] = "loaded"
    /\ pc' = [pc EXCEPT ![w] = "execute"]
    /\ UNCHANGED <<jobVars, queue, runnerVars, current>>

(* The second look at _stopping: a job in hand is left queued for ever.    *)
Admit(w) ==
    /\ pc[w] = "loaded"
    /\ pc' = [pc EXCEPT ![w] = IF stopping THEN "check" ELSE "execute"]
    /\ current' = [current EXCEPT ![w] = IF stopping THEN NoJob ELSE @]
    /\ UNCHANGED <<jobVars, queue, runnerVars>>

MarkRunning(w) ==
    /\ LockFree
    /\ pc[w] = "execute"
    /\ state' = [state EXCEPT ![current[w]] = "running"]
    /\ pc' = [pc EXCEPT ![w] = "work"]
    /\ UNCHANGED <<registry, submitted, outcome, submitting, earlier, queue,
                   runnerVars, current>>

(* Mutation: a job that raises takes the worker thread with it.            *)
EndOrCrash(w, s) ==
    /\ LockFree
    /\ pc[w] = "work"
    /\ IF s = "failed"
       THEN pc' = [pc EXCEPT ![w] = "exited"] /\ UNCHANGED state
       ELSE /\ pc' = [pc EXCEPT ![w] = "ending"]
            /\ state' = [state EXCEPT ![current[w]] = s]
    /\ UNCHANGED <<registry, submitted, outcome, submitting, earlier, queue,
                   runnerVars, current>>

(* The job's function returned or raised: the state is written first ...   *)
EndState(w, s) ==
    /\ LockFree
    /\ pc[w] = "work"
    /\ state' = [state EXCEPT ![current[w]] = s]
    /\ pc' = [pc EXCEPT ![w] = "ending"]
    /\ UNCHANGED <<registry, submitted, outcome, submitting, earlier, queue,
                   runnerVars, current>>

(* ... then result, or error and error_code, under the same lock.          *)
EndOutcome(w) ==
    /\ pc[w] = "ending"
    /\ outcome' = [outcome EXCEPT ![current[w]] = TRUE]
    /\ pc' = [pc EXCEPT ![w] = "prune"]
    /\ UNCHANGED <<registry, submitted, state, submitting, earlier, queue,
                   runnerVars, current>>

Finished == {j \in registry : state[j] \in Terminal}

(* Mutations: any job counts as finished; one job too many is kept.        *)
PrunableLive == {j \in registry :
                    Cardinality({k \in registry : k > j}) >= MaxFinishedRetained}
PrunableLate == {j \in Finished :
                    Cardinality({k \in Finished : k > j}) > MaxFinishedRetained}

(* finished[:-MAX_FINISHED_RETAINED]: a finished job goes when as many     *)
(* finished jobs as are retained were registered after it.                 *)
Prunable == {j \in Finished :
                Cardinality({k \in Finished : k > j}) >= MaxFinishedRetained}

Prune(w) ==
    /\ LockFree
    /\ pc[w] = "prune"
    /\ registry' = registry \ Prunable
    /\ pc' = [pc EXCEPT ![w] = "check"]
    /\ current' = [current EXCEPT ![w] = NoJob]
    /\ UNCHANGED <<submitted, state, outcome, submitting, earlier, queue,
                   runnerVars>>

-----------------------------------------------------------------------------
Worker(w) ==
    \/ CheckStopping(w)
    \/ Get(w)
    \/ Admit(w)
    \/ MarkRunning(w)
    \/ \E s \in Terminal : EndState(w, s)
    \/ EndOutcome(w)
    \/ Prune(w)

Main ==
    \/ \E w \in Workers : Start(w)
    \/ StopSet
    \/ StopWake
    \/ \E timedOut \in BOOLEAN : StopJoin(timedOut)

Next ==
    \/ Main
    \/ SubmitRegister
    \/ \E j \in JobIds : SubmitPut(j)
    \/ \E w \in Workers : Worker(w)

Spec == Init /\ [][Next]_vars

(* The threads are scheduled by the interpreter, the runner starts its     *)
(* jobs before it serves requests, and a job's own function is assumed to  *)
(* return or raise; nothing makes a client submit or the main thread stop. *)
Fairness ==
    /\ WF_vars(~stopping /\ \E w \in Workers : Start(w))
    /\ WF_vars(StopWake)
    /\ WF_vars(\E timedOut \in BOOLEAN : StopJoin(timedOut))
    /\ \A j \in JobIds : WF_vars(SubmitPut(j))
    /\ \A w \in Workers : WF_vars(Worker(w))

FairSpec == Spec /\ Fairness

-----------------------------------------------------------------------------
(* Properties                                                              *)

(* "Jobs run one at a time, deliberately" (jobs.py:8): at most one worker  *)
(* is past the admission check, even when stop() gave up waiting for a     *)
(* long job, cleared _thread, and start() created a second worker.         *)
OneAtATime ==
    \A v, w \in Workers : pc[v] \in Busy /\ pc[w] \in Busy => v = w

(* Live work is never forgotten (jobs.py:160-162): every job a caller was  *)
(* given an id for and that has not finished can still be looked up,       *)
(* however many jobs finish and are pruned around it.                      *)
LiveRegistered ==
    \A j \in JobIds : state[j] \in Live => j \in registry

(* Work is executed in the order it was submitted (test_jobs.py:109): no   *)
(* job is started while one whose submit() had returned before its own     *)
(* submit() began is still waiting.                                        *)
SubmissionOrder ==
    \A j \in JobIds : state[j] \in {"running"} \cup Terminal =>
        \A i \in earlier[j] : state[i] \in {"running"} \cup Terminal

(* The jobs a worker has decided to run, now or before.                    *)
Begun ==
    {j \in JobIds : \/ state[j] \in {"running"} \cup Terminal
                    \/ \E w \in Workers : pc[w] = "execute" /\ current[w] = j}

(* Shutdown starts nothing (jobs.py:134): a job that is waiting when       *)
(* _stopping is set is left queued for ever, even by a worker that was     *)
(* blocked in queue.get, and by a worker that start() creates afterwards.  *)
NoStartDuringShutdown == [][stopping => Begun' \subseteq Begun]_vars

(* A job that was submitted is finished eventually, one bad job before it  *)
(* or not, unless the runner is stopped.                                   *)
EveryJobEnds ==
    \A j \in JobIds : (state[j] = "queued") ~> (state[j] \in Terminal \/ stopping)

(* stop() ends the worker: no thread is left blocked in queue.get for ever *)
(* once _stopping is set.                                                  *)
StopEndsWorkers ==
    stopping ~> (\A w \in Workers : pc[w] \in {"unborn", "exited"})

-----------------------------------------------------------------------------
(* The job a worker has admitted and not settled, if there is one.         *)
InHand ==
    IF \E w \in Workers : pc[w] \in Busy
    THEN current[CHOOSE w \in Workers : pc[w] \in Busy]
    ELSE NoJob

Ledger == INSTANCE JobLedger WITH
    known <- registry, count <- submitted, status <- state,
    inHand <- InHand, closed <- stopping

(* The threads, the queue and the lock together keep the promise JobLedger *)
(* states: every step of theirs is a step of the ledger or invisible in it.*)
ImplementsLedger == Ledger!LedgerSpec
=============================================================================
