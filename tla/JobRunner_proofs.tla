--------------------------- MODULE JobRunner_proofs ---------------------------
(***************************************************************************)
(* Proofs about JobRunner for any number of jobs, worker threads and       *)
(* stop() calls, and any retention limit.                                  *)
(***************************************************************************)
EXTENDS JobRunner, FiniteSetTheorems, TLAPS

USE JobRunnerAssumption, NoThreadAssumption
    DEF JobRunnerAssumption, NoThreadAssumption, JobIds, NoJob

(* Every variable has its type in every reachable state.                   *)
THEOREM TypeCorrect == Spec => []TypeOK
<1>1. Init => TypeOK
  <2> SUFFICES ASSUME Init PROVE TypeOK
    OBVIOUS
  <2>1. /\ state \in [JobIds -> JobStates]
        /\ outcome \in [JobIds -> BOOLEAN]
        /\ earlier \in [JobIds -> SUBSET JobIds]
    BY DEF Init, JobStates
  <2>2. /\ pc \in [Workers -> WorkerPcs]
        /\ current \in [Workers -> JobIds \cup {NoJob}]
        /\ queue \in Seq(JobIds \cup {NoJob})
    BY DEF Init, WorkerPcs
  <2>3. /\ submitted \in 0 .. MaxJobs
        /\ stops \in 0 .. MaxStops
    BY DEF Init
  <2> QED
    BY <2>1, <2>2, <2>3 DEF Init, TypeOK
<1>2. TypeOK /\ [Next]_vars => TypeOK'
  <2> SUFFICES ASSUME TypeOK, [Next]_vars PROVE TypeOK'
    OBVIOUS
  <2> USE DEF TypeOK, runnerVars, jobVars, workerVars
  <2>1. ASSUME NEW w \in Workers, Start(w) PROVE TypeOK'
    BY <2>1 DEF Start, WorkerPcs
  <2>2. CASE StopSet
    BY <2>2 DEF StopSet
  <2>3. CASE StopWake
    BY <2>3 DEF StopWake
  <2>4. ASSUME NEW timedOut \in BOOLEAN, StopJoin(timedOut) PROVE TypeOK'
    BY <2>4 DEF StopJoin
  <2>5. CASE SubmitRegister
    BY <2>5 DEF SubmitRegister, JobStates, Live
  <2>6. ASSUME NEW j \in JobIds, SubmitPut(j) PROVE TypeOK'
    BY <2>6 DEF SubmitPut
  <2>7. ASSUME NEW w \in Workers, CheckStopping(w) PROVE TypeOK'
    BY <2>7 DEF CheckStopping, WorkerPcs
  <2>8. ASSUME NEW w \in Workers, Get(w) PROVE TypeOK'
    BY <2>8 DEF Get, WorkerPcs
  <2>9. ASSUME NEW w \in Workers, Admit(w) PROVE TypeOK'
    BY <2>9 DEF Admit, WorkerPcs
  <2>10. ASSUME NEW w \in Workers, MarkRunning(w) PROVE TypeOK'
    BY <2>10 DEF MarkRunning, WorkerPcs, JobStates, Live
  <2>11. ASSUME NEW w \in Workers, NEW s \in Terminal, EndState(w, s) PROVE TypeOK'
    BY <2>11 DEF EndState, WorkerPcs, JobStates
  <2>12. ASSUME NEW w \in Workers, EndOutcome(w) PROVE TypeOK'
    BY <2>12 DEF EndOutcome, WorkerPcs
  <2>13. ASSUME NEW w \in Workers, Prune(w) PROVE TypeOK'
    BY <2>13 DEF Prune, WorkerPcs
  <2>14. CASE UNCHANGED vars
    BY <2>14 DEF vars
  <2> QED
    BY <2>1, <2>2, <2>3, <2>4, <2>5, <2>6, <2>7, <2>8, <2>9, <2>10, <2>11,
       <2>12, <2>13, <2>14 DEF Next, Main, Worker
<1> QED
  BY <1>1, <1>2, PTL DEF Spec

-----------------------------------------------------------------------------
(* Why only one worker gets past the while test: as long as _stopping is   *)
(* not set, _thread names the only thread there is; once it is set, a new  *)
(* thread exits at the while test.                                         *)
Born(w) == pc[w] # "unborn"
Active(w) == pc[w] \notin {"unborn", "check", "exited"}

SerialInv ==
    /\ stopPc # "idle" => stopping
    /\ \A w \in Workers : ~stopping /\ Born(w) => thread = w
    /\ \A v, w \in Workers : Active(v) /\ Active(w) => v = w

LEMMA SerialStep == TypeOK /\ SerialInv /\ [Next]_vars => SerialInv'
<1> SUFFICES ASSUME TypeOK, SerialInv, [Next]_vars PROVE SerialInv'
  OBVIOUS
<1> USE DEF TypeOK, SerialInv, Born, Active, runnerVars, workerVars, jobVars
<1>1. ASSUME NEW w \in Workers, Start(w) PROVE SerialInv'
  BY <1>1 DEF Start
<1>2. CASE StopSet
  BY <1>2 DEF StopSet
<1>3. CASE StopWake
  BY <1>3 DEF StopWake
<1>4. ASSUME NEW timedOut \in BOOLEAN, StopJoin(timedOut) PROVE SerialInv'
  BY <1>4 DEF StopJoin
<1>5. CASE SubmitRegister
  BY <1>5 DEF SubmitRegister
<1>6. ASSUME NEW j \in JobIds, SubmitPut(j) PROVE SerialInv'
  BY <1>6 DEF SubmitPut
<1>7. ASSUME NEW w \in Workers, CheckStopping(w) PROVE SerialInv'
  BY <1>7 DEF CheckStopping
<1>8. ASSUME NEW w \in Workers, Get(w) PROVE SerialInv'
  BY <1>8 DEF Get
<1>9. ASSUME NEW w \in Workers, Admit(w) PROVE SerialInv'
  BY <1>9 DEF Admit
<1>10. ASSUME NEW w \in Workers, MarkRunning(w) PROVE SerialInv'
  BY <1>10 DEF MarkRunning
<1>11. ASSUME NEW w \in Workers, NEW s \in Terminal, EndState(w, s) PROVE SerialInv'
  BY <1>11 DEF EndState
<1>12. ASSUME NEW w \in Workers, EndOutcome(w) PROVE SerialInv'
  BY <1>12 DEF EndOutcome
<1>13. ASSUME NEW w \in Workers, Prune(w) PROVE SerialInv'
  BY <1>13 DEF Prune
<1>14. CASE UNCHANGED vars
  BY <1>14 DEF vars
<1> QED
  BY <1>1, <1>2, <1>3, <1>4, <1>5, <1>6, <1>7, <1>8, <1>9, <1>10, <1>11,
     <1>12, <1>13, <1>14 DEF Next, Main, Worker

LEMMA SerialInvariant == Spec => []SerialInv
<1>1. Init => SerialInv
  BY DEF Init, SerialInv, Born, Active
<1> QED
  BY <1>1, SerialStep, TypeCorrect, PTL DEF Spec

(* Jobs never overlap (jobs.py:8), whatever start() and stop() do to the   *)
(* worker threads.                                                         *)
THEOREM JobsNeverOverlap == Spec => []OneAtATime
<1>1. SerialInv => OneAtATime
  BY DEF SerialInv, OneAtATime, Active, Busy
<1> QED
  BY <1>1, SerialInvariant, PTL

-----------------------------------------------------------------------------
(* Where each job is.  A job waits in exactly one place - with the thread  *)
(* that is submitting it, at one position of the queue, or in the hand of  *)
(* a worker - and its state says how far that worker has got with it.      *)
Holding == {"loaded"} \cup Busy

HeldState(p) ==
    CASE p \in {"loaded", "execute"} -> {"queued"}
      [] p = "work" -> {"running"}
      [] OTHER -> Terminal

RegistryInv ==
    /\ \A j \in JobIds : j > submitted => state[j] = "new"
    /\ \A j \in JobIds : state[j] \in Live => j \in registry
    /\ \A j \in submitting : state[j] = "queued"

QueueInv ==
    /\ \A i \in 1 .. Len(queue) : queue[i] # NoJob =>
            state[queue[i]] = "queued" /\ queue[i] \notin submitting
    /\ \A i, k \in 1 .. Len(queue) :
            queue[i] = queue[k] /\ queue[i] # NoJob => i = k

HandInv ==
    \A w \in Workers : pc[w] \in Holding =>
        /\ current[w] \in JobIds
        /\ state[current[w]] \in HeldState(pc[w])
        /\ current[w] \notin submitting
        /\ \A i \in 1 .. Len(queue) : queue[i] # current[w]

PlaceInv == RegistryInv /\ QueueInv /\ HandInv

LEMMA PlaceStep ==
    TypeOK /\ SerialInv /\ PlaceInv /\ [Next]_vars => PlaceInv'
<1> SUFFICES ASSUME TypeOK, SerialInv, PlaceInv, [Next]_vars PROVE PlaceInv'
  OBVIOUS
<1> USE DEF TypeOK, PlaceInv, RegistryInv, QueueInv, HandInv, Holding, HeldState, Busy, Live, Terminal,
            runnerVars, workerVars, jobVars
<1>1. ASSUME NEW w \in Workers, Start(w) PROVE PlaceInv'
  BY <1>1 DEF Start
<1>2. CASE StopSet
  BY <1>2 DEF StopSet
<1>3. CASE StopWake
  BY <1>3 DEF StopWake
<1>4. ASSUME NEW timedOut \in BOOLEAN, StopJoin(timedOut) PROVE PlaceInv'
  BY <1>4 DEF StopJoin
<1>5. CASE SubmitRegister
  <2> DEFINE j == submitted + 1
  <2>1. /\ j \in JobIds /\ j > submitted /\ state[j] = "new"
        /\ state' = [state EXCEPT ![j] = "queued"]
        /\ submitting' = submitting \cup {j}
        /\ registry' = registry \cup {j}
        /\ submitted' = j
        /\ UNCHANGED <<queue, pc, current>>
    BY <1>5 DEF SubmitRegister
  <2> HIDE DEF j
  <2>2. RegistryInv'
    BY <2>1
  <2>3. QueueInv'
    BY <2>1
  <2>4. HandInv'
    <3>1. \A w \in Workers : pc[w] \in Holding => current[w] # j
      BY <2>1
    <3> QED
      BY <2>1, <3>1
  <2> QED
    BY <2>2, <2>3, <2>4
<1>6. ASSUME NEW j \in JobIds, SubmitPut(j) PROVE PlaceInv'
  <2>1. /\ Len(queue') = Len(queue) + 1
        /\ queue'[Len(queue) + 1] = j
        /\ \A i \in 1 .. Len(queue') :
              i # Len(queue) + 1 => i \in 1 .. Len(queue) /\ queue'[i] = queue[i]
    BY <1>6 DEF SubmitPut
  <2> QED
    BY <1>6, <2>1 DEF SubmitPut
<1>7. ASSUME NEW w \in Workers, CheckStopping(w) PROVE PlaceInv'
  BY <1>7 DEF CheckStopping
<1>8. ASSUME NEW w \in Workers, Get(w) PROVE PlaceInv'
  <2>1. /\ Len(queue') = Len(queue) - 1
        /\ \A i \in 1 .. Len(queue') : i + 1 \in 1 .. Len(queue) /\ queue'[i] = queue[i + 1]
        /\ 1 \in 1 .. Len(queue)
        /\ Head(queue) = queue[1]
    BY <1>8 DEF Get
  <2>2. RegistryInv'
    BY <1>8 DEF Get
  <2>5. QueueInv'
    <3>1. UNCHANGED <<state, submitting>>
      BY <1>8 DEF Get
    <3>2. \A i \in 1 .. Len(queue') : queue'[i] # NoJob =>
            state'[queue'[i]] = "queued" /\ queue'[i] \notin submitting'
      BY <2>1, <3>1
    <3>3. ASSUME NEW i \in 1 .. Len(queue'), NEW k \in 1 .. Len(queue'),
                 queue'[i] = queue'[k], queue'[i] # NoJob
          PROVE  i = k
      <4>1. i + 1 = k + 1
        BY <2>1, <3>3
      <4> QED
        BY <4>1
    <3> QED
      BY <3>2, <3>3
  <2>3. ASSUME NEW v \in Workers, v # w, pc'[v] \in Holding PROVE FALSE
    <3>1. pc'[v] = pc[v]
      BY <1>8, <2>3 DEF Get
    <3>2. Active(v) /\ Active(w)
      BY <1>8, <2>3, <3>1 DEF Get, Active
    <3> QED
      BY <2>3, <3>2 DEF SerialInv
  <2>4. ASSUME pc'[w] \in Holding
        PROVE  /\ current'[w] \in JobIds
               /\ state'[current'[w]] \in HeldState(pc'[w])
               /\ current'[w] \notin submitting'
               /\ \A i \in 1 .. Len(queue') : queue'[i] # current'[w]
    <3>1. current'[w] = queue[1] /\ queue[1] # NoJob /\ pc'[w] = "loaded"
      BY <1>8, <2>1, <2>4 DEF Get
    <3>2. queue[1] \in JobIds
      BY <2>1, <3>1
    <3> QED
      BY <1>8, <2>1, <3>1, <3>2 DEF Get
  <2> QED
    BY <2>2, <2>3, <2>4, <2>5
<1>9. ASSUME NEW w \in Workers, Admit(w) PROVE PlaceInv'
  BY <1>9 DEF Admit
<1>10. ASSUME NEW w \in Workers, MarkRunning(w) PROVE PlaceInv'
  <2>1. /\ current[w] \in JobIds /\ state[current[w]] = "queued"
        /\ state' = [state EXCEPT ![current[w]] = "running"]
    BY <1>10 DEF MarkRunning
  <2>2. RegistryInv' /\ QueueInv'
    BY <1>10, <2>1 DEF MarkRunning
  <2>3. ASSUME NEW v \in Workers, v # w, pc'[v] \in Holding PROVE FALSE
    <3>1. pc'[v] = pc[v]
      BY <1>10, <2>3 DEF MarkRunning
    <3>2. Active(v) /\ Active(w)
      BY <1>10, <2>3, <3>1 DEF MarkRunning, Active
    <3> QED
      BY <2>3, <3>2 DEF SerialInv
  <2>4. /\ state'[current'[w]] \in HeldState(pc'[w])
        /\ current'[w] \notin submitting'
        /\ \A i \in 1 .. Len(queue') : queue'[i] # current'[w]
    BY <1>10, <2>1 DEF MarkRunning
  <2> QED
    BY <1>10, <2>1, <2>2, <2>3, <2>4 DEF MarkRunning
<1>11. ASSUME NEW w \in Workers, NEW s \in Terminal, EndState(w, s) PROVE PlaceInv'
  <2>1. /\ current[w] \in JobIds /\ state[current[w]] = "running"
        /\ state' = [state EXCEPT ![current[w]] = s]
    BY <1>11 DEF EndState
  <2>2. RegistryInv' /\ QueueInv'
    BY <1>11, <2>1 DEF EndState
  <2>3. ASSUME NEW v \in Workers, v # w, pc'[v] \in Holding PROVE FALSE
    <3>1. pc'[v] = pc[v]
      BY <1>11, <2>3 DEF EndState
    <3>2. Active(v) /\ Active(w)
      BY <1>11, <2>3, <3>1 DEF EndState, Active
    <3> QED
      BY <2>3, <3>2 DEF SerialInv
  <2>4. /\ state'[current'[w]] \in HeldState(pc'[w])
        /\ current'[w] \notin submitting'
        /\ \A i \in 1 .. Len(queue') : queue'[i] # current'[w]
    BY <1>11, <2>1 DEF EndState
  <2> QED
    BY <1>11, <2>1, <2>2, <2>3, <2>4 DEF EndState
<1>12. ASSUME NEW w \in Workers, EndOutcome(w) PROVE PlaceInv'
  BY <1>12 DEF EndOutcome
<1>13. ASSUME NEW w \in Workers, Prune(w) PROVE PlaceInv'
  BY <1>13 DEF Prune, Prunable, Finished
<1>14. CASE UNCHANGED vars
  BY <1>14 DEF vars
<1> QED
  BY <1>1, <1>2, <1>3, <1>4, <1>5, <1>6, <1>7, <1>8, <1>9, <1>10, <1>11,
     <1>12, <1>13, <1>14 DEF Next, Main, Worker

LEMMA PlaceInvariant == Spec => []PlaceInv
<1>1. Init => PlaceInv
  BY DEF Init, PlaceInv, RegistryInv, QueueInv, HandInv, Holding, Busy, Live
<1> QED
  BY <1>1, PlaceStep, TypeCorrect, SerialInvariant, PTL DEF Spec

(* A job a caller holds the id of stays known until it is over             *)
(* (jobs.py:160-162): pruning never forgets queued or running work.        *)
THEOREM LiveJobsAreKnown == Spec => []LiveRegistered
<1>1. PlaceInv => LiveRegistered
  BY DEF PlaceInv, RegistryInv, LiveRegistered
<1> QED
  BY <1>1, PlaceInvariant, PTL

(* Once _stopping is set, no worker decides to run another job             *)
(* (jobs.py:134), for any number of jobs and workers.                      *)
THEOREM ShutdownStartsNothing == Spec => NoStartDuringShutdown
<1> DEFINE Settled == stopping => Begun' \subseteq Begun
<1>1. TypeOK /\ PlaceInv /\ [Next]_vars => [Settled]_vars
  <2> SUFFICES ASSUME TypeOK, PlaceInv, Next, stopping, NEW j \in Begun'
               PROVE  j \in Begun
    OBVIOUS
  <2> USE DEF TypeOK, runnerVars, workerVars, jobVars
  <2>1. CASE Main
    BY <2>1 DEF Main, Start, StopSet, StopWake, StopJoin, Begun
  <2>2. CASE SubmitRegister
    BY <2>2 DEF SubmitRegister, Begun, Terminal
  <2>3. CASE \E i \in JobIds : SubmitPut(i)
    BY <2>3 DEF SubmitPut, Begun
  <2>4. ASSUME NEW w \in Workers, CheckStopping(w) \/ Get(w) \/ Admit(w)
        PROVE  j \in Begun
    BY <2>4 DEF CheckStopping, Get, Admit, Begun
  <2>5. ASSUME NEW w \in Workers, MarkRunning(w) PROVE j \in Begun
    BY <2>5 DEF MarkRunning, Begun
  <2>6. ASSUME NEW w \in Workers, NEW s \in Terminal, EndState(w, s) PROVE j \in Begun
    <3>1. state[current[w]] = "running"
      BY <2>6 DEF EndState, PlaceInv, HandInv, Holding, HeldState, Busy
    <3> QED
      BY <2>6, <3>1 DEF EndState, Begun
  <2>7. ASSUME NEW w \in Workers, EndOutcome(w) \/ Prune(w) PROVE j \in Begun
    BY <2>7 DEF EndOutcome, Prune, Begun
  <2> QED
    BY <2>1, <2>2, <2>3, <2>4, <2>5, <2>6, <2>7 DEF Next, Worker
<1> QED
  BY <1>1, TypeCorrect, PlaceInvariant, PTL DEF Spec, NoStartDuringShutdown
-----------------------------------------------------------------------------
(* Why the order of submission is kept.  As long as _stopping is not set a *)
(* queued job is in one of its three places; one that had been submitted   *)
(* when another was registered stands before it in the queue, and is gone  *)
(* from there when the other is taken.                                     *)
Started == {"running"} \cup Terminal

AheadInv ==
    /\ \A i \in JobIds : i <= submitted => state[i] # "new"
    /\ \A j \in JobIds : \A i \in earlier[j] :
          i # j /\ state[i] # "new" /\ state[j] # "new" /\ i \notin submitting

LineInv ==
    \A j \in JobIds : \A i \in earlier[j] : \A n \in 1 .. Len(queue) :
        queue[n] = i =>
            j \in submitting \/ \E k \in 1 .. Len(queue) : k > n /\ queue[k] = j

WaitInv ==
    ~stopping => \A j \in JobIds : state[j] = "queued" =>
        \/ j \in submitting
        \/ \E n \in 1 .. Len(queue) : queue[n] = j
        \/ \E w \in Workers : pc[w] \in {"loaded", "execute"} /\ current[w] = j

BegunInv == \A j \in Begun : \A i \in earlier[j] : state[i] \in Started

OrderInv == AheadInv /\ LineInv /\ WaitInv /\ BegunInv

LEMMA OrderStep ==
    TypeOK /\ SerialInv /\ PlaceInv /\ OrderInv /\ [Next]_vars => OrderInv'
<1> SUFFICES ASSUME TypeOK, SerialInv, PlaceInv, OrderInv, [Next]_vars
             PROVE  OrderInv'
  OBVIOUS
<1> USE DEF TypeOK, OrderInv, AheadInv, LineInv, WaitInv, BegunInv, Begun,
            Started, Terminal, runnerVars, workerVars, jobVars
<1>0. ASSUME UNCHANGED <<state, submitted, submitting, earlier, queue, stopping>>,
             \A w \in Workers : pc[w] \in {"loaded", "execute"} =>
                 pc'[w] = pc[w] /\ current'[w] = current[w],
             \A w \in Workers : pc'[w] = "execute" =>
                 pc[w] = "execute" /\ current'[w] = current[w]
      PROVE  OrderInv'
  <2>1. AheadInv' /\ LineInv'
    BY <1>0
  <2>2. WaitInv'
    <3> SUFFICES ASSUME ~stopping, NEW j \in JobIds, state[j] = "queued",
                        j \notin submitting, \A n \in 1 .. Len(queue) : queue[n] # j
                 PROVE  \E w \in Workers : pc'[w] \in {"loaded", "execute"}
                                           /\ current'[w] = j
      BY <1>0
    <3>1. PICK w \in Workers : pc[w] \in {"loaded", "execute"} /\ current[w] = j
      OBVIOUS
    <3> QED
      BY <1>0, <3>1
  <2>3. BegunInv'
    <3>1. \A j \in Begun' : j \in Begun
      BY <1>0
    <3> QED
      BY <1>0, <3>1
  <2> QED
    BY <2>1, <2>2, <2>3
<1>1. ASSUME NEW w \in Workers, Start(w) PROVE OrderInv'
  BY <1>0, <1>1 DEF Start
<1>2. CASE StopSet
  BY <1>2 DEF StopSet
<1>3. CASE StopWake
  <2>1. /\ Len(queue') = Len(queue) + 1
        /\ queue'[Len(queue) + 1] = NoJob
        /\ \A n \in 1 .. Len(queue) : queue'[n] = queue[n]
    BY <1>3 DEF StopWake
  <2>2. UNCHANGED <<jobVars, workerVars, stopping>>
    BY <1>3 DEF StopWake
  <2>3. LineInv'
    <3> SUFFICES ASSUME NEW j \in JobIds, NEW i \in earlier[j],
                        NEW n \in 1 .. Len(queue'), queue'[n] = i, j \notin submitting
                 PROVE  \E k \in 1 .. Len(queue') : k > n /\ queue'[k] = j
      BY <2>2
    <3>1. n \in 1 .. Len(queue) /\ queue[n] = i
      BY <2>1
    <3>2. PICK k \in 1 .. Len(queue) : k > n /\ queue[k] = j
      BY <3>1
    <3> QED
      BY <2>1, <3>2
  <2>4. WaitInv'
    <3>1. stopping
      BY <1>3 DEF StopWake, SerialInv
    <3> QED
      BY <2>2, <3>1
  <2>5. AheadInv' /\ BegunInv'
    BY <2>2
  <2> QED
    BY <2>3, <2>4, <2>5
<1>4. ASSUME NEW timedOut \in BOOLEAN, StopJoin(timedOut) PROVE OrderInv'
  BY <1>4 DEF StopJoin
<1>5. CASE SubmitRegister
  <2> DEFINE j == submitted + 1
  <2>1. /\ j \in JobIds /\ j > submitted /\ state[j] = "new"
        /\ state' = [state EXCEPT ![j] = "queued"]
        /\ submitting' = submitting \cup {j}
        /\ submitted' = j
        /\ earlier' = [earlier EXCEPT ![j] = (1 .. submitted) \ submitting]
        /\ UNCHANGED <<queue, pc, current, stopping>>
    BY <1>5 DEF SubmitRegister, PlaceInv, RegistryInv
  <2> HIDE DEF j
  <2>2. AheadInv'
    <3>1. ASSUME NEW i \in JobIds, i <= submitted' PROVE state'[i] # "new"
      <4>1. i = j \/ i <= submitted
        BY <2>1, <3>1 DEF j
      <4> QED
        BY <2>1, <4>1
    <3>2. ASSUME NEW k \in JobIds, NEW i \in earlier'[k]
          PROVE  i # k /\ state'[i] # "new" /\ state'[k] # "new" /\ i \notin submitting'
      <4>1. CASE k = j
        BY <2>1, <4>1
      <4>2. CASE k # j
        <5>1. i \in earlier[k] /\ i \in JobIds
          BY <2>1, <4>2
        <5>2. i # j /\ i # k /\ state[i] # "new" /\ state[k] # "new" /\ i \notin submitting
          BY <2>1, <5>1
        <5> QED
          BY <2>1, <4>2, <5>1, <5>2
      <4> QED
        BY <4>1, <4>2
    <3> QED
      BY <3>1, <3>2
  <2>3. LineInv'
    BY <2>1
  <2>4. WaitInv'
    BY <2>1
  <2>5. BegunInv'
    <3>1. \A k \in Begun' : k \in Begun /\ k # j
      BY <2>1 DEF PlaceInv, HandInv, Holding, HeldState, Busy
    <3>2. \A k \in Begun : \A i \in earlier[k] : i # j
      BY <2>1
    <3> QED
      BY <2>1, <3>1, <3>2
  <2> QED
    BY <2>2, <2>3, <2>4, <2>5
<1>6. ASSUME NEW j \in JobIds, SubmitPut(j) PROVE OrderInv'
  <2>1. /\ Len(queue') = Len(queue) + 1
        /\ queue'[Len(queue) + 1] = j
        /\ \A n \in 1 .. Len(queue) : queue'[n] = queue[n]
        /\ j \in submitting
        /\ submitting' = submitting \ {j}
        /\ UNCHANGED <<state, earlier, submitted, pc, current, stopping>>
    BY <1>6 DEF SubmitPut
  <2>2. LineInv'
    <3> SUFFICES ASSUME NEW k \in JobIds, NEW i \in earlier[k],
                        NEW n \in 1 .. Len(queue'), queue'[n] = i,
                        k \notin submitting'
                 PROVE  \E q \in 1 .. Len(queue') : q > n /\ queue'[q] = k
      BY <2>1
    <3>1. n \in 1 .. Len(queue) /\ queue[n] = i
      BY <2>1
    <3>2. CASE k = j
      BY <2>1, <3>1, <3>2
    <3>3. CASE k # j
      <4>1. PICK q \in 1 .. Len(queue) : q > n /\ queue[q] = k
        BY <2>1, <3>1, <3>3
      <4> QED
        BY <2>1, <4>1
    <3> QED
      BY <3>2, <3>3
  <2>3. AheadInv'
    BY <2>1
  <2>4. BegunInv'
    BY <2>1
  <2>5. WaitInv'
    <3> SUFFICES ASSUME ~stopping, NEW k \in JobIds, state[k] = "queued",
                        k \notin submitting'
                 PROVE  \/ \E n \in 1 .. Len(queue') : queue'[n] = k
                        \/ \E v \in Workers : pc[v] \in {"loaded", "execute"}
                                              /\ current[v] = k
      BY <2>1
    <3>1. CASE k = j
      BY <2>1, <3>1
    <3>2. CASE \E n \in 1 .. Len(queue) : queue[n] = k
      BY <2>1, <3>2
    <3> QED
      BY <2>1, <3>1, <3>2
  <2> QED
    BY <2>2, <2>3, <2>4, <2>5
<1>7. ASSUME NEW w \in Workers, CheckStopping(w) PROVE OrderInv'
  BY <1>0, <1>7 DEF CheckStopping
<1>8. ASSUME NEW w \in Workers, Get(w) PROVE OrderInv'
  <2>1. /\ Len(queue') = Len(queue) - 1
        /\ \A n \in 1 .. Len(queue') : n + 1 \in 1 .. Len(queue) /\ queue'[n] = queue[n + 1]
        /\ Head(queue) = queue[1]
        /\ pc[w] = "get"
        /\ current' = [current EXCEPT ![w] = queue[1]]
        /\ pc' = [pc EXCEPT ![w] = IF queue[1] = NoJob THEN "check" ELSE "loaded"]
        /\ UNCHANGED <<jobVars, stopping>>
    BY <1>8 DEF Get
  <2>2. LineInv'
    <3> SUFFICES ASSUME NEW j \in JobIds, NEW i \in earlier[j],
                        NEW n \in 1 .. Len(queue'), queue'[n] = i, j \notin submitting
                 PROVE  \E k \in 1 .. Len(queue') : k > n /\ queue'[k] = j
      BY <2>1
    <3>1. n + 1 \in 1 .. Len(queue) /\ queue[n + 1] = i
      BY <2>1
    <3>2. PICK k \in 1 .. Len(queue) : k > n + 1 /\ queue[k] = j
      BY <3>1
    <3>3. k - 1 \in 1 .. Len(queue') /\ k - 1 > n /\ queue'[k - 1] = j
      BY <2>1, <3>2
    <3> QED
      BY <3>3
  <2>3. WaitInv'
    <3> SUFFICES ASSUME ~stopping, NEW j \in JobIds, state[j] = "queued",
                        j \notin submitting
                 PROVE  \/ \E n \in 1 .. Len(queue') : queue'[n] = j
                        \/ \E v \in Workers : pc'[v] \in {"loaded", "execute"}
                                              /\ current'[v] = j
      BY <2>1
    <3>1. CASE \E n \in 1 .. Len(queue) : queue[n] = j
      <4>1. PICK n \in 1 .. Len(queue) : queue[n] = j
        BY <3>1
      <4>2. CASE n = 1
        BY <2>1, <4>1, <4>2
      <4>3. CASE n > 1
        <5>1. n - 1 \in 1 .. Len(queue') /\ queue'[n - 1] = j
          BY <2>1, <4>1, <4>3
        <5> QED
          BY <5>1
      <4> QED
        BY <4>1, <4>2, <4>3
    <3>2. CASE \E v \in Workers : pc[v] \in {"loaded", "execute"} /\ current[v] = j
      BY <2>1, <3>2
    <3> QED
      BY <3>1, <3>2
  <2>4. AheadInv' /\ BegunInv'
    BY <2>1
  <2> QED
    BY <2>2, <2>3, <2>4
<1>9. ASSUME NEW w \in Workers, Admit(w) PROVE OrderInv'
  <2>1. AheadInv' /\ LineInv' /\ WaitInv'
    BY <1>9 DEF Admit
  <2>2. ASSUME ~stopping, NEW i \in earlier[current[w]], current[w] \in JobIds
        PROVE  state[i] \in Started
    <3>1. /\ i \in JobIds /\ i # current[w] /\ i \notin submitting
          /\ state[i] # "new"
      BY <2>2
    <3>2. \A n \in 1 .. Len(queue) : queue[n] # i
      BY <1>9, <2>2, <3>1 DEF Admit, PlaceInv, HandInv, Holding
    <3>3. \A v \in Workers : pc[v] \in {"loaded", "execute"} => v = w
      BY <1>9 DEF Admit, SerialInv, Active
    <3>4. state[i] # "queued"
      BY <2>2, <3>1, <3>2, <3>3
    <3> QED
      BY <3>1, <3>4 DEF JobStates, Live
  <2>3. BegunInv'
    <3>1. current[w] \in JobIds
      BY <1>9 DEF Admit, PlaceInv, HandInv, Holding
    <3>2. /\ UNCHANGED <<state, earlier>>
          /\ \A j \in Begun' : j \in Begun \/ (~stopping /\ j = current[w])
      BY <1>9 DEF Admit
    <3> QED
      BY <2>2, <3>1, <3>2
  <2> QED
    BY <2>1, <2>3
<1>10. ASSUME NEW w \in Workers, MarkRunning(w) PROVE OrderInv'
  <2>1. /\ current[w] \in JobIds /\ state[current[w]] = "queued" /\ pc[w] = "execute"
        /\ state' = [state EXCEPT ![current[w]] = "running"]
        /\ pc' = [pc EXCEPT ![w] = "work"]
        /\ UNCHANGED <<submitted, submitting, earlier, queue, stopping, current>>
    BY <1>10 DEF MarkRunning, PlaceInv, HandInv, Holding, HeldState, Busy
  <2>2. AheadInv' /\ LineInv'
    BY <2>1
  <2>3. WaitInv'
    <3> SUFFICES ASSUME ~stopping, NEW j \in JobIds, state'[j] = "queued",
                        j \notin submitting, \A n \in 1 .. Len(queue) : queue[n] # j
                 PROVE  \E v \in Workers : pc'[v] \in {"loaded", "execute"}
                                           /\ current[v] = j
      BY <2>1
    <3>1. j # current[w] /\ state[j] = "queued"
      BY <2>1
    <3>2. PICK v \in Workers : pc[v] \in {"loaded", "execute"} /\ current[v] = j
      BY <3>1
    <3> QED
      BY <2>1, <3>1, <3>2
  <2>4. BegunInv'
    <3>1. \A j \in Begun' : j \in Begun
      BY <2>1
    <3>2. \A i \in JobIds : state[i] \in Started => state'[i] \in Started
      BY <2>1
    <3> QED
      BY <2>1, <3>1, <3>2
  <2> QED
    BY <2>2, <2>3, <2>4
<1>11. ASSUME NEW w \in Workers, NEW s \in Terminal, EndState(w, s) PROVE OrderInv'
  <2>1. /\ current[w] \in JobIds /\ state[current[w]] = "running" /\ pc[w] = "work"
        /\ state' = [state EXCEPT ![current[w]] = s]
        /\ pc' = [pc EXCEPT ![w] = "ending"]
        /\ UNCHANGED <<submitted, submitting, earlier, queue, stopping, current>>
    BY <1>11 DEF EndState, PlaceInv, HandInv, Holding, HeldState, Busy
  <2>2. AheadInv' /\ LineInv' /\ WaitInv'
    BY <2>1
  <2>3. BegunInv'
    <3>1. \A j \in Begun' : j \in Begun
      BY <2>1
    <3>2. \A i \in JobIds : state[i] \in Started => state'[i] \in Started
      BY <2>1
    <3> QED
      BY <2>1, <3>1, <3>2
  <2> QED
    BY <2>2, <2>3
<1>12. ASSUME NEW w \in Workers, EndOutcome(w) PROVE OrderInv'
  BY <1>0, <1>12 DEF EndOutcome
<1>13. ASSUME NEW w \in Workers, Prune(w) PROVE OrderInv'
  BY <1>0, <1>13 DEF Prune
<1>14. CASE UNCHANGED vars
  BY <1>14 DEF vars
<1> HIDE DEF OrderInv
<1> QED
  BY <1>1, <1>2, <1>3, <1>4, <1>5, <1>6, <1>7, <1>8, <1>9, <1>10, <1>11,
     <1>12, <1>13, <1>14 DEF Next, Main, Worker

(* Work is executed in the order it was submitted (test_jobs.py:109), for  *)
(* any number of submitters, workers and stop() calls.                     *)
THEOREM WorkKeepsItsOrder == Spec => []SubmissionOrder
<1>1. Init => OrderInv
  BY DEF Init, OrderInv, AheadInv, LineInv, WaitInv, BegunInv, Begun, Terminal
<1>2. TypeOK /\ OrderInv => SubmissionOrder
  BY DEF TypeOK, OrderInv, BegunInv, Begun, Started, SubmissionOrder
<1> QED
  BY <1>1, <1>2, OrderStep, TypeCorrect, SerialInvariant, PlaceInvariant, PTL
     DEF Spec
-----------------------------------------------------------------------------
(* A finite set of integers that is not empty has a least element: of the  *)
(* sets of what lies below each element, one is minimal for inclusion.     *)
LEMMA LeastOfFinite ==
    ASSUME NEW S \in SUBSET Int, IsFiniteSet(S), S # {}
    PROVE  \E m \in S : \A k \in S : m <= k
<1> DEFINE Below(m) == {k \in S : k < m}
           Belows == {Below(m) : m \in S}
<1>1. Belows \subseteq FiniteSubsetsOf(S) /\ Belows # {}
  <2>1. \A m \in S : Below(m) \subseteq S
    OBVIOUS
  <2> HIDE DEF Below
  <2>2. \A m \in S : IsFiniteSet(Below(m))
    BY <2>1, FS_Subset
  <2> QED
    BY <2>1, <2>2 DEF FiniteSubsetsOf
<1>2. IsWellFoundedOn(StrictSubsetOrdering(S), FiniteSubsetsOf(S))
  BY FS_StrictSubsetOrderingWellFounded
<1> HIDE DEF Belows
<1>3. PICK x \in Belows : \A y \in Belows : <<y, x>> \notin StrictSubsetOrdering(S)
  BY <1>1, <1>2, WFMin
<1>4. PICK m \in S : x = Below(m)
  BY DEF Belows
<1>5. ASSUME NEW k \in S, k < m PROVE FALSE
  <2>1. S \subseteq Int /\ k \in Int /\ m \in Int
    OBVIOUS
  <2>2. ASSUME NEW i \in Below(k) PROVE i \in Below(m)
    <3>1. i \in S /\ i < k /\ i \in Int
      BY <2>1
    <3> QED
      BY <1>5, <2>1, <3>1
  <2>3. k \in Below(m) /\ k \notin Below(k)
    BY <1>5, <2>1
  <2>4. Below(k) \in Belows
    BY DEF Belows
  <2>5. Below(k) \subseteq S /\ Below(m) \subseteq S
    OBVIOUS
  <2> HIDE DEF Below
  <2> QED
    BY <1>3, <1>4, <2>2, <2>3, <2>4, <2>5 DEF StrictSubsetOrdering
<1>6. \A k \in S : k \in Int
  OBVIOUS
<1> QED
  BY <1>5, <1>6

(* What finished[:-MAX_FINISHED_RETAINED] leaves: no more than the limit,  *)
(* and nothing that was registered before something it drops.              *)
LEMMA PruneKeepsTheNewest ==
    ASSUME TypeOK
    PROVE  /\ Cardinality(Finished \ Prunable) <= MaxFinishedRetained
           /\ \A f \in Prunable, r \in Finished \ Prunable : f < r
<1> DEFINE Later(j) == {k \in Finished : k > j}
           Kept == Finished \ Prunable
<1>1. Finished \subseteq 1 .. MaxJobs
  BY DEF Finished, TypeOK
<1>2. IsFiniteSet(1 .. MaxJobs)
  BY FS_Interval
<1>3. IsFiniteSet(Finished)
  BY <1>1, <1>2, FS_Subset
<1>4. ASSUME NEW S \in SUBSET Finished
      PROVE  IsFiniteSet(S) /\ Cardinality(S) \in Nat
  BY <1>3, FS_Subset, FS_CardinalityType
<1>5. \A j \in Finished : j \in Prunable <=> Cardinality(Later(j)) >= MaxFinishedRetained
  BY DEF Prunable
<1> HIDE DEF Later
<1>6. ASSUME NEW f \in Prunable, NEW r \in Kept PROVE f < r
  <2>1. f \in Finished /\ r \in Finished /\ f # r
    BY DEF Prunable
  <2>2. CASE r < f
    <3>1. Later(f) \subseteq Later(r) /\ Later(r) \subseteq Finished
      <4>1. \A k \in Finished : k \in Int
        BY <1>1
      <4>2. ASSUME NEW k \in Later(f) PROVE k \in Later(r)
        <5>1. k \in Finished /\ k > f /\ k \in Int
          BY <4>1 DEF Later
        <5> QED
          BY <2>1, <2>2, <4>1, <5>1 DEF Later
      <4> QED
        BY <4>2 DEF Later
    <3>2. Cardinality(Later(f)) <= Cardinality(Later(r))
      BY <3>1, <1>4, FS_Subset
    <3>3. Cardinality(Later(f)) \in Nat /\ Cardinality(Later(r)) \in Nat
      BY <3>1, <1>4
    <3>4. /\ Cardinality(Later(f)) >= MaxFinishedRetained
          /\ ~(Cardinality(Later(r)) >= MaxFinishedRetained)
      BY <1>5, <2>1
    <3> QED
      BY <3>2, <3>3, <3>4
  <2> QED
    BY <1>1, <2>1, <2>2
<1>7. Cardinality(Kept) <= MaxFinishedRetained
  <2>1. CASE Kept = {}
    BY <2>1, FS_EmptySet
  <2>2. CASE Kept # {}
    <3>1. /\ Kept \in SUBSET Int /\ IsFiniteSet(Kept)
          /\ \A k \in Kept : k \in Finished /\ k \in Int
      <4>1. Kept \subseteq Finished
        OBVIOUS
      <4> HIDE DEF Kept
      <4> QED
        BY <1>1, <1>4, <4>1
    <3>2. PICK r \in Kept : \A k \in Kept : r <= k
      <4> HIDE DEF Kept
      <4> QED
        BY <2>2, <3>1, LeastOfFinite
    <3>3. Kept \subseteq Later(r) \cup {r}
      <4>1. ASSUME NEW k \in Kept, k # r PROVE k \in Later(r)
        <5>1. k \in Finished /\ k > r
          BY <3>1, <3>2, <4>1
        <5> QED
          BY <5>1 DEF Later
      <4> QED
        BY <4>1
    <3>4. Later(r) \subseteq Finished /\ r \notin Later(r)
      BY <1>1 DEF Later
    <3>5. IsFiniteSet(Later(r)) /\ Cardinality(Later(r)) \in Nat
      BY <3>4, <1>4
    <3>6. /\ IsFiniteSet(Later(r) \cup {r})
          /\ Cardinality(Later(r) \cup {r}) = Cardinality(Later(r)) + 1
      BY <3>4, <3>5, FS_AddElement
    <3>7. Cardinality(Kept) <= Cardinality(Later(r)) + 1
      BY <3>3, <3>6, FS_Subset
    <3>8. ~(Cardinality(Later(r)) >= MaxFinishedRetained)
      BY <1>5
    <3>9. Cardinality(Kept) \in Nat
      BY <1>4
    <3> QED
      BY <3>5, <3>7, <3>8, <3>9
  <2> QED
    BY <2>1, <2>2
<1> QED
  BY <1>6, <1>7

(* What is being settled has not been forgotten.                           *)
KnownInv == \A w \in Workers : pc[w] \in {"ending", "prune"} =>
    current[w] \in registry

LEMMA KnownStep ==
    TypeOK /\ SerialInv /\ PlaceInv /\ KnownInv /\ [Next]_vars => KnownInv'
<1> SUFFICES ASSUME TypeOK, SerialInv, PlaceInv, KnownInv, [Next]_vars
             PROVE  KnownInv'
  OBVIOUS
<1> USE DEF TypeOK, KnownInv, runnerVars, workerVars, jobVars
<1>1. CASE Main
  BY <1>1 DEF Main, Start, StopSet, StopWake, StopJoin
<1>2. CASE SubmitRegister
  BY <1>2 DEF SubmitRegister
<1>3. CASE \E j \in JobIds : SubmitPut(j)
  BY <1>3 DEF SubmitPut
<1>4. ASSUME NEW w \in Workers, CheckStopping(w) \/ Get(w) \/ Admit(w)
             \/ MarkRunning(w) \/ EndOutcome(w)
      PROVE  KnownInv'
  BY <1>4 DEF CheckStopping, Get, Admit, MarkRunning, EndOutcome
<1>5. ASSUME NEW w \in Workers, NEW s \in Terminal, EndState(w, s) PROVE KnownInv'
  <2>1. current[w] \in registry
    BY <1>5 DEF EndState, PlaceInv, HandInv, RegistryInv, Holding, HeldState, Busy, Live
  <2> QED
    BY <1>5, <2>1 DEF EndState
<1>6. ASSUME NEW w \in Workers, Prune(w) PROVE KnownInv'
  <2>1. \A v \in Workers : pc[v] \in {"ending", "prune"} => v = w
    BY <1>6 DEF Prune, SerialInv, Active
  <2> QED
    BY <1>6, <2>1 DEF Prune
<1>7. CASE UNCHANGED vars
  BY <1>7 DEF vars
<1> QED
  BY <1>1, <1>2, <1>3, <1>4, <1>5, <1>6, <1>7 DEF Next, Worker

(* The worker that is past its admission check, if there is one, is the    *)
(* one whose job is in hand.                                               *)
LEMMA InHandOf ==
    ASSUME SerialInv
    PROVE  /\ \A w \in Workers : pc[w] \in Busy => InHand = current[w]
           /\ (\A w \in Workers : pc[w] \notin Busy) => InHand = NoJob
<1>1. \A v, w \in Workers : pc[v] \in Busy /\ pc[w] \in Busy => v = w
  BY DEF SerialInv, Active, Busy
<1>2. ASSUME NEW w \in Workers, pc[w] \in Busy PROVE InHand = current[w]
  <2>1. (CHOOSE v \in Workers : pc[v] \in Busy) = w
    BY <1>1, <1>2
  <2> QED
    BY <1>2, <2>1 DEF InHand
<1>3. (\A w \in Workers : pc[w] \notin Busy) => InHand = NoJob
  BY DEF InHand
<1> QED
  BY <1>2, <1>3

(* An action that leaves the busy workers and their jobs alone leaves the  *)
(* job in hand alone.                                                      *)
LEMMA InHandStays ==
    ASSUME SerialInv, SerialInv',
           \A w \in Workers : pc[w] \in Busy <=> pc'[w] \in Busy,
           \A w \in Workers : pc[w] \in Busy => current'[w] = current[w]
    PROVE  InHand' = InHand
<1>1. CASE \E w \in Workers : pc[w] \in Busy
  <2>1. PICK w \in Workers : pc[w] \in Busy
    BY <1>1
  <2>2. InHand = current[w]
    BY <2>1, InHandOf
  <2>3. (\A v, u \in Workers : pc'[v] \in Busy /\ pc'[u] \in Busy => v = u)
    BY DEF SerialInv, Active, Busy
  <2>4. (CHOOSE v \in Workers : pc'[v] \in Busy) = w
    BY <2>1, <2>3
  <2>5. InHand' = current'[w]
    BY <2>1, <2>4 DEF InHand
  <2> QED
    BY <2>1, <2>2, <2>5
<1>2. CASE \A w \in Workers : pc[w] \notin Busy
  BY <1>2 DEF InHand
<1> QED
  BY <1>1, <1>2

LEMMA LedgerStep ==
    ASSUME TypeOK, SerialInv, SerialInv', PlaceInv, KnownInv, [Next]_vars
    PROVE  [Ledger!LedgerNext]_(Ledger!ledgerVars)
<1> DEFINE Goal == [Ledger!LedgerNext]_(Ledger!ledgerVars)
<1> USE DEF runnerVars, workerVars, jobVars
<1>0. ASSUME UNCHANGED <<registry, submitted, state, stopping>>, InHand' = InHand
      PROVE  Goal
  BY <1>0 DEF Ledger!ledgerVars
<1>1. ASSUME NEW w \in Workers, Start(w) PROVE Goal
  BY <1>0, <1>1, InHandStays DEF Start, Busy, TypeOK
<1>2. CASE StopSet
  <2>1. InHand' = InHand
    BY <1>2, InHandStays DEF StopSet
  <2> QED
    BY <1>2, <2>1 DEF StopSet, Ledger!LedgerNext, Ledger!Close
<1>3. CASE StopWake \/ \E timedOut \in BOOLEAN : StopJoin(timedOut)
  BY <1>0, <1>3, InHandStays DEF StopWake, StopJoin
<1>4. CASE SubmitRegister
  <2>1. InHand' = InHand
    BY <1>4, InHandStays DEF SubmitRegister
  <2> QED
    BY <1>4, <2>1 DEF SubmitRegister, Ledger!LedgerNext, Ledger!Submit
<1>5. CASE \E j \in JobIds : SubmitPut(j)
  BY <1>0, <1>5, InHandStays DEF SubmitPut
<1>6. ASSUME NEW w \in Workers, CheckStopping(w) \/ Get(w) PROVE Goal
  BY <1>0, <1>6, InHandStays DEF CheckStopping, Get, Busy, TypeOK
<1>7. ASSUME NEW w \in Workers, Admit(w) PROVE Goal
  <2>1. CASE stopping
    BY <1>0, <1>7, <2>1, InHandStays DEF Admit, Busy, TypeOK
  <2>2. CASE ~stopping
    <3>1. InHand = NoJob
      BY <1>7, InHandOf DEF Admit, SerialInv, Active, Busy
    <3>2. \A v \in Workers : pc'[v] \in Busy => v = w
      BY <1>7 DEF Admit, SerialInv, Active, Busy
    <3>3. pc'[w] \in Busy /\ current'[w] = current[w]
      BY <1>7, <2>2 DEF Admit, Busy, TypeOK
    <3>4. (CHOOSE v \in Workers : pc'[v] \in Busy) = w
      BY <3>2, <3>3
    <3>5. InHand' = current[w]
      BY <3>3, <3>4 DEF InHand
    <3>6. current[w] \in registry /\ state[current[w]] = "queued"
      BY <1>7 DEF Admit, PlaceInv, HandInv, RegistryInv, Holding, HeldState, Live
    <3> QED
      BY <1>7, <2>2, <3>1, <3>5, <3>6
         DEF Admit, Ledger!LedgerNext, Ledger!TakeInHand
  <2> QED
    BY <2>1, <2>2
<1>8. ASSUME NEW w \in Workers, MarkRunning(w) PROVE Goal
  <2>1. InHand = current[w] /\ InHand' = InHand
    BY <1>8, InHandOf, InHandStays DEF MarkRunning, Busy, TypeOK
  <2>2. current[w] \in registry /\ state[current[w]] = "queued"
    BY <1>8 DEF MarkRunning, PlaceInv, HandInv, RegistryInv, Holding, HeldState, Live, Busy
  <2> QED
    BY <1>8, <2>1, <2>2 DEF MarkRunning, Ledger!LedgerNext, Ledger!Begin
<1>9. ASSUME NEW w \in Workers, NEW s \in Terminal, EndState(w, s) PROVE Goal
  <2>1. InHand = current[w] /\ InHand' = InHand
    BY <1>9, InHandOf, InHandStays DEF EndState, Busy, TypeOK
  <2>2. current[w] \in registry /\ state[current[w]] = "running"
    BY <1>9 DEF EndState, PlaceInv, HandInv, RegistryInv, Holding, HeldState, Live, Busy
  <2> QED
    BY <1>9, <2>1, <2>2 DEF EndState, Terminal, Ledger!LedgerNext, Ledger!End
<1>10. ASSUME NEW w \in Workers, EndOutcome(w) PROVE Goal
  BY <1>0, <1>10, InHandStays DEF EndOutcome, Busy, TypeOK
<1>11. ASSUME NEW w \in Workers, Prune(w) PROVE Goal
  <2>1. InHand = current[w]
    BY <1>11, InHandOf DEF Prune, Busy
  <2>2. InHand' = NoJob
    <3>1. \A v \in Workers : pc'[v] \notin Busy
      BY <1>11 DEF Prune, SerialInv, Active, Busy, TypeOK
    <3> QED
      BY <3>1 DEF InHand
  <2>3. current[w] \in registry /\ state[current[w]] \in Terminal
    BY <1>11 DEF Prune, KnownInv, PlaceInv, HandInv, Holding, HeldState, Busy
  <2>4. /\ registry' = registry \ Prunable
        /\ Prunable \subseteq Finished /\ Finished \subseteq registry
        /\ Finished = {j \in registry : state[j] \in {"succeeded", "failed"}}
    BY <1>11 DEF Prune, Prunable, Finished, Terminal
  <2>5. /\ Finished \cap registry' = Finished \ Prunable
        /\ Finished \ registry' = Prunable
        /\ registry' \subseteq registry
        /\ registry \ registry' \subseteq Finished
    BY <2>4
  <2>6. /\ Cardinality(Finished \cap registry') <= MaxFinishedRetained
        /\ \A f \in Finished \ registry', r \in Finished \cap registry' : f < r
    BY <2>5, PruneKeepsTheNewest
  <2>7. Ledger!Settle
    <3> DEFINE over == {j \in registry : state[j] \in {"succeeded", "failed"}}
    <3>1. /\ registry' \subseteq registry
          /\ registry \ registry' \subseteq over
          /\ Cardinality(over \cap registry') <= MaxFinishedRetained
          /\ \A f \in over \ registry', r \in over \cap registry' : f < r
      BY <2>4, <2>5, <2>6
    <3>2. /\ InHand \in registry
          /\ state[InHand] \in {"succeeded", "failed"}
          /\ InHand' = 0
          /\ UNCHANGED <<submitted, state, stopping>>
      BY <1>11, <2>1, <2>2, <2>3 DEF Prune, Terminal, NoJob
    <3>3. Ledger!Cardinality(over \cap registry') = Cardinality(over \cap registry')
      BY Zenon DEF Ledger!Cardinality, Cardinality
    <3> QED
      BY <3>1, <3>2, <3>3, Zenon DEF Ledger!Settle
  <2> QED
    BY <2>7 DEF Ledger!LedgerNext
<1>12. CASE UNCHANGED vars
  BY <1>0, <1>12, InHandStays DEF vars
<1> QED
  BY <1>1, <1>2, <1>3, <1>4, <1>5, <1>6, <1>7, <1>8, <1>9, <1>10, <1>11, <1>12
     DEF Next, Main, Worker

(* The threads, the lock and the queue together are JobLedger, for any     *)
(* number of jobs, workers and retained jobs: every step of theirs is one  *)
(* of the ledger's or leaves it as it is.                                  *)
THEOREM RunnerImplementsLedger == Spec => ImplementsLedger
<1>1. Init => Ledger!LedgerInit
  BY DEF Init, Ledger!LedgerInit, InHand, Busy
<1>2. Init => KnownInv
  BY DEF Init, KnownInv
<1>3. Spec => [](TypeOK /\ SerialInv /\ PlaceInv)
  BY TypeCorrect, SerialInvariant, PlaceInvariant, PTL
<1>4. Spec => []KnownInv
  BY <1>2, <1>3, KnownStep, PTL DEF Spec
<1> QED
  BY <1>1, <1>3, <1>4, LedgerStep, PTL
     DEF Spec, ImplementsLedger, Ledger!LedgerSpec
=============================================================================
