----------------------- MODULE LlamaSupervisor_proofs -----------------------
(***************************************************************************)
(* Proofs about LlamaSupervisor for any set of Popen objects, any length   *)
(* of the backoff schedule and any number of stop() calls.                 *)
(***************************************************************************)
EXTENDS LlamaSupervisor, FiniteSetTheorems, TLAPS

USE SupervisorAssumption, NoProcAssumption
    DEF SupervisorAssumption, NoProcAssumption, Callers

LEMMA TypeStep == TypeOK /\ [Next]_vars => TypeOK'
<1> SUFFICES ASSUME TypeOK, [Next]_vars PROVE TypeOK'
  OBVIOUS
<1> USE DEF TypeOK, ChildStates, LoopPcs, TermPcs, Goto, infoVars, loopVars,
            termVars, mainVars
<1>1. CASE LoopStart
  BY <1>1 DEF LoopStart
<1>2. CASE LoopTest
  BY <1>2 DEF LoopTest
<1>3. ASSUME NEW p \in Procs, Popen(p) PROVE TypeOK'
  BY <1>3 DEF Popen
<1>4. CASE RecordSpawn
  BY <1>4 DEF RecordSpawn
<1>5. CASE SpawnFails
  BY <1>5 DEF SpawnFails, OneMoreFailure
<1>6. CASE BackoffWait
  BY <1>6 DEF BackoffWait, NextDelay
<1>7. CASE StartupTest
  BY <1>7 DEF StartupTest
<1>8. CASE StartupPoll
  BY <1>8 DEF StartupPoll
<1>9. CASE StartupProbe
  BY <1>9 DEF StartupProbe
<1>10. CASE StartupMark
  BY <1>10 DEF StartupMark
<1>11. CASE WaitEnter
  BY <1>11 DEF WaitEnter
<1>12. CASE WaitCall
  BY <1>12 DEF WaitCall
<1>13. CASE WaitReturns
  BY <1>13 DEF WaitReturns
<1>14. CASE WaitTimesOut
  BY <1>14 DEF WaitTimesOut
<1>15. CASE Reaped
  BY <1>15 DEF Reaped
<1>16. CASE StopTest
  BY <1>16 DEF StopTest
<1>17. CASE HealthProbe
  BY <1>17 DEF HealthProbe, SomeoneServes, Alive
<1>18. CASE HealthMark
  BY <1>18 DEF HealthMark
<1>19. ASSUME NEW stable \in BOOLEAN, AfterExit(stable) PROVE TypeOK'
  <2>1. backoff' \in 0 .. LastDelay /\ failures' \in 0 .. LastDelay + 1
    BY <1>19 DEF AfterExit, OneMoreFailure
  <2> QED
    BY <1>19, <2>1 DEF AfterExit
<1>20. ASSUME NEW c \in Callers, TermEnter(c) PROVE TypeOK'
  BY <1>20 DEF TermEnter
<1>21. ASSUME NEW c \in Callers, TermNothing(c) PROVE TypeOK'
  BY <1>21 DEF TermNothing, Return
<1>22. ASSUME NEW c \in Callers, TermAwait(c) PROVE TypeOK'
  BY <1>22 DEF TermAwait
<1>23. ASSUME NEW c \in Callers, TermAwaited(c) PROVE TypeOK'
  BY <1>23 DEF TermAwaited, Return
<1>24. ASSUME NEW c \in Callers, TermSignal(c) PROVE TypeOK'
  <2>1. child' \in [Procs -> ChildStates]
    BY <1>24 DEF TermSignal
  <2>2. tpc' \in [Callers -> TermPcs]
    BY <1>24 DEF TermSignal
  <2> QED
    BY <1>24, <2>1, <2>2 DEF TermSignal
<1>25. ASSUME NEW c \in Callers, TermKill(c) PROVE TypeOK'
  <2>1. child' \in [Procs -> ChildStates]
    BY <1>25 DEF TermKill
  <2>2. tpc' \in [Callers -> TermPcs]
    BY <1>25 DEF TermKill
  <2> QED
    BY <1>25, <2>1, <2>2 DEF TermKill
<1>26. ASSUME NEW c \in Callers, TermRaises(c) PROVE TypeOK'
  BY <1>26 DEF TermRaises
<1>27. ASSUME NEW c \in Callers, TermClear(c) PROVE TypeOK'
  BY <1>27 DEF TermClear, Return
<1>28. CASE StopBegin
  BY <1>28 DEF StopBegin
<1>29. CASE StopJoin
  BY <1>29 DEF StopJoin
<1>30. ASSUME NEW p \in Procs, ChildExits(p) PROVE TypeOK'
  BY <1>30 DEF ChildExits
<1>31. CASE UNCHANGED vars
  BY <1>31 DEF vars
<1> QED
  BY <1>1, <1>2, <1>3, <1>4, <1>5, <1>6, <1>7, <1>8, <1>9, <1>10,
     <1>11, <1>12, <1>13, <1>14, <1>15, <1>16, <1>17, <1>18, <1>19,
     <1>20, <1>21, <1>22, <1>23, <1>24, <1>25, <1>26, <1>27, <1>28,
     <1>29, <1>30, <1>31 DEF Next, Loop, Spawn, Terminate

(* Every variable has its type in every reachable state.                   *)
THEOREM TypeCorrect == Spec => []TypeOK
<1>1. Init => TypeOK
  <2> SUFFICES ASSUME Init PROVE TypeOK
    OBVIOUS
  <2>1. child \in [Procs -> ChildStates]
    BY DEF Init, ChildStates
  <2>2. /\ tpc \in [Callers -> TermPcs]
        /\ target \in [Callers -> Procs \cup {NoProc}]
        /\ already \in [Callers -> BOOLEAN]
    BY DEF Init, TermPcs
  <2>3. /\ backoff \in 0 .. LastDelay
        /\ failures \in 0 .. LastDelay + 1
        /\ stops \in 0 .. MaxStops
    BY DEF Init
  <2> QED
    BY <2>1, <2>2, <2>3 DEF Init, TypeOK, LoopPcs
<1> QED
  BY <1>1, TypeStep, PTL DEF Spec

-----------------------------------------------------------------------------
(* What _proc says about the child.  A live child is the one _proc names,  *)
(* or the one the loop has just created and is about to record; _proc is   *)
(* None while the loop is between two children; and it is taken away from  *)
(* the loop only by a termination, which only a stop request starts.       *)
Between == {"idle", "test", "spawn", "record", "failed", "backoff"}
UsesProc == {"startup", "startupPoll", "startupProbe", "startupMark", "enter",
             "wait", "stopTest", "health", "mark"}

ProcInv ==
    /\ \A p \in Procs : Alive(p) => proc = p \/ (pc = "record" /\ waitOn = p)
    /\ pc \in Between => proc = NoProc
    /\ pc = "waiting" => waitOn \in Procs /\ proc \in {waitOn, NoProc}
    /\ pc = "record" => waitOn \in Procs
    /\ pc = "reaped" => \A p \in Procs : ~Alive(p)
    /\ pc = "after" /\ ~stopEvent => proc = NoProc
    /\ pc \in UsesProc /\ ~stopEvent => proc # NoProc
    /\ pc \in {"terminate", "exited", "dead"} => stopEvent
    /\ pc = "waiting" /\ ~stopEvent => proc = waitOn

TermInv ==
    /\ \A c \in Callers : tpc[c] # "off" => stopEvent
    /\ tpc["loop"] # "off" <=> pc = "terminate"
    /\ tpc["stop"] # "off" <=> stopPc = "terminate"
    /\ \A c \in Callers : target[c] # NoProc =>
            /\ pc \notin Between
            /\ proc \in {target[c], NoProc}
            /\ tpc[c] # "off"
    /\ \A c \in Callers : tpc[c] \in {"await", "term", "kill"} => target[c] # NoProc

SuperInv == ProcInv /\ TermInv

LEMMA SuperStep == TypeOK /\ SuperInv /\ [Next]_vars => SuperInv'
<1> SUFFICES ASSUME TypeOK, SuperInv, [Next]_vars PROVE SuperInv'
  OBVIOUS
<1> USE DEF TypeOK, SuperInv, ProcInv, TermInv, Between, UsesProc, Alive, Goto,
            infoVars, loopVars, termVars, mainVars
<1>1. CASE LoopStart
  BY <1>1 DEF LoopStart
<1>2. CASE LoopTest
  BY <1>2 DEF LoopTest
<1>3. ASSUME NEW p \in Procs, Popen(p) PROVE SuperInv'
  BY <1>3 DEF Popen
<1>4. CASE RecordSpawn
  BY <1>4 DEF RecordSpawn
<1>5. CASE SpawnFails
  BY <1>5 DEF SpawnFails
<1>6. CASE BackoffWait
  BY <1>6 DEF BackoffWait
<1>7. CASE StartupTest
  BY <1>7 DEF StartupTest
<1>8. CASE StartupPoll
  BY <1>8 DEF StartupPoll
<1>9. CASE StartupProbe
  BY <1>9 DEF StartupProbe
<1>10. CASE StartupMark
  BY <1>10 DEF StartupMark
<1>11. CASE WaitEnter
  BY <1>11 DEF WaitEnter
<1>12. CASE WaitCall
  BY <1>12 DEF WaitCall
<1>13. CASE WaitReturns
  BY <1>13 DEF WaitReturns
<1>14. CASE WaitTimesOut
  BY <1>14 DEF WaitTimesOut
<1>15. CASE Reaped
  BY <1>15 DEF Reaped
<1>16. CASE StopTest
  BY <1>16 DEF StopTest
<1>17. CASE HealthProbe
  BY <1>17 DEF HealthProbe
<1>18. CASE HealthMark
  BY <1>18 DEF HealthMark
<1>19. ASSUME NEW stable \in BOOLEAN, AfterExit(stable) PROVE SuperInv'
  BY <1>19 DEF AfterExit
<1>20. ASSUME NEW c \in Callers, TermEnter(c) PROVE SuperInv'
  BY <1>20 DEF TermEnter
<1>21. ASSUME NEW c \in Callers, TermNothing(c) PROVE SuperInv'
  BY <1>21 DEF TermNothing, Return, Gone
<1>22. ASSUME NEW c \in Callers, TermAwait(c) PROVE SuperInv'
  BY <1>22 DEF TermAwait, Gone
<1>23. ASSUME NEW c \in Callers, TermAwaited(c) PROVE SuperInv'
  BY <1>23 DEF TermAwaited, Return, Gone
<1>24. ASSUME NEW c \in Callers, TermSignal(c) PROVE SuperInv'
  BY <1>24 DEF TermSignal, Gone
<1>25. ASSUME NEW c \in Callers, TermKill(c) PROVE SuperInv'
  BY <1>25 DEF TermKill, Gone
<1>26. ASSUME NEW c \in Callers, TermRaises(c) PROVE SuperInv'
  BY <1>26 DEF TermRaises, Gone
<1>27. ASSUME NEW c \in Callers, TermClear(c) PROVE SuperInv'
  BY <1>27 DEF TermClear, Return, Gone
<1>28. CASE StopBegin
  BY <1>28 DEF StopBegin
<1>29. CASE StopJoin
  BY <1>29 DEF StopJoin
<1>30. ASSUME NEW p \in Procs, ChildExits(p) PROVE SuperInv'
  BY <1>30 DEF ChildExits
<1>31. CASE UNCHANGED vars
  BY <1>31 DEF vars
<1> QED
  BY <1>1, <1>2, <1>3, <1>4, <1>5, <1>6, <1>7, <1>8, <1>9, <1>10,
     <1>11, <1>12, <1>13, <1>14, <1>15, <1>16, <1>17, <1>18, <1>19,
     <1>20, <1>21, <1>22, <1>23, <1>24, <1>25, <1>26, <1>27, <1>28,
     <1>29, <1>30, <1>31 DEF Next, Loop, Spawn, Terminate

LEMMA SuperInvariant == Spec => []SuperInv
<1>1. Init => SuperInv
  BY DEF Init, SuperInv, ProcInv, TermInv, Between, UsesProc, Alive
<1> QED
  BY <1>1, SuperStep, TypeCorrect, PTL DEF Spec

(* Never two llama-servers at once, whatever races with the spawn.         *)
THEOREM AtMostOneChild == Spec => []OneChild
<1>1. SuperInv => OneChild
  BY DEF SuperInv, ProcInv, OneChild, Between
<1> QED
  BY <1>1, SuperInvariant, PTL

(* The loop thread ends, by its own test or by an AttributeError on _proc, *)
(* only after a stop request.                                              *)
THEOREM SupervisionEndsOnRequest == Spec => []SupervisionLasts
<1>1. SuperInv => SupervisionLasts
  BY DEF SuperInv, ProcInv, SupervisionLasts, Over
<1> QED
  BY <1>1, SuperInvariant, PTL
-----------------------------------------------------------------------------
(* The schedule: while no delay is due, the next one is the one after the  *)
(* failures so far, or the last.                                           *)
ScheduleInv ==
    pc \notin {"exited", "dead"} =>
        backoff = IF pc \in {"failed", "backoff"} THEN failures - 1
                  ELSE IF failures <= LastDelay THEN failures ELSE LastDelay

LEMMA ScheduleStep ==
    TypeOK /\ SuperInv /\ ScheduleInv /\ [Next]_vars => ScheduleInv'
<1> SUFFICES ASSUME TypeOK, SuperInv, ScheduleInv, [Next]_vars
             PROVE  ScheduleInv'
  OBVIOUS
<1> USE DEF TypeOK, ScheduleInv, Goto, infoVars, loopVars, termVars, mainVars
<1>1. CASE LoopStart \/ LoopTest \/ (\E p \in Procs : Popen(p)) \/ RecordSpawn
  BY <1>1 DEF LoopStart, LoopTest, Popen, RecordSpawn
<1>2. CASE SpawnFails
  BY <1>2 DEF SpawnFails, OneMoreFailure
<1>3. CASE BackoffWait
  BY <1>3 DEF BackoffWait, NextDelay
<1>4. CASE StartupTest \/ StartupPoll \/ StartupProbe \/ StartupMark
  BY <1>4 DEF StartupTest, StartupPoll, StartupProbe, StartupMark
<1>5. CASE WaitEnter \/ WaitCall \/ WaitReturns \/ WaitTimesOut \/ Reaped
  BY <1>5 DEF WaitEnter, WaitCall, WaitReturns, WaitTimesOut, Reaped
<1>6. CASE StopTest \/ HealthProbe \/ HealthMark
  BY <1>6 DEF StopTest, HealthProbe, HealthMark
<1>7. ASSUME NEW stable \in BOOLEAN, AfterExit(stable) PROVE ScheduleInv'
  BY <1>7 DEF AfterExit, OneMoreFailure
<1>8. ASSUME NEW c \in Callers,
             TermEnter(c) \/ TermAwait(c) \/ TermSignal(c) \/ TermKill(c)
      PROVE  ScheduleInv'
  BY <1>8 DEF TermEnter, TermAwait, TermSignal, TermKill
<1>9. ASSUME NEW c \in Callers,
             TermNothing(c) \/ TermAwaited(c) \/ TermRaises(c) \/ TermClear(c)
      PROVE  ScheduleInv'
  <2>1. c = "loop" => pc = "terminate"
    BY <1>9 DEF SuperInv, TermInv, TermNothing, TermAwaited, TermRaises, TermClear
  <2>2. UNCHANGED <<backoff, failures>>
    BY <1>9 DEF TermNothing, TermAwaited, TermRaises, TermClear
  <2>3. pc' = pc \/ (c = "loop" /\ pc' \in {"after", "dead"})
    BY <1>9 DEF TermNothing, TermAwaited, TermRaises, TermClear, Return
  <2> QED
    BY <2>1, <2>2, <2>3
<1>10. CASE StopBegin \/ StopJoin \/ \E p \in Procs : ChildExits(p)
  BY <1>10 DEF StopBegin, StopJoin, ChildExits
<1>11. CASE UNCHANGED vars
  BY <1>11 DEF vars
<1> QED
  BY <1>1, <1>2, <1>3, <1>4, <1>5, <1>6, <1>7, <1>8, <1>9, <1>10, <1>11
     DEF Next, Loop, Spawn, Terminate

(* The n-th failure in a row waits for the n-th entry of the schedule, or  *)
(* for the last, for a schedule of any length.                             *)
THEOREM DelaysFollowTheSchedule == Spec => []BackoffFollowsSchedule
<1>1. Init => ScheduleInv
  BY DEF Init, ScheduleInv
<1>2. ScheduleInv => BackoffFollowsSchedule
  BY DEF ScheduleInv, BackoffFollowsSchedule
<1> QED
  BY <1>1, <1>2, ScheduleStep, TypeCorrect, SuperInvariant, PTL DEF Spec

-----------------------------------------------------------------------------
(* Who is responsible for the child.  A termination that found no child is *)
(* one of stop(), against a loop that has just recorded a spawn; one that  *)
(* found a live child has set _terminating, which is cleared only when     *)
(* that child is gone; so _terminating means that somebody will signal the *)
(* child, or has sent SIGKILL; and the loop ends with a live child only    *)
(* while that is so.                                                       *)
Starting == {"startup", "startupPoll", "startupProbe", "startupMark", "enter",
             "wait", "waiting", "reaped"}
Serving(p) == child[p] \in {"up", "termed"}

Missed ==
    /\ tpc["stop"] = "decide" /\ target["stop"] = NoProc =>
        /\ proc = NoProc \/ pc \in Starting
        /\ \A p \in Procs : child[p] # "killed"
    /\ tpc["loop"] = "decide" /\ target["loop"] = NoProc => proc = NoProc

Flagged ==
    /\ terminating => stopEvent
    /\ terminating /\ pc \in Between => tpc["stop"] = "decide" /\ ~already["stop"]
    /\ \A c \in Callers, p \in Procs :
        tpc[c] \notin {"off", "enter"} /\ target[c] = p /\ Alive(p) => terminating

Single ==
    \A c, d \in Callers, p \in Procs :
        /\ tpc[c] \in {"decide", "term", "kill"} /\ ~already[c]
        /\ target[c] = p /\ Alive(p)
        /\ tpc[d] = "decide" /\ d # c
        => already[d]

Killed ==
    /\ \A c \in Callers : tpc[c] \in {"term", "kill"} => ~already[c]
    /\ \A p \in Procs : child[p] = "killed" =>
        /\ proc = p
        /\ terminating
        /\ \A c \in Callers : tpc[c] = "decide" => already[c]

Responsible ==
    \A p \in Procs : Serving(p) /\ terminating =>
        \E c \in Callers : ~already[c] /\ tpc[c] \in {"decide", "term"}

LoopLeft ==
    \A p \in Procs : Serving(p) /\ pc \in {"after", "exited", "dead"} => terminating

OrphanInv == Missed /\ Flagged /\ Single /\ Killed /\ Responsible /\ LoopLeft

(* A step of the loop that changes neither the child nor anything of a     *)
(* termination matters only by where it leads.                             *)
LEMMA QuietStep ==
    ASSUME TypeOK, OrphanInv,
           UNCHANGED <<child, proc, stopEvent, terminating, tpc, target, already>>,
           pc \in Starting => \/ pc' \in Starting \/ proc = NoProc
                              \/ tpc["stop"] # "decide",
           pc' \in Between => pc \in Between \/ ~terminating,
           pc' \in {"after", "exited", "dead"} =>
               \/ pc \in {"after", "exited", "dead"}
               \/ \A p \in Procs : ~Serving(p)
    PROVE  OrphanInv'
<1> USE DEF OrphanInv, Serving, Alive
<1>1. Missed'
  BY DEF Missed
<1>2. Flagged'
  BY DEF Flagged
<1>3. Single' /\ Killed' /\ Responsible'
  BY DEF Single, Killed, Responsible
<1>4. LoopLeft'
  BY DEF LoopLeft
<1> QED
  BY <1>1, <1>2, <1>3, <1>4

LEMMA OrphanLoopStep ==
    ASSUME TypeOK, SuperInv, OrphanInv, LoopStart \/ Loop
    PROVE  OrphanInv'
<1> USE DEF Goto, infoVars, loopVars, termVars, mainVars
<1>1. CASE LoopStart
  BY <1>1, QuietStep DEF LoopStart, Between, Starting
<1>2. CASE LoopTest
  <2>1. \A p \in Procs : ~Serving(p)
    BY <1>2 DEF LoopTest, SuperInv, ProcInv, Between, Serving, Alive
  <2> QED
    BY <1>2, <2>1, QuietStep DEF LoopTest, Between, Starting
<1>3. ASSUME NEW p \in Procs, Popen(p) PROVE OrphanInv'
  <2>1. /\ pc = "spawn" /\ pc' = "record" /\ child' = [child EXCEPT ![p] = "up"]
        /\ UNCHANGED <<proc, stopEvent, terminating, tpc, target, already>>
    BY <1>3 DEF Popen
  <2>2. proc = NoProc /\ \A q \in Procs : ~Alive(q)
    BY <2>1 DEF SuperInv, ProcInv, Between
  <2>3. \A c \in Callers : target[c] = NoProc
    BY <2>1 DEF SuperInv, TermInv, Between
  <2>4. p # NoProc
    OBVIOUS
  <2> USE DEF OrphanInv
  <2>5. Missed'
    BY <2>1, <2>2 DEF Missed, TypeOK
  <2>6. Flagged'
    BY <2>1, <2>3, <2>4 DEF Flagged, Between
  <2>7. Single'
    BY <2>1, <2>3, <2>4 DEF Single
  <2>8. Killed'
    BY <2>1, <2>2 DEF Killed, TypeOK, Alive
  <2>9. Responsible'
    BY <2>1 DEF Responsible, Flagged, Between
  <2>10. LoopLeft'
    BY <2>1 DEF LoopLeft
  <2> QED
    BY <2>5, <2>6, <2>7, <2>8, <2>9, <2>10
<1>4. CASE RecordSpawn
  <2>1. /\ pc = "record" /\ pc' = "startup"
        /\ UNCHANGED <<child, stopEvent, terminating, tpc, target, already>>
    BY <1>4 DEF RecordSpawn
  <2>2. proc = NoProc /\ tpc["loop"] = "off"
    BY <2>1 DEF SuperInv, ProcInv, TermInv, Between
  <2> USE DEF OrphanInv, Serving, Alive
  <2>3. Missed'
    BY <2>1, <2>2 DEF Missed, Starting
  <2>4. Flagged'
    BY <2>1 DEF Flagged, Between
  <2>5. Single' /\ Responsible' /\ LoopLeft'
    BY <2>1 DEF Single, Responsible, LoopLeft
  <2>6. Killed'
    BY <2>1, <2>2 DEF Killed
  <2> QED
    BY <2>3, <2>4, <2>5, <2>6
<1>5. CASE SpawnFails
  BY <1>5, QuietStep DEF SpawnFails, Between, Starting
<1>6. CASE BackoffWait
  <2>1. \A p \in Procs : ~Serving(p)
    BY <1>6 DEF BackoffWait, SuperInv, ProcInv, Between, Serving, Alive
  <2> QED
    BY <1>6, <2>1, QuietStep DEF BackoffWait, Between, Starting
<1>7. CASE StartupTest \/ StartupProbe \/ StartupMark
  BY <1>7, QuietStep DEF StartupTest, StartupProbe, StartupMark, Between, Starting
<1>8. CASE StartupPoll
  <2>1. proc = NoProc => \A p \in Procs : ~Serving(p)
    BY <1>8 DEF StartupPoll, SuperInv, ProcInv, Serving, Alive
  <2> QED
    BY <1>8, <2>1, QuietStep DEF StartupPoll, Between, Starting
<1>9. CASE WaitEnter \/ WaitCall
  <2>1. proc = NoProc => \A p \in Procs : ~Serving(p)
    BY <1>9 DEF WaitEnter, WaitCall, SuperInv, ProcInv, Serving, Alive
  <2> QED
    BY <1>9, <2>1, QuietStep DEF WaitEnter, WaitCall, Between, Starting
<1>10. CASE WaitReturns \/ WaitTimesOut
  BY <1>10, QuietStep DEF WaitReturns, WaitTimesOut, Prompt, Between, Starting
<1>11. CASE Reaped
  <2>1. /\ pc = "reaped" /\ pc' = "after" /\ proc' = NoProc
        /\ UNCHANGED <<child, stopEvent, terminating, tpc, target, already>>
    BY <1>11 DEF Reaped
  <2>2. \A p \in Procs : ~Alive(p)
    BY <2>1 DEF SuperInv, ProcInv
  <2> USE DEF OrphanInv, Serving, Alive
  <2>3. Missed'
    BY <2>1, <2>2 DEF Missed
  <2>4. Flagged'
    BY <2>1 DEF Flagged, Between
  <2>5. Single' /\ Responsible'
    BY <2>1 DEF Single, Responsible
  <2>6. Killed' /\ LoopLeft'
    BY <2>1, <2>2 DEF Killed, LoopLeft
  <2> QED
    BY <2>3, <2>4, <2>5, <2>6
<1>12. CASE StopTest
  <2>1. /\ pc = "stopTest" /\ pc' \in {"terminate", "health"}
        /\ UNCHANGED <<child, proc, stopEvent, terminating, target, already>>
        /\ tpc' = [tpc EXCEPT !["loop"] = IF stopEvent THEN "enter" ELSE @]
    BY <1>12 DEF StopTest
  <2>2. tpc["loop"] = "off" /\ tpc'["stop"] = tpc["stop"]
        /\ tpc'["loop"] \in {"off", "enter"}
    BY <2>1 DEF SuperInv, TermInv, TypeOK
  <2> USE DEF OrphanInv, Serving, Alive
  <2>3. Missed'
    BY <2>1, <2>2 DEF Missed, Starting
  <2>4. Flagged'
    BY <2>1, <2>2 DEF Flagged, Between
  <2>5. Single' /\ Killed' /\ LoopLeft'
    BY <2>1, <2>2 DEF Single, Killed, LoopLeft
  <2>6. Responsible'
    BY <2>1, <2>2 DEF Responsible
  <2> QED
    BY <2>3, <2>4, <2>5, <2>6
<1>13. CASE HealthProbe \/ HealthMark
  BY <1>13, QuietStep DEF HealthProbe, HealthMark, Between, Starting
<1>14. ASSUME NEW stable \in BOOLEAN, AfterExit(stable) PROVE OrphanInv'
  BY <1>14, QuietStep DEF AfterExit, OrphanInv, Flagged, Between, Starting
<1> QED
  BY <1>1, <1>2, <1>3, <1>4, <1>5, <1>6, <1>7, <1>8, <1>9, <1>10, <1>11, <1>12,
     <1>13, <1>14 DEF Loop, Spawn

(* A termination that finds a live child finds the one _proc names.        *)
LEMMA LiveIsNamed ==
    ASSUME TypeOK, SuperInv, OrphanInv, NEW c \in Callers,
           tpc[c] \notin {"off", "enter"}, NEW p \in Procs, Alive(p), proc = p
    PROVE  \/ target[c] = p
           \/ target[c] = NoProc /\ c = "stop" /\ tpc[c] = "decide" /\ pc \in Starting
<1>1. p # NoProc
  OBVIOUS
<1>2. target[c] = NoProc \/ target[c] = p
  BY <1>1 DEF SuperInv, TermInv
<1>3. CASE target[c] = NoProc
  <2>1. tpc[c] = "decide"
    BY <1>3 DEF SuperInv, TermInv, TypeOK, TermPcs
  <2> QED
    BY <1>1, <1>3, <2>1 DEF OrphanInv, Missed
<1> QED
  BY <1>2, <1>3

(* What clears _terminating leaves no live child that somebody saw, or     *)
(* leaves a loop that has not seen the request yet.                        *)
LEMMA ClearedWhenGone ==
    ASSUME TypeOK, SuperInv, OrphanInv, NEW c \in Callers,
           tpc[c] \notin {"off", "enter"}, Gone(c), NEW p \in Procs, Alive(p), pc # "record"
    PROVE  /\ c = "stop" /\ tpc[c] = "decide" /\ target[c] = NoProc
           /\ pc \in Starting /\ child[p] # "killed"
<1>1. proc = p
  BY DEF SuperInv, ProcInv
<1>2. p # NoProc
  OBVIOUS
<1> QED
  BY <1>1, <1>2, LiveIsNamed DEF Gone, OrphanInv, Missed

LEMMA OrphanTermStep ==
    ASSUME TypeOK, SuperInv, OrphanInv, NEW c \in Callers, Terminate(c)
    PROVE  OrphanInv'
<1> USE DEF infoVars, loopVars, termVars, mainVars
<1> DEFINE d == IF c = "stop" THEN "loop" ELSE "stop"
<1>0. /\ d \in Callers /\ d # c /\ \A e \in Callers : e = c \/ e = d
      /\ c = "loop" => pc = "terminate"
      /\ d = "loop" => (tpc[d] # "off" => pc = "terminate")
  BY DEF SuperInv, TermInv, Terminate, TermEnter, TermNothing, TermAwait,
         TermAwaited, TermSignal, TermKill, TermRaises, TermClear
<1>1. CASE TermEnter(c)
  <2>1. /\ tpc[c] = "enter" /\ tpc' = [tpc EXCEPT ![c] = "decide"]
        /\ target' = [target EXCEPT ![c] = proc]
        /\ already' = [already EXCEPT ![c] = terminating]
        /\ terminating' = TRUE /\ stopEvent
        /\ UNCHANGED <<child, proc, stopEvent, pc>>
    BY <1>1 DEF TermEnter, SuperInv, TermInv
  <2>2. /\ tpc'[c] = "decide" /\ target'[c] = proc /\ already'[c] = terminating
        /\ \A e \in Callers \ {c} : /\ tpc'[e] = tpc[e]
                                    /\ target'[e] = target[e]
                                    /\ already'[e] = already[e]
    BY <2>1 DEF TypeOK
  <2>3. \A p \in Procs : Alive(p) => proc = p \/ (pc = "record" /\ child[p] # "killed")
    BY DEF SuperInv, ProcInv, OrphanInv, Killed, Between
  <2>4. Missed'
    <3>1. proc = NoProc => \A p \in Procs : child[p] # "killed"
      BY DEF OrphanInv, Killed
    <3> QED
      BY <2>1, <2>2, <3>1 DEF OrphanInv, Missed
  <2>5. Flagged'
    <3>1. pc \in Between => c = "stop" /\ ~terminating
      BY <1>0, <2>1 DEF OrphanInv, Flagged, Between
    <3> QED
      BY <2>1, <2>2, <3>1 DEF Flagged
  <2>6. Single'
    <3>1. ASSUME NEW p \in Procs, Alive(p), target[d] = p,
                 tpc[d] \in {"decide", "term", "kill"}
          PROVE  terminating
      BY <1>0, <3>1 DEF OrphanInv, Flagged
    <3>2. ASSUME NEW p \in Procs, Alive(p), proc = p, tpc[d] = "decide"
          PROVE  terminating
      <4>1. target[d] = p
        BY <1>0, <3>2, LiveIsNamed DEF Starting
      <4> QED
        BY <1>0, <3>2, <4>1 DEF OrphanInv, Flagged
    <3>3. ASSUME NEW p \in Procs, Alive(p), NEW e \in Callers, NEW f \in Callers,
                 tpc'[e] \in {"decide", "term", "kill"}, ~already'[e],
                 target'[e] = p, tpc'[f] = "decide", e # f
          PROVE  already'[f]
      <4>1. CASE e = c
        <5>1. f = d
          BY <1>0, <3>3, <4>1
        <5>2. ~terminating /\ proc = p /\ tpc[d] = "decide"
          BY <1>0, <2>2, <3>3, <4>1, <5>1
        <5> QED
          BY <3>2, <3>3, <5>2
      <4>2. CASE e = d
        <5>1. f = c
          BY <1>0, <3>3, <4>2
        <5>2. tpc[d] \in {"decide", "term", "kill"} /\ target[d] = p
          BY <1>0, <2>2, <3>3, <4>2
        <5> QED
          BY <2>2, <3>1, <3>3, <5>1, <5>2
      <4> QED
        BY <1>0, <4>1, <4>2
    <3> QED
      BY <2>1, <3>3 DEF Single, Alive
  <2>7. Killed'
    BY <2>1, <2>2 DEF OrphanInv, Killed
  <2>8. Responsible'
    <3>1. CASE terminating
      BY <2>1, <2>2, <3>1 DEF OrphanInv, Responsible, Serving
    <3>2. CASE ~terminating
      BY <2>1, <2>2, <3>2 DEF Responsible
    <3> QED
      BY <3>1, <3>2
  <2>9. LoopLeft'
    BY <2>1 DEF LoopLeft
  <2> QED
    BY <2>4, <2>5, <2>6, <2>7, <2>8, <2>9 DEF OrphanInv
<1>2. CASE TermNothing(c) \/ TermClear(c)
  <2>1. /\ tpc[c] \notin {"off", "enter"} /\ Gone(c)
        /\ tpc' = [tpc EXCEPT ![c] = "off"]
        /\ target' = [target EXCEPT ![c] = NoProc]
        /\ already' = [already EXCEPT ![c] = FALSE]
        /\ terminating' = FALSE
        /\ pc' = IF c = "stop" THEN pc ELSE "after"
        /\ UNCHANGED <<child, stopEvent>>
    BY <1>2 DEF TermNothing, TermClear, Return
  <2>2. /\ tpc'[c] = "off"
        /\ \A e \in Callers \ {c} : /\ tpc'[e] = tpc[e]
                                    /\ target'[e] = target[e]
                                    /\ already'[e] = already[e]
    BY <2>1 DEF TypeOK
  <2>3. /\ proc' \in {proc, NoProc}
        /\ proc' # proc => \A p \in Procs : ~Alive(p)
    <3>1. CASE TermNothing(c)
      BY <3>1 DEF TermNothing
    <3>2. CASE TermClear(c)
      <4>1. tpc[c] \in {"term", "kill"} /\ target[c] # NoProc
        BY <3>2 DEF TermClear, SuperInv, TermInv
      <4>2. pc # "record"
        BY <4>1 DEF SuperInv, TermInv, Between
      <4> QED
        BY <2>1, <3>2, <4>1, <4>2, ClearedWhenGone DEF TermClear
    <3> QED
      BY <1>2, <3>1, <3>2
  <2>4. ASSUME NEW p \in Procs, Alive(p), pc # "record"
        PROVE  /\ c = "stop" /\ pc \in Starting /\ child[p] # "killed"
               /\ pc' = pc
    BY <2>1, <2>4, ClearedWhenGone
  <2>5. Missed'
    <3>1. pc' # pc => c = "loop"
      BY <2>1
    <3>2. c = "loop" => \A p \in Procs : ~Alive(p)
      BY <1>0, <2>4
    <3>3. c = "loop" => proc \notin Procs \/ pc \in Starting \/ target["stop"] # NoProc
                        \/ tpc["stop"] # "decide"
      BY DEF OrphanInv, Missed, TypeOK
    <3> QED
      BY <1>0, <2>1, <2>2, <2>3, <3>1, <3>3 DEF OrphanInv, Missed, Starting
  <2>6. Flagged'
    <3>1. ASSUME NEW p \in Procs, Alive(p), tpc[d] \notin {"off", "enter"},
                 target[d] = p
          PROVE  FALSE
      <4>1. pc # "record" /\ tpc[d] # "off"
        BY <1>0, <3>1 DEF SuperInv, TermInv, Between
      <4>2. c = "stop" /\ pc \in Starting
        BY <2>4, <3>1, <4>1
      <4> QED
        BY <1>0, <4>1, <4>2 DEF Starting
    <3> QED
      BY <1>0, <2>1, <2>2, <3>1 DEF Flagged, Alive
  <2>7. Single'
    BY <1>0, <2>1, <2>2 DEF Single
  <2>8. Killed'
    <3>1. ASSUME NEW p \in Procs, child[p] = "killed" PROVE FALSE
      <4>1. Alive(p) /\ proc = p /\ p # NoProc
        BY <3>1 DEF OrphanInv, Killed, Alive
      <4>2. pc # "record"
        BY <4>1 DEF SuperInv, ProcInv, Between
      <4> QED
        BY <2>4, <3>1, <4>1, <4>2
    <3> QED
      BY <2>1, <2>2, <3>1 DEF OrphanInv, Killed
  <2>9. Responsible'
    BY <2>1 DEF Responsible
  <2>10. LoopLeft'
    <3>1. ASSUME NEW p \in Procs, Serving(p), pc' \in {"after", "exited", "dead"}
          PROVE  FALSE
      <4>1. pc # "record"
        BY <1>0, <2>1, <3>1
      <4>2. Alive(p)
        BY <3>1 DEF Serving, Alive
      <4> QED
        BY <2>4, <3>1, <4>1, <4>2 DEF Starting
    <3> QED
      BY <2>1, <3>1 DEF LoopLeft, Serving
  <2> QED
    BY <2>5, <2>6, <2>7, <2>8, <2>9, <2>10 DEF OrphanInv
<1>3. CASE TermAwait(c)
  <2>1. /\ tpc[c] = "decide" /\ already[c]
        /\ tpc' = [tpc EXCEPT ![c] = "await"]
        /\ UNCHANGED <<child, proc, stopEvent, terminating, pc, target, already>>
    BY <1>3 DEF TermAwait
  <2>2. tpc'[c] = "await" /\ \A e \in Callers \ {c} : tpc'[e] = tpc[e]
    BY <2>1 DEF TypeOK
  <2> USE DEF OrphanInv, Serving, Alive
  <2>3. Missed'
    BY <2>1, <2>2 DEF Missed
  <2>4. Flagged'
    <3>1. \A e \in Callers : tpc'[e] \notin {"off", "enter"} => tpc[e] \notin {"off", "enter"}
      BY <2>1, <2>2
    <3>2. terminating /\ pc \in Between => tpc'["stop"] = "decide"
      BY <2>1, <2>2 DEF Flagged
    <3> QED
      BY <2>1, <3>1, <3>2 DEF Flagged
  <2>5. Single' /\ Killed' /\ LoopLeft'
    BY <2>1, <2>2 DEF Single, Killed, LoopLeft
  <2>6. Responsible'
    BY <2>1, <2>2 DEF Responsible
  <2> QED
    BY <2>3, <2>4, <2>5, <2>6
<1>4. CASE TermAwaited(c) \/ TermRaises(c)
  <2>1. /\ tpc[c] \in {"await", "kill"}
        /\ tpc' = [tpc EXCEPT ![c] = "off"]
        /\ target' = [target EXCEPT ![c] = NoProc]
        /\ already' = [already EXCEPT ![c] = FALSE]
        /\ pc' = pc \/ (c = "loop" /\ pc' \in {"after", "dead"})
        /\ UNCHANGED <<child, proc, stopEvent, terminating>>
    BY <1>4 DEF TermAwaited, TermRaises, Return
  <2>2. /\ tpc'[c] = "off"
        /\ \A e \in Callers \ {c} : /\ tpc'[e] = tpc[e]
                                    /\ target'[e] = target[e]
                                    /\ already'[e] = already[e]
    BY <2>1 DEF TypeOK
  <2>3. target[c] # NoProc /\ pc \notin Between
    BY <2>1 DEF SuperInv, TermInv
  <2>4. Missed'
    <3>1. c = "loop" => proc = NoProc \/ pc \in Starting \/ target["stop"] # NoProc
                        \/ tpc["stop"] # "decide"
      BY DEF OrphanInv, Missed
    <3> QED
      BY <1>0, <2>1, <2>2, <3>1 DEF OrphanInv, Missed, Starting
  <2>5. Flagged'
    <3>1. pc' \notin Between
      BY <2>1, <2>3 DEF Between
    <3>2. ASSUME NEW e \in Callers, tpc'[e] \notin {"off", "enter"}
          PROVE  e # c /\ tpc[e] \notin {"off", "enter"} /\ target'[e] = target[e]
      BY <2>2, <3>2
    <3> QED
      BY <2>1, <3>1, <3>2 DEF OrphanInv, Flagged, Alive
  <2>6. Single'
    BY <2>1, <2>2 DEF OrphanInv, Single, Alive
  <2>7. Killed'
    BY <2>1, <2>2 DEF OrphanInv, Killed
  <2>8. Responsible'
    BY <2>1, <2>2 DEF OrphanInv, Responsible, Serving
  <2>9. LoopLeft'
    <3>1. ASSUME NEW p \in Procs, Serving(p), pc' # pc PROVE terminating
      <4>1. Alive(p) /\ c = "loop" /\ pc = "terminate"
        BY <1>0, <2>1, <3>1 DEF Serving, Alive
      <4>2. proc = p
        BY <4>1 DEF SuperInv, ProcInv
      <4>3. target[c] = p
        BY <2>1, <4>1, <4>2, LiveIsNamed
      <4> QED
        BY <2>1, <4>1, <4>3 DEF OrphanInv, Flagged
    <3> QED
      BY <2>1, <3>1 DEF OrphanInv, LoopLeft, Serving
  <2> QED
    BY <2>4, <2>5, <2>6, <2>7, <2>8, <2>9 DEF OrphanInv
<1>5. CASE TermSignal(c)
  <2> DEFINE p == target[c]
  <2>1. /\ tpc[c] = "decide" /\ ~already[c]
        /\ p \in Procs /\ p # NoProc /\ Alive(p)
        /\ tpc' = [tpc EXCEPT ![c] = "term"]
        /\ child' = [child EXCEPT ![p] = "termed"]
        /\ UNCHANGED <<proc, stopEvent, terminating, pc, target, already>>
    BY <1>5 DEF TermSignal, Gone, TypeOK
  <2>2. tpc'[c] = "term" /\ \A e \in Callers \ {c} : tpc'[e] = tpc[e]
    BY <2>1 DEF TypeOK
  <2>3. /\ child'[p] = "termed"
        /\ \A q \in Procs : q # p => child'[q] = child[q]
        /\ \A q \in Procs : Alive(q)' <=> Alive(q)
        /\ \A q \in Procs : child[q] # "killed"
        /\ \A q \in Procs : child'[q] # "killed"
    BY <2>1 DEF TypeOK, Alive, OrphanInv, Killed
  <2>4. terminating
    BY <2>1 DEF OrphanInv, Flagged
  <2> HIDE DEF p
  <2>5. Missed'
    BY <2>1, <2>2, <2>3 DEF OrphanInv, Missed
  <2>6. Flagged'
    <3>1. pc \notin Between
      BY <2>1 DEF SuperInv, TermInv, p
    <3> QED
      BY <2>1, <2>4, <3>1 DEF OrphanInv, Flagged
  <2>7. Single'
    BY <2>1, <2>2, <2>3 DEF OrphanInv, Single
  <2>8. Killed'
    BY <2>1, <2>2, <2>3 DEF OrphanInv, Killed
  <2>9. Responsible'
    BY <2>1, <2>2 DEF Responsible
  <2>10. LoopLeft'
    BY <2>1, <2>4 DEF LoopLeft
  <2> QED
    BY <2>5, <2>6, <2>7, <2>8, <2>9, <2>10 DEF OrphanInv
<1>6. CASE TermKill(c)
  <2> DEFINE p == target[c]
  <2>1. /\ tpc[c] = "term"
        /\ p \in Procs /\ p # NoProc /\ Alive(p)
        /\ tpc' = [tpc EXCEPT ![c] = "kill"]
        /\ child' = [child EXCEPT ![p] = "killed"]
        /\ UNCHANGED <<proc, stopEvent, terminating, pc, target, already>>
    BY <1>6 DEF TermKill, Gone, TypeOK
  <2>2. tpc'[c] = "kill" /\ \A e \in Callers \ {c} : tpc'[e] = tpc[e]
    BY <2>1 DEF TypeOK
  <2>3. /\ child'[p] = "killed"
        /\ \A q \in Procs : q # p => child'[q] = child[q]
        /\ \A q \in Procs : Alive(q)' <=> Alive(q)
    BY <2>1 DEF TypeOK, Alive
  <2>4. terminating /\ ~already[c]
    BY <2>1 DEF OrphanInv, Flagged, Killed
  <2>5. pc \notin Between /\ proc \in {p, NoProc}
    BY <2>1 DEF SuperInv, TermInv
  <2>6. proc = p /\ \A q \in Procs : Alive(q) => q = p
    BY <2>1, <2>5 DEF SuperInv, ProcInv, Between
  <2>7. target[d] = NoProc => tpc[d] # "decide"
    <3>1. ASSUME target[d] = NoProc, tpc[d] = "decide" PROVE FALSE
      <4>1. d = "stop" /\ pc \in Starting
        BY <1>0, <2>1, <2>6, <3>1, LiveIsNamed
      <4> QED
        BY <1>0, <4>1 DEF Starting
    <3> QED
      BY <3>1
  <2>8. tpc[d] = "decide" => already[d]
    BY <1>0, <2>1, <2>4 DEF OrphanInv, Single
  <2> HIDE DEF p
  <2>9. Missed'
    BY <1>0, <2>1, <2>2, <2>7 DEF OrphanInv, Missed
  <2>10. Flagged'
    BY <2>1, <2>4, <2>5 DEF OrphanInv, Flagged
  <2>11. Single'
    BY <2>1, <2>2, <2>3 DEF OrphanInv, Single
  <2>12. Killed'
    BY <1>0, <2>1, <2>2, <2>3, <2>4, <2>6, <2>8 DEF OrphanInv, Killed, Alive
  <2>13. Responsible' /\ LoopLeft'
    BY <2>3, <2>6 DEF Responsible, LoopLeft, Serving, Alive
  <2> QED
    BY <2>9, <2>10, <2>11, <2>12, <2>13 DEF OrphanInv
<1> QED
  BY <1>1, <1>2, <1>3, <1>4, <1>5, <1>6 DEF Terminate

LEMMA OrphanStep == TypeOK /\ SuperInv /\ OrphanInv /\ [Next]_vars => OrphanInv'
<1> SUFFICES ASSUME TypeOK, SuperInv, OrphanInv, [Next]_vars PROVE OrphanInv'
  OBVIOUS
<1> USE DEF infoVars, loopVars, termVars, mainVars
<1>1. ASSUME NEW p \in Procs, ChildExits(p) PROVE OrphanInv'
  <2>1. /\ child' = [child EXCEPT ![p] = "exited"]
        /\ UNCHANGED <<proc, stopEvent, terminating, pc, tpc, target, already>>
    BY <1>1 DEF ChildExits
  <2>2. \A q \in Procs : child'[q] = "exited" \/ child'[q] = child[q]
    BY <2>1 DEF TypeOK
  <2>3. Missed' /\ Flagged'
    BY <2>1, <2>2 DEF OrphanInv, Missed, Flagged, Alive
  <2>4. Single' /\ Killed'
    BY <2>1, <2>2 DEF OrphanInv, Single, Killed, Alive
  <2>5. Responsible' /\ LoopLeft'
    BY <2>1, <2>2 DEF OrphanInv, Responsible, LoopLeft, Serving
  <2> QED
    BY <2>3, <2>4, <2>5 DEF OrphanInv
<1>2. CASE StopBegin
  <2>1. /\ tpc' = [tpc EXCEPT !["stop"] = "enter"] /\ stopEvent'
        /\ UNCHANGED <<child, proc, terminating, pc, target, already>>
    BY <1>2 DEF StopBegin
  <2>2. tpc["stop"] = "off" /\ tpc'["stop"] = "enter" /\ tpc'["loop"] = tpc["loop"]
    BY <1>2, <2>1 DEF StopBegin, TypeOK, SuperInv, TermInv
  <2>3. Missed' /\ Flagged'
    BY <2>1, <2>2 DEF OrphanInv, Missed, Flagged, Alive
  <2>4. Single' /\ Killed'
    BY <2>1, <2>2 DEF OrphanInv, Single, Killed, Alive
  <2>5. Responsible' /\ LoopLeft'
    BY <2>1, <2>2 DEF OrphanInv, Responsible, LoopLeft, Serving
  <2> QED
    BY <2>3, <2>4, <2>5 DEF OrphanInv
<1>3. CASE StopJoin \/ UNCHANGED vars
  BY <1>3, QuietStep DEF StopJoin, vars
<1> QED
  BY <1>1, <1>2, <1>3, OrphanLoopStep, OrphanTermStep DEF Next

LEMMA OrphanInvariant == Spec => []OrphanInv
<1>1. Init => OrphanInv
  BY DEF Init, OrphanInv, Missed, Flagged, Single, Killed, Responsible, LoopLeft,
         Serving, Alive
<1> QED
  BY <1>1, OrphanStep, TypeCorrect, SuperInvariant, PTL DEF Spec

(* No orphan is left (ARCHITECTURE.md:342): a loop that is over leaves a   *)
(* live child only to a termination in progress, or with SIGKILL sent.     *)
THEOREM ShutdownLeavesNone == Spec => []NoOrphan
<1>1. OrphanInv => NoOrphan
  <2> SUFFICES ASSUME OrphanInv, Over, ~InTerminate, NEW p \in Served PROVE FALSE
    BY DEF NoOrphan
  <2>1. p \in Procs /\ Serving(p)
    BY DEF Served, Serving
  <2>2. terminating
    BY <2>1 DEF OrphanInv, LoopLeft, Over
  <2>3. \E c \in Callers : tpc[c] \in {"decide", "term"}
    BY <2>1, <2>2 DEF OrphanInv, Responsible
  <2> QED
    BY <2>3 DEF InTerminate
<1> QED
  BY <1>1, OrphanInvariant, PTL

-----------------------------------------------------------------------------
(* Refinement of KeepAlive.                                                *)

LEMMA ServedCount ==
    ASSUME OneChild
    PROVE  /\ Served = {} => Cardinality(Served) = 0
           /\ Served # {} => Cardinality(Served) = 1
<1>1. Served = {} => Cardinality(Served) = 0
  BY FS_EmptySet
<1>2. ASSUME NEW p \in Served PROVE Cardinality(Served) = 1
  <2>1. Served = {p}
    BY <1>2 DEF OneChild, Served, Alive
  <2> QED
    BY <2>1, FS_Singleton
<1> QED
  BY <1>1, <1>2

LEMMA KeepStep ==
    ASSUME TypeOK, SuperInv, OrphanInv, OneChild, OneChild', SupervisionLasts',
           [Next]_vars
    PROVE  [Keep!KeepNext]_(Keep!keepVars)
<1> DEFINE Goal == [Keep!KeepNext]_(Keep!keepVars)
<1> USE DEF infoVars, loopVars, termVars, mainVars, Goto
<1>1. ASSUME Served' = Served, stopEvent' = stopEvent, Over' = Over PROVE Goal
  BY <1>1 DEF Keep!keepVars
<1>2. ASSUME Served' = Served, stopEvent' = stopEvent, Over' PROVE Goal
  <2>1. stopEvent
    BY <1>2 DEF SupervisionLasts
  <2>2. CASE Served = {}
    BY <1>2, <2>1, <2>2, ServedCount DEF Keep!KeepNext, Keep!Finish
  <2>3. CASE Served # {}
    BY <1>2, <2>3 DEF Keep!keepVars
  <2> QED
    BY <2>2, <2>3
<1>3. ASSUME NEW p \in Served, Served' = Served \ {p}, stopEvent' = stopEvent,
             Over' = Over
      PROVE  Goal
  <2>1. Served' = {}
    BY <1>3 DEF OneChild, Served, Alive
  <2>2. Over => stopEvent
    BY <1>3 DEF SupervisionLasts
  <2>3. Cardinality(Served) = 1 /\ Cardinality(Served') = 0
    BY <1>3, <2>1, ServedCount, FS_EmptySet
  <2>4. (Over /\ Served = {})' \in {Over /\ Served = {}, stopEvent}
    BY <1>3, <2>1, <2>2
  <2> QED
    BY <1>3, <2>3, <2>4 DEF Keep!KeepNext, Keep!Leave
<1>4. ASSUME NEW p \in Procs, Popen(p) PROVE Goal
  <2>1. pc = "spawn" /\ pc' = "record" /\ stopEvent' = stopEvent
        /\ child' = [child EXCEPT ![p] = "up"]
    BY <1>4 DEF Popen
  <2>2. Served = {}
    BY <2>1 DEF SuperInv, ProcInv, Between, Served, Alive
  <2>3. p \in Served'
    BY <2>1 DEF Served, TypeOK
  <2>4. Served' = {p}
    BY <2>3 DEF OneChild, Served, Alive
  <2>5. Cardinality(Served) = 0 /\ Cardinality(Served') = 1
    BY <2>2, <2>4, FS_EmptySet, FS_Singleton
  <2>6. ~Over /\ ~Over'
    BY <2>1 DEF Over
  <2> QED
    BY <2>1, <2>5, <2>6 DEF Keep!KeepNext, Keep!Launch
<1>5. ASSUME NEW p \in Procs, ChildExits(p) PROVE Goal
  <2>1. child' = [child EXCEPT ![p] = "exited"] /\ UNCHANGED <<stopEvent, pc>>
    BY <1>5 DEF ChildExits
  <2>2. Served' = Served \ {p} /\ Over' = Over
    BY <2>1 DEF Served, TypeOK, Over
  <2> QED
    BY <1>1, <1>3, <2>1, <2>2
<1>6. ASSUME NEW c \in Callers, TermKill(c) PROVE Goal
  <2>1. /\ child' = [child EXCEPT ![target[c]] = "killed"]
        /\ UNCHANGED <<stopEvent, pc>>
    BY <1>6 DEF TermKill
  <2>2. Served' = Served \ {target[c]} /\ Over' = Over
    BY <2>1 DEF Served, TypeOK, Over
  <2> QED
    BY <1>1, <1>3, <2>1, <2>2
<1>7. ASSUME NEW c \in Callers, TermSignal(c) PROVE Goal
  <2>1. /\ tpc[c] = "decide" /\ ~already[c]
        /\ target[c] \in Procs /\ Alive(target[c])
        /\ child' = [child EXCEPT ![target[c]] = "termed"]
        /\ UNCHANGED <<stopEvent, pc>>
    BY <1>7 DEF TermSignal, Gone, TypeOK
  <2>2. target[c] \in Served
    BY <2>1 DEF OrphanInv, Killed, Served, Alive
  <2>3. Served' = Served /\ Over' = Over
    BY <2>1, <2>2 DEF Served, TypeOK, Over
  <2> QED
    BY <1>1, <2>1, <2>3
<1>8. CASE StopBegin
  <2>1. stopEvent' = TRUE /\ Served' = Served /\ Over' = Over
    BY <1>8 DEF StopBegin, Served, Over
  <2>2. UNCHANGED <<Cardinality(Served), Over /\ Served = {}>>
    BY <2>1
  <2>3. Keep!Ask
    BY <2>1, <2>2, Zenon DEF Keep!Ask
  <2> QED
    BY <2>3 DEF Keep!KeepNext
<1>9. ASSUME UNCHANGED <<child, stopEvent>>, Over => Over' PROVE Goal
  <2>1. Served' = Served
    BY <1>9 DEF Served
  <2>2. CASE Over'
    BY <1>2, <1>9, <2>1, <2>2
  <2>3. CASE ~Over'
    <3>1. Over' = Over
      BY <1>9, <2>3 DEF Over
    <3> QED
      BY <1>1, <1>9, <2>1, <3>1
  <2> QED
    BY <2>2, <2>3
<1>10. CASE Loop
  <2>1. CASE \E p \in Procs : Popen(p)
    BY <1>4, <2>1
  <2>2. CASE ~\E p \in Procs : Popen(p)
    <3>1. UNCHANGED <<child, stopEvent>> /\ ~Over
      BY <1>10, <2>2 DEF Loop, Spawn, LoopTest, RecordSpawn, SpawnFails,
         BackoffWait, StartupTest, StartupPoll, StartupProbe, StartupMark,
         WaitEnter, WaitCall, WaitReturns, WaitTimesOut, Reaped, StopTest,
         HealthProbe, HealthMark, AfterExit, Over
    <3> QED
      BY <1>9, <3>1
  <2> QED
    BY <2>1, <2>2
<1>11. ASSUME NEW c \in Callers,
              TermEnter(c) \/ TermNothing(c) \/ TermAwait(c) \/ TermAwaited(c)
              \/ TermRaises(c) \/ TermClear(c)
       PROVE  Goal
  <2>1. UNCHANGED <<child, stopEvent>>
    BY <1>11 DEF TermEnter, TermNothing, TermAwait, TermAwaited, TermRaises, TermClear
  <2>2. tpc[c] # "off" /\ (pc' = pc \/ c = "loop")
    BY <1>11 DEF TermEnter, TermNothing, TermAwait, TermAwaited, TermRaises,
                 TermClear, Return
  <2>3. Over => Over'
    BY <2>2 DEF SuperInv, TermInv, Over
  <2> QED
    BY <1>9, <2>1, <2>3
<1>12. CASE LoopStart \/ StopJoin \/ UNCHANGED vars
  BY <1>9, <1>12 DEF LoopStart, StopJoin, vars, Over
<1> QED
  BY <1>5, <1>6, <1>7, <1>8, <1>10, <1>11, <1>12 DEF Next, Terminate

(* The two threads together keep the promise of KeepAlive: one child at a  *)
(* time, a new one only after the last has gone or was sent SIGKILL, and   *)
(* supervision over only on request and without a child.                   *)
THEOREM SupervisorKeepsAlive == Spec => ImplementsKeepAlive
<1>1. Init => Keep!KeepInit
  <2>1. ASSUME Init PROVE Served = {} /\ ~Over /\ ~stopEvent
    BY <2>1 DEF Init, Served, Over
  <2> QED
    BY <2>1, FS_EmptySet DEF Keep!KeepInit
<1>2. /\ TypeOK /\ SuperInv /\ OrphanInv /\ OneChild /\ OneChild'
      /\ SupervisionLasts' /\ [Next]_vars
      => [Keep!KeepNext]_(Keep!keepVars)
  BY KeepStep
<1> QED
  BY <1>1, <1>2, TypeCorrect, SuperInvariant, OrphanInvariant, AtMostOneChild,
     SupervisionEndsOnRequest, PTL
     DEF Spec, ImplementsKeepAlive, Keep!KeepSpec
=============================================================================
