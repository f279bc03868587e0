--------------------------- MODULE LlamaSupervisor ---------------------------
(***************************************************************************)
(* service/llama_supervisor.py: a loop thread that spawns llama-server,    *)
(* waits for it to become healthy, then for its exit, and restarts it with *)
(* a backoff; and stop(), which runs on the main thread against that loop. *)
(*                                                                         *)
(* _proc is the field both threads use: each Popen is an element of Procs. *)
(* The order of statements that other threads can tell apart is kept: a    *)
(* check of _proc and its use are two steps, and so are the two halves of  *)
(* a spawn (Popen, then the record of it under the lock).                  *)
(***************************************************************************)
EXTENDS Integers, FiniteSets

CONSTANTS
    Procs,     \* Popen objects; reused once nothing refers to them
    LastDelay, \* index of the last entry of BACKOFF_SCHEDULE, 6 in the code
    MaxStops   \* bound: how many times stop() is called

ASSUME SupervisorAssumption ==
    /\ LastDelay \in Nat
    /\ MaxStops \in Nat

NoProc == "None"

ASSUME NoProcAssumption == NoProc \notin Procs

VARIABLES
    child,       \* child[p]: the operating system's view of process p
    proc,        \* _proc
    stopEvent,   \* _stop_event
    terminating, \* _terminating
    running,     \* _info.running
    healthy,     \* _info.healthy
    pc,          \* where the loop thread is
    waitOn,      \* the Popen the loop's proc.wait() was called on
    probe,       \* the result of the health check in progress
    backoff,     \* backoff_idx
    failures,    \* history: failures in a row, this one included, up to LastDelay + 1
    tpc,         \* tpc[c]: where caller c is in _terminate_process
    target,      \* target[c]: its local variable proc
    already,     \* already[c]: its local variable already_stopping
    stopPc,      \* where the main thread is in stop()
    stops        \* how many stop() calls have begun

infoVars == <<running, healthy>>
loopVars == <<pc, waitOn, probe, backoff, failures>>
termVars == <<tpc, target, already>>
mainVars == <<stopPc, stops>>
vars == <<child, proc, stopEvent, terminating, infoVars, loopVars, termVars,
          mainVars>>

Callers == {"stop", "loop"}

(* termed: SIGTERM was sent; killed: SIGKILL was sent, not gone yet.       *)
ChildStates == {"none", "up", "termed", "killed", "exited"}
Alive(p) == child[p] \in {"up", "termed", "killed"}

LoopPcs == {"idle", "test", "spawn", "record", "failed", "startup", "startupPoll",
            "startupProbe", "startupMark", "enter", "wait", "waiting", "reaped",
            "stopTest", "health", "mark", "terminate", "after", "backoff",
            "exited", "dead"}
TermPcs == {"off", "enter", "decide", "await", "term", "kill"}

TypeOK ==
    /\ child \in [Procs -> ChildStates]
    /\ proc \in Procs \cup {NoProc}
    /\ stopEvent \in BOOLEAN
    /\ terminating \in BOOLEAN
    /\ running \in BOOLEAN
    /\ healthy \in BOOLEAN
    /\ pc \in LoopPcs
    /\ waitOn \in Procs \cup {NoProc}
    /\ probe \in BOOLEAN
    /\ backoff \in 0 .. LastDelay
    /\ failures \in 0 .. LastDelay + 1
    /\ tpc \in [Callers -> TermPcs]
    /\ target \in [Callers -> Procs \cup {NoProc}]
    /\ already \in [Callers -> BOOLEAN]
    /\ stopPc \in {"idle", "terminate", "join"}
    /\ stops \in 0 .. MaxStops

Init ==
    /\ child = [p \in Procs |-> "none"]
    /\ proc = NoProc
    /\ stopEvent = FALSE
    /\ terminating = FALSE
    /\ running = FALSE
    /\ healthy = FALSE
    /\ pc = "idle"
    /\ waitOn = NoProc
    /\ probe = FALSE
    /\ backoff = 0
    /\ failures = 0
    /\ tpc = [c \in Callers |-> "off"]
    /\ target = [c \in Callers |-> NoProc]
    /\ already = [c \in Callers |-> FALSE]
    /\ stopPc = "idle"
    /\ stops = 0

NextDelay == IF backoff < LastDelay THEN backoff + 1 ELSE LastDelay
OneMoreFailure == IF failures <= LastDelay THEN failures + 1 ELSE failures

(* A wait of seconds does not run out while the other thread is between    *)
(* two adjacent statements of _terminate_process.                          *)
Prompt == tpc["stop"] # "decide"

-----------------------------------------------------------------------------
(* The child: it may exit by itself at any time; a signal is only obeyed   *)
(* when the process gets to it.                                            *)
ChildExits(p) ==
    /\ Alive(p)
    /\ child' = [child EXCEPT ![p] = "exited"]
    /\ UNCHANGED <<proc, stopEvent, terminating, infoVars, loopVars, termVars,
                   mainVars>>

-----------------------------------------------------------------------------
(* The loop thread: _run_loop and what it calls.                           *)

Goto(from, to) == pc = from /\ pc' = to

LoopStart ==
    /\ Goto("idle", "test")
    /\ UNCHANGED <<child, proc, stopEvent, terminating, infoVars, waitOn, probe,
                   backoff, failures, termVars, mainVars>>

LoopTest ==
    /\ Goto("test", IF stopEvent THEN "exited" ELSE "spawn")
    /\ UNCHANGED <<child, proc, stopEvent, terminating, infoVars, waitOn, probe,
                   backoff, failures, termVars, mainVars>>

(* Popen: the process exists, but _proc does not name it yet.              *)
Popen(p) ==
    /\ Goto("spawn", "record")
    /\ ~Alive(p)
    /\ p \notin {proc, target["stop"]}
    /\ child' = [child EXCEPT ![p] = "up"]
    /\ waitOn' = p
    /\ UNCHANGED <<proc, stopEvent, terminating, infoVars, probe, backoff,
                   failures, termVars, mainVars>>

RecordSpawn ==
    /\ Goto("record", "startup")
    /\ proc' = waitOn
    /\ waitOn' = NoProc
    /\ running' = TRUE
    /\ healthy' = FALSE
    /\ UNCHANGED <<child, stopEvent, terminating, probe, backoff, failures,
                   termVars, mainVars>>

(* Mutation: the exception of Popen is not caught in the loop.             *)
SpawnFailsUncaught ==
    /\ Goto("spawn", "dead")
    /\ UNCHANGED <<child, proc, stopEvent, terminating, infoVars, waitOn, probe,
                   backoff, failures, termVars, mainVars>>

(* The binary is missing, or may not be executed.                          *)
SpawnFails ==
    /\ Goto("spawn", "failed")
    /\ failures' = OneMoreFailure
    /\ UNCHANGED <<child, proc, stopEvent, terminating, infoVars, waitOn, probe,
                   backoff, termVars, mainVars>>

(* Mutation: the supervisor gives up at the end of the schedule.           *)
BackoffGivesUp ==
    /\ pc \in {"failed", "backoff"}
    /\ \/ stopEvent /\ pc' = "exited" /\ UNCHANGED backoff
       \/ ~stopEvent /\ backoff < LastDelay /\ pc' = "test" /\ backoff' = NextDelay
    /\ UNCHANGED <<child, proc, stopEvent, terminating, infoVars, waitOn, probe,
                   failures, termVars, mainVars>>

(* _stop_event.wait(delay): TRUE when stop was requested before it ran out.*)
BackoffWait ==
    /\ pc \in {"failed", "backoff"}
    /\ \/ stopEvent /\ pc' = "exited" /\ UNCHANGED backoff
       \/ ~stopEvent /\ pc' = "test" /\ backoff' = NextDelay
    /\ UNCHANGED <<child, proc, stopEvent, terminating, infoVars, waitOn, probe,
                   failures, termVars, mainVars>>

(* The while test of _wait_until_healthy_or_stopped; the deadline may have *)
(* passed.                                                                 *)
StartupTest ==
    /\ \/ Goto("startup", "enter")
       \/ ~stopEvent /\ Goto("startup", IF proc = NoProc THEN "enter" ELSE "startupPoll")
    /\ UNCHANGED <<child, proc, stopEvent, terminating, infoVars, waitOn, probe,
                   backoff, failures, termVars, mainVars>>

(* _proc is read again for poll(): None by now means an AttributeError,    *)
(* which ends the thread.                                                  *)
StartupPoll ==
    /\ Goto("startupPoll", IF proc = NoProc THEN "dead"
                           ELSE IF Alive(proc) THEN "startupProbe" ELSE "enter")
    /\ UNCHANGED <<child, proc, stopEvent, terminating, infoVars, waitOn, probe,
                   backoff, failures, termVars, mainVars>>

(* GET /health succeeds only when a process is there to answer it.         *)
SomeoneServes == \E p \in Procs : Alive(p)

StartupProbe ==
    /\ \/ Goto("startupProbe", "startup")
       \/ SomeoneServes /\ Goto("startupProbe", "startupMark")
    /\ UNCHANGED <<child, proc, stopEvent, terminating, infoVars, waitOn, probe,
                   backoff, failures, termVars, mainVars>>

StartupMark ==
    /\ Goto("startupMark", "enter")
    /\ healthy' = TRUE
    /\ UNCHANGED <<child, proc, stopEvent, terminating, running, waitOn, probe,
                   backoff, failures, termVars, mainVars>>

(* _wait_for_exit: the test for None, then the read of _proc for wait().   *)
WaitEnter ==
    /\ Goto("enter", IF proc = NoProc THEN "after" ELSE "wait")
    /\ UNCHANGED <<child, proc, stopEvent, terminating, infoVars, waitOn, probe,
                   backoff, failures, termVars, mainVars>>

WaitCall ==
    /\ Goto("wait", IF proc = NoProc THEN "dead" ELSE "waiting")
    /\ waitOn' = proc
    /\ UNCHANGED <<child, proc, stopEvent, terminating, infoVars, probe, backoff,
                   failures, termVars, mainVars>>

WaitReturns ==
    /\ Goto("waiting", "reaped")
    /\ ~Alive(waitOn)
    /\ waitOn' = NoProc
    /\ UNCHANGED <<child, proc, stopEvent, terminating, infoVars, probe, backoff,
                   failures, termVars, mainVars>>

WaitTimesOut ==
    /\ Goto("waiting", "stopTest")
    /\ Prompt
    /\ Alive(waitOn)
    /\ waitOn' = NoProc
    /\ UNCHANGED <<child, proc, stopEvent, terminating, infoVars, probe, backoff,
                   failures, termVars, mainVars>>

Reaped ==
    /\ Goto("reaped", "after")
    /\ proc' = NoProc
    /\ UNCHANGED <<child, stopEvent, terminating, infoVars, waitOn, probe,
                   backoff, failures, termVars, mainVars>>

(* Mutation: the loop leaves the termination to stop().                    *)
StopTestLeaves ==
    /\ Goto("stopTest", IF stopEvent THEN "after" ELSE "health")
    /\ UNCHANGED <<child, proc, stopEvent, terminating, infoVars, waitOn, probe,
                   backoff, failures, termVars, mainVars>>

(* Every five seconds: stop was requested, or the health is looked at.     *)
StopTest ==
    /\ Goto("stopTest", IF stopEvent THEN "terminate" ELSE "health")
    /\ tpc' = [tpc EXCEPT !["loop"] = IF stopEvent THEN "enter" ELSE @]
    /\ UNCHANGED <<child, proc, stopEvent, terminating, infoVars, waitOn, probe,
                   backoff, failures, target, already, mainVars>>

HealthProbe ==
    /\ Goto("health", "mark")
    /\ probe' \in {FALSE, SomeoneServes}
    /\ UNCHANGED <<child, proc, stopEvent, terminating, infoVars, waitOn,
                   backoff, failures, termVars, mainVars>>

(* Mutation: an unhealthy process is replaced without being terminated.    *)
HealthMarkRestarts ==
    /\ Goto("mark", IF probe THEN "enter" ELSE "after")
    /\ healthy' = probe
    /\ proc' = IF probe THEN proc ELSE NoProc
    /\ probe' = FALSE
    /\ UNCHANGED <<child, stopEvent, terminating, running, waitOn, backoff,
                   failures, termVars, mainVars>>

(* The result is recorded; an unhealthy process is polled again, for ever. *)
HealthMark ==
    /\ Goto("mark", "enter")
    /\ healthy' = probe
    /\ probe' = FALSE
    /\ UNCHANGED <<child, proc, stopEvent, terminating, running, waitOn, backoff,
                   failures, termVars, mainVars>>

(* Mutation: the schedule is not started over after a stable run.         *)
AfterExitNoReset(stable) ==
    /\ Goto("after", IF stopEvent THEN "exited" ELSE "backoff")
    /\ IF stopEvent THEN UNCHANGED <<infoVars, failures>>
       ELSE /\ running' = FALSE
            /\ healthy' = FALSE
            /\ failures' = IF stable THEN 1 ELSE OneMoreFailure
    /\ UNCHANGED <<child, proc, stopEvent, terminating, backoff, waitOn, probe,
                   termVars, mainVars>>

(* The child is gone: leave the loop, or record the crash and back off.    *)
(* stable: it had been up for STABLE_UPTIME_RESET_SECONDS.                 *)
AfterExit(stable) ==
    /\ Goto("after", IF stopEvent THEN "exited" ELSE "backoff")
    /\ IF stopEvent THEN UNCHANGED <<infoVars, backoff, failures>>
       ELSE /\ running' = FALSE
            /\ healthy' = FALSE
            /\ backoff' = IF stable THEN 0 ELSE backoff
            /\ failures' = IF stable THEN 1 ELSE OneMoreFailure
    /\ UNCHANGED <<child, proc, stopEvent, terminating, waitOn, probe, termVars,
                   mainVars>>

-----------------------------------------------------------------------------
(* _terminate_process, called by stop() and by the loop.                   *)

(* Where the caller goes on: stop() joins the loop, the loop returns from  *)
(* _wait_for_exit.                                                         *)
Return(c) ==
    /\ tpc' = [tpc EXCEPT ![c] = "off"]
    /\ target' = [target EXCEPT ![c] = NoProc]
    /\ already' = [already EXCEPT ![c] = FALSE]
    /\ IF c = "stop" THEN stopPc' = "join" /\ UNCHANGED pc
                     ELSE pc' = "after" /\ UNCHANGED stopPc

TermEnter(c) ==
    /\ tpc[c] = "enter"
    /\ tpc' = [tpc EXCEPT ![c] = "decide"]
    /\ target' = [target EXCEPT ![c] = proc]
    /\ already' = [already EXCEPT ![c] = terminating]
    /\ terminating' = TRUE
    /\ UNCHANGED <<child, proc, stopEvent, infoVars, loopVars, mainVars>>

Gone(c) == IF target[c] = NoProc THEN TRUE ELSE ~Alive(target[c])

TermNothing(c) ==
    /\ tpc[c] = "decide"
    /\ Gone(c)
    /\ running' = FALSE
    /\ healthy' = FALSE
    /\ terminating' = FALSE
    /\ Return(c)
    /\ UNCHANGED <<child, proc, stopEvent, waitOn, probe, backoff, failures, stops>>

(* Another caller is at it: only wait, for the exit or the timeout.        *)
TermAwait(c) ==
    /\ tpc[c] = "decide"
    /\ ~Gone(c)
    /\ already[c]
    /\ tpc' = [tpc EXCEPT ![c] = "await"]
    /\ UNCHANGED <<child, proc, stopEvent, terminating, infoVars, loopVars,
                   target, already, mainVars>>

TermAwaited(c) ==
    /\ tpc[c] = "await"
    /\ Return(c)
    /\ UNCHANGED <<child, proc, stopEvent, terminating, infoVars, waitOn, probe,
                   backoff, failures, stops>>

TermSignal(c) ==
    /\ tpc[c] = "decide"
    /\ ~Gone(c)
    /\ ~already[c]
    /\ tpc' = [tpc EXCEPT ![c] = "term"]
    /\ child' = [child EXCEPT ![target[c]] = "termed"]
    /\ UNCHANGED <<proc, stopEvent, terminating, infoVars, loopVars, target,
                   already, mainVars>>

(* Mutation: SIGTERM is repeated, never followed by SIGKILL.               *)
TermAgain(c) ==
    /\ tpc[c] = "term"
    /\ ~Gone(c)
    /\ UNCHANGED vars

(* The grace period ran out: SIGKILL.                                      *)
TermKill(c) ==
    /\ tpc[c] = "term"
    /\ ~Gone(c)
    /\ tpc' = [tpc EXCEPT ![c] = "kill"]
    /\ child' = [child EXCEPT ![target[c]] = "killed"]
    /\ UNCHANGED <<proc, stopEvent, terminating, infoVars, loopVars, target,
                   already, mainVars>>

(* Not gone five seconds after SIGKILL either: wait() raises out of stop() *)
(* or out of the loop thread, and _terminating stays set.                  *)
TermRaises(c) ==
    /\ tpc[c] = "kill"
    /\ ~Gone(c)
    /\ tpc' = [tpc EXCEPT ![c] = "off"]
    /\ target' = [target EXCEPT ![c] = NoProc]
    /\ already' = [already EXCEPT ![c] = FALSE]
    /\ IF c = "stop" THEN stopPc' = "idle" /\ UNCHANGED pc
                     ELSE pc' = "dead" /\ UNCHANGED stopPc
    /\ UNCHANGED <<child, proc, stopEvent, terminating, infoVars, waitOn, probe,
                   backoff, failures, stops>>

TermClear(c) ==
    /\ tpc[c] \in {"term", "kill"}
    /\ Gone(c)
    /\ running' = FALSE
    /\ healthy' = FALSE
    /\ proc' = NoProc
    /\ terminating' = FALSE
    /\ Return(c)
    /\ UNCHANGED <<child, stopEvent, waitOn, probe, backoff, failures, stops>>

-----------------------------------------------------------------------------
(* The main thread: stop().                                                *)

StopBegin ==
    /\ stopPc = "idle"
    /\ pc # "idle"
    /\ stops < MaxStops
    /\ stops' = stops + 1
    /\ stopEvent' = TRUE
    /\ stopPc' = "terminate"
    /\ tpc' = [tpc EXCEPT !["stop"] = "enter"]
    /\ UNCHANGED <<child, proc, terminating, infoVars, loopVars, target, already>>

(* The loop is over, or the join timed out.                                *)
StopJoin ==
    /\ stopPc = "join"
    /\ stopPc' = "idle"
    /\ UNCHANGED <<child, proc, stopEvent, terminating, infoVars, loopVars,
                   termVars, stops>>

-----------------------------------------------------------------------------
Terminate(c) ==
    \/ TermEnter(c)
    \/ TermNothing(c)
    \/ TermAwait(c)
    \/ TermAwaited(c)
    \/ TermSignal(c)
    \/ TermKill(c)
    \/ TermRaises(c)
    \/ TermClear(c)

Spawn == (\E p \in Procs : Popen(p)) \/ SpawnFails

Loop ==
    \/ LoopTest \/ Spawn \/ RecordSpawn \/ BackoffWait
    \/ StartupTest \/ StartupPoll \/ StartupProbe \/ StartupMark
    \/ WaitEnter \/ WaitCall \/ WaitReturns \/ WaitTimesOut \/ Reaped
    \/ StopTest \/ HealthProbe \/ HealthMark
    \/ \E stable \in BOOLEAN : AfterExit(stable)

Next ==
    \/ \E p \in Procs : ChildExits(p)
    \/ LoopStart
    \/ Loop
    \/ \E c \in Callers : Terminate(c)
    \/ StopBegin
    \/ StopJoin

Spec == Init /\ [][Next]_vars

(* Both threads run; the 60 second deadline ends the startup polling; a    *)
(* killed process goes in the end; the binary does not stay unusable for   *)
(* ever.  Nothing makes a child exit or anybody call stop().               *)
Fairness ==
    /\ WF_vars(LoopStart)
    /\ WF_vars(Loop)
    /\ \A c \in Callers : WF_vars(Terminate(c))
    /\ WF_vars(StopJoin)
    /\ SF_vars(\E p \in Procs : Popen(p))
    /\ SF_vars(Goto("startup", "enter") /\ StartupTest)
    /\ \A p \in Procs : WF_vars(child[p] = "killed" /\ ChildExits(p))

FairSpec == Spec /\ Fairness

-----------------------------------------------------------------------------
(* Properties                                                              *)

Over == pc \in {"exited", "dead"}
InTerminate == \E c \in Callers : tpc[c] # "off"
Served == {p \in Procs : child[p] \in {"up", "termed"}}

(* There is never a second llama-server: the port, the GPU and the log     *)
(* belong to one child, whatever stop() and a crash do around a spawn.     *)
OneChild == \A p, q \in Procs : Alive(p) /\ Alive(q) => p = q

(* Shutdown leaves "no orphans" (ARCHITECTURE.md:342): when the loop is    *)
(* over and nobody is terminating, no child is left that was not at least  *)
(* sent SIGKILL, even when stop() looked for one just before the loop had  *)
(* recorded its Popen.                                                     *)
NoOrphan == Over /\ ~InTerminate => Served = {}

(* Supervision ends only on request: the races on _proc (a test for None,  *)
(* then a use) can end the loop thread with an AttributeError only while   *)
(* stop() is taking the child away.                                        *)
SupervisionLasts == Over => stopEvent

(* The n-th failure in a row waits for the n-th entry of the schedule, or  *)
(* for the last one, and a child that had been stable starts over          *)
(* (ARCHITECTURE.md:304-308); failed spawns count as failures.             *)
BackoffFollowsSchedule ==
    pc \in {"failed", "backoff"} => backoff = failures - 1

(* The threads together keep the promise of KeepAlive; a child that was    *)
(* sent SIGKILL counts as gone.                                            *)
Keep == INSTANCE KeepAlive WITH
    children <- Cardinality(Served),
    asked <- stopEvent,
    over <- Over /\ Served = {}

ImplementsKeepAlive == Keep!KeepSpec

(* A crash is repaired: unless stop is requested there is always a later   *)
(* moment with a child up (ARCHITECTURE.md:304).                           *)
CrashIsRepaired == []<>(stopEvent \/ \E p \in Procs : child[p] = "up")

(* stop() comes to its end and so does the loop thread, whatever they are  *)
(* doing when it is called and whether or not the child obeys SIGTERM.     *)
StopCompletes == stopEvent ~> (Over /\ stopPc = "idle" /\ Served = {})

(* _wait_for_exit says of a child that does not answer (192-194): "OR it   *)
(* becomes unhealthy for too long (in which case we restart it)".  A child *)
(* that is never found healthy again does not stay for ever.  The code     *)
(* only records the failed check (212-216).                                *)
UnhealthyIsRestarted ==
    \A p \in Procs : []<>(stopEvent \/ healthy \/ proc # p)
=============================================================================
