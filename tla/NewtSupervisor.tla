--------------------------- MODULE NewtSupervisor ---------------------------
(***************************************************************************)
(* service/newt_supervisor.py: the second supervised child, the tunnel     *)
(* client newt, and the tunnel status that GET /status reads back from the *)
(* two traces newt leaves, newt.log (appended to by every process) and the *)
(* health file (removed at each spawn, written once per connection).       *)
(*                                                                         *)
(* The loop is that of LlamaSupervisor without health polling; the lengths *)
(* of its delays are left out here.  newt itself is external: it retries   *)
(* for ever, logs an ERROR line at each failure and a success line, and    *)
(* writes the health file, when it connects (newt_supervisor.py:13-29).    *)
(***************************************************************************)
EXTENDS Integers, FiniteSets

CONSTANTS
    Procs,     \* Popen objects; reused once nothing refers to them
    MaxStops   \* bound: how many times stop() is called

NoProc == "None"

ASSUME NewtAssumption == NoProc \notin Procs /\ MaxStops \in Nat

VARIABLES
    child,       \* child[p]: the operating system's view of process p
    proc,        \* _proc
    stopEvent,   \* _stop_event
    terminating, \* _terminating
    running,     \* _info.running
    pc,          \* where the loop thread is
    waitOn,      \* the Popen the loop's proc.wait() was called on
    tpc,         \* tpc[c]: where caller c is in _terminate_process
    target,      \* target[c]: its local variable proc
    already,     \* already[c]: its local variable already_stopping
    stopPc,      \* where the main thread is in stop()
    stops,       \* how many stop() calls have begun
    link,        \* is the newt that is up connected?
    earned,      \* history: has the latest process connected since its spawn?
    lastSignal,  \* what the tail of newt.log says last: success, ERROR, nothing
    okFile,      \* does the health file say "ok"?
    rpc,         \* where an HTTP thread is in info()
    logState,    \* its local variable log_state
    answer       \* the latest tunnel_connected, "none" while it is computed

infoVars == <<running>>
loopVars == <<pc, waitOn>>
termVars == <<tpc, target, already>>
mainVars == <<stopPc, stops>>
superVars == <<proc, stopEvent, terminating, infoVars, loopVars, termVars, mainVars>>
traceVars == <<lastSignal, okFile>>
tunnelVars == <<link, earned, traceVars>>
readVars == <<rpc, logState, answer>>
vars == <<child, superVars, tunnelVars, readVars>>

Callers == {"stop", "loop"}
ChildStates == {"none", "up", "termed", "killed", "exited"}
Alive(p) == child[p] \in {"up", "termed", "killed"}
Signals == {"success", "error", "nothing"}
Verdicts == {"connected", "disconnected", "unknown"}

LoopPcs == {"idle", "test", "spawn", "record", "enter", "wait", "waiting",
            "reaped", "stopTest", "terminate", "after", "backoff", "exited",
            "dead"}
TermPcs == {"off", "enter", "decide", "await", "term", "kill"}

TypeOK ==
    /\ child \in [Procs -> ChildStates]
    /\ proc \in Procs \cup {NoProc}
    /\ stopEvent \in BOOLEAN
    /\ terminating \in BOOLEAN
    /\ running \in BOOLEAN
    /\ pc \in LoopPcs
    /\ waitOn \in Procs \cup {NoProc}
    /\ tpc \in [Callers -> TermPcs]
    /\ target \in [Callers -> Procs \cup {NoProc}]
    /\ already \in [Callers -> BOOLEAN]
    /\ stopPc \in {"idle", "terminate", "join"}
    /\ stops \in 0 .. MaxStops
    /\ link \in BOOLEAN
    /\ earned \in BOOLEAN
    /\ lastSignal \in Signals
    /\ okFile \in BOOLEAN
    /\ rpc \in {"log", "health"}
    /\ logState \in Verdicts
    /\ answer \in Verdicts \cup {"none"}

(* Both traces may be left over from an earlier run of the service.        *)
Init ==
    /\ child = [p \in Procs |-> "none"]
    /\ proc = NoProc
    /\ stopEvent = FALSE
    /\ terminating = FALSE
    /\ running = FALSE
    /\ pc = "idle"
    /\ waitOn = NoProc
    /\ tpc = [c \in Callers |-> "off"]
    /\ target = [c \in Callers |-> NoProc]
    /\ already = [c \in Callers |-> FALSE]
    /\ stopPc = "idle"
    /\ stops = 0
    /\ link = FALSE
    /\ earned = FALSE
    /\ lastSignal \in Signals
    /\ okFile \in BOOLEAN
    /\ rpc = "log"
    /\ logState = "unknown"
    /\ answer = "none"

-----------------------------------------------------------------------------
(* newt: exits, connects, loses the connection, retries.                   *)

ChildExits(p) ==
    /\ Alive(p)
    /\ child' = [child EXCEPT ![p] = "exited"]
    /\ link' = FALSE
    /\ UNCHANGED <<superVars, earned, traceVars, readVars>>

SomeoneUp == \E p \in Procs : Alive(p)

(* The success line; the health file follows a moment later.               *)
Connect ==
    /\ SomeoneUp
    /\ ~link
    /\ link' = TRUE
    /\ earned' = TRUE
    /\ lastSignal' = "success"
    /\ UNCHANGED <<child, superVars, okFile, readVars>>

WriteOk ==
    /\ link
    /\ ~okFile
    /\ okFile' = TRUE
    /\ UNCHANGED <<child, superVars, link, earned, lastSignal, readVars>>

(* The health file stays behind.                                           *)
LoseLink ==
    /\ link
    /\ link' = FALSE
    /\ UNCHANGED <<child, superVars, earned, traceVars, readVars>>

Retry ==
    /\ SomeoneUp
    /\ ~link
    /\ lastSignal' = "error"
    /\ UNCHANGED <<child, superVars, link, earned, okFile, readVars>>

(* A connected newt logs other things, and the success line leaves the     *)
(* last _LOG_TAIL_BYTES.                                                   *)
LogScrolls ==
    /\ link
    /\ lastSignal' = "nothing"
    /\ UNCHANGED <<child, superVars, link, earned, okFile, readVars>>

Newt == Connect \/ WriteOk \/ LoseLink \/ Retry \/ LogScrolls

-----------------------------------------------------------------------------
(* The loop thread: _run_loop and what it calls.                           *)

Goto(from, to) == pc = from /\ pc' = to

LoopStart ==
    /\ Goto("idle", "test")
    /\ UNCHANGED <<child, proc, stopEvent, terminating, infoVars, waitOn,
                   termVars, mainVars, tunnelVars, readVars>>

LoopTest ==
    /\ Goto("test", IF stopEvent THEN "exited" ELSE "spawn")
    /\ UNCHANGED <<child, proc, stopEvent, terminating, infoVars, waitOn,
                   termVars, mainVars, tunnelVars, readVars>>

(* Mutation: the removal of the health file is left to newt.               *)
PopenKeepsFile(p) ==
    /\ Goto("spawn", "record")
    /\ ~Alive(p)
    /\ p \notin {proc, target["stop"]}
    /\ child' = [child EXCEPT ![p] = "up"]
    /\ waitOn' = p
    /\ earned' = FALSE
    /\ UNCHANGED <<proc, stopEvent, terminating, infoVars, termVars, mainVars,
                   link, okFile, lastSignal, readVars>>

(* newt.log is opened for appending, the health file removed, and the      *)
(* process created; _proc does not name it yet.                            *)
Popen(p) ==
    /\ Goto("spawn", "record")
    /\ ~Alive(p)
    /\ p \notin {proc, target["stop"]}
    /\ child' = [child EXCEPT ![p] = "up"]
    /\ waitOn' = p
    /\ okFile' = FALSE
    /\ earned' = FALSE
    /\ UNCHANGED <<proc, stopEvent, terminating, infoVars, termVars, mainVars,
                   link, lastSignal, readVars>>

RecordSpawn ==
    /\ Goto("record", "enter")
    /\ proc' = waitOn
    /\ waitOn' = NoProc
    /\ running' = TRUE
    /\ UNCHANGED <<child, stopEvent, terminating, termVars, mainVars,
                   tunnelVars, readVars>>

(* The log cannot be opened, or, the health file already removed, the      *)
(* binary cannot be executed.                                              *)
SpawnFails ==
    /\ Goto("spawn", "backoff")
    /\ okFile' \in {okFile, FALSE}
    /\ UNCHANGED <<child, proc, stopEvent, terminating, infoVars, waitOn,
                   termVars, mainVars, link, earned, lastSignal, readVars>>

(* Mutation: the supervisor gives up.                                      *)
BackoffGivesUp ==
    /\ Goto("backoff", "exited")
    /\ UNCHANGED <<child, proc, stopEvent, terminating, infoVars, waitOn,
                   termVars, mainVars, tunnelVars, readVars>>

(* _stop_event.wait(delay), after a failed spawn or an exit.               *)
BackoffWait ==
    /\ Goto("backoff", IF stopEvent THEN "exited" ELSE "test")
    /\ UNCHANGED <<child, proc, stopEvent, terminating, infoVars, waitOn,
                   termVars, mainVars, tunnelVars, readVars>>

(* _wait_for_exit: the test for None, then a second read of _proc, which   *)
(* is an AttributeError, the end of the thread, when it is None by now.    *)
WaitEnter ==
    /\ Goto("enter", IF proc = NoProc THEN "after" ELSE "wait")
    /\ UNCHANGED <<child, proc, stopEvent, terminating, infoVars, waitOn,
                   termVars, mainVars, tunnelVars, readVars>>

WaitCall ==
    /\ Goto("wait", IF proc = NoProc THEN "dead" ELSE "waiting")
    /\ waitOn' = proc
    /\ UNCHANGED <<child, proc, stopEvent, terminating, infoVars, termVars,
                   mainVars, tunnelVars, readVars>>

WaitReturns ==
    /\ Goto("waiting", "reaped")
    /\ ~Alive(waitOn)
    /\ waitOn' = NoProc
    /\ UNCHANGED <<child, proc, stopEvent, terminating, infoVars, termVars,
                   mainVars, tunnelVars, readVars>>

(* As in LlamaSupervisor, five seconds do not run out while stop() is      *)
(* between two adjacent statements.                                        *)
WaitTimesOut ==
    /\ Goto("waiting", "stopTest")
    /\ tpc["stop"] # "decide"
    /\ Alive(waitOn)
    /\ waitOn' = NoProc
    /\ UNCHANGED <<child, proc, stopEvent, terminating, infoVars, termVars,
                   mainVars, tunnelVars, readVars>>

Reaped ==
    /\ Goto("reaped", "after")
    /\ proc' = NoProc
    /\ UNCHANGED <<child, stopEvent, terminating, infoVars, waitOn, termVars,
                   mainVars, tunnelVars, readVars>>

StopTest ==
    /\ Goto("stopTest", IF stopEvent THEN "terminate" ELSE "enter")
    /\ tpc' = [tpc EXCEPT !["loop"] = IF stopEvent THEN "enter" ELSE @]
    /\ UNCHANGED <<child, proc, stopEvent, terminating, infoVars, waitOn, target,
                   already, mainVars, tunnelVars, readVars>>

(* The child is gone: leave the loop, or record the exit and back off.     *)
AfterExit ==
    /\ Goto("after", IF stopEvent THEN "exited" ELSE "backoff")
    /\ running' = (running /\ stopEvent)
    /\ UNCHANGED <<child, proc, stopEvent, terminating, waitOn, termVars,
                   mainVars, tunnelVars, readVars>>

-----------------------------------------------------------------------------
(* _terminate_process, called by stop() and by the loop.                   *)

Return(c) ==
    /\ tpc' = [tpc EXCEPT ![c] = "off"]
    /\ target' = [target EXCEPT ![c] = NoProc]
    /\ already' = [already EXCEPT ![c] = FALSE]
    /\ IF c = "stop" THEN stopPc' = "join" /\ UNCHANGED pc
                     ELSE pc' = "after" /\ UNCHANGED stopPc

TermEnter(c) ==
    /\ tpc[c] = "enter"
    /\ tpc' = [tpc EXCEPT ![c] = "decide"]
    /\ target' = [target EXCEPT ![c] = proc]
    /\ already' = [already EXCEPT ![c] = terminating]
    /\ terminating' = TRUE
    /\ UNCHANGED <<child, proc, stopEvent, infoVars, loopVars, mainVars,
                   tunnelVars, readVars>>

Gone(c) == IF target[c] = NoProc THEN TRUE ELSE ~Alive(target[c])

TermNothing(c) ==
    /\ tpc[c] = "decide"
    /\ Gone(c)
    /\ running' = FALSE
    /\ terminating' = FALSE
    /\ Return(c)
    /\ UNCHANGED <<child, proc, stopEvent, waitOn, stops, tunnelVars, readVars>>

(* Another caller is at it: only wait, for the exit or the timeout.        *)
TermAwait(c) ==
    /\ tpc[c] = "decide"
    /\ ~Gone(c)
    /\ already[c]
    /\ tpc' = [tpc EXCEPT ![c] = "await"]
    /\ UNCHANGED <<child, proc, stopEvent, terminating, infoVars, loopVars,
                   target, already, mainVars, tunnelVars, readVars>>

TermAwaited(c) ==
    /\ tpc[c] = "await"
    /\ Return(c)
    /\ UNCHANGED <<child, proc, stopEvent, terminating, infoVars, waitOn, stops,
                   tunnelVars, readVars>>

TermSignal(c) ==
    /\ tpc[c] = "decide"
    /\ ~Gone(c)
    /\ ~already[c]
    /\ tpc' = [tpc EXCEPT ![c] = "term"]
    /\ child' = [child EXCEPT ![target[c]] = "termed"]
    /\ UNCHANGED <<proc, stopEvent, terminating, infoVars, loopVars, target,
                   already, mainVars, tunnelVars, readVars>>

(* The grace period ran out.                                               *)
TermKill(c) ==
    /\ tpc[c] = "term"
    /\ ~Gone(c)
    /\ tpc' = [tpc EXCEPT ![c] = "kill"]
    /\ child' = [child EXCEPT ![target[c]] = "killed"]
    /\ UNCHANGED <<proc, stopEvent, terminating, infoVars, loopVars, target,
                   already, mainVars, tunnelVars, readVars>>

(* Not gone five seconds after SIGKILL either: wait() raises.              *)
TermRaises(c) ==
    /\ tpc[c] = "kill"
    /\ ~Gone(c)
    /\ tpc' = [tpc EXCEPT ![c] = "off"]
    /\ target' = [target EXCEPT ![c] = NoProc]
    /\ already' = [already EXCEPT ![c] = FALSE]
    /\ IF c = "stop" THEN stopPc' = "idle" /\ UNCHANGED pc
                     ELSE pc' = "dead" /\ UNCHANGED stopPc
    /\ UNCHANGED <<child, proc, stopEvent, terminating, infoVars, waitOn, stops,
                   tunnelVars, readVars>>

TermClear(c) ==
    /\ tpc[c] \in {"term", "kill"}
    /\ Gone(c)
    /\ running' = FALSE
    /\ proc' = NoProc
    /\ terminating' = FALSE
    /\ Return(c)
    /\ UNCHANGED <<child, stopEvent, waitOn, stops, tunnelVars, readVars>>

-----------------------------------------------------------------------------
(* The main thread: stop().                                                *)

StopBegin ==
    /\ stopPc = "idle"
    /\ pc # "idle"
    /\ stops < MaxStops
    /\ stops' = stops + 1
    /\ stopEvent' = TRUE
    /\ stopPc' = "terminate"
    /\ tpc' = [tpc EXCEPT !["stop"] = "enter"]
    /\ UNCHANGED <<child, proc, terminating, infoVars, loopVars, target, already,
                   tunnelVars, readVars>>

(* The loop is over, or the join timed out.                                *)
StopJoin ==
    /\ stopPc = "join"
    /\ stopPc' = "idle"
    /\ UNCHANGED <<child, proc, stopEvent, terminating, infoVars, loopVars,
                   termVars, stops, tunnelVars, readVars>>

-----------------------------------------------------------------------------
(* tunnel_connected(), on an HTTP thread: the log, then the health file.   *)

(* The last line that says anything decides; no such line, no answer.      *)
Classify(signal) ==
    CASE signal = "success" -> "connected"
      [] signal = "error" -> "disconnected"
      [] signal = "nothing" -> "unknown"

(* Mutation: the log is only a fallback for a missing health file.         *)
ReadLogAsFallback ==
    /\ rpc = "log"
    /\ rpc' = "health"
    /\ logState' = Classify(lastSignal)
    /\ answer' = "none"
    /\ UNCHANGED <<child, superVars, tunnelVars>>

(* An ERROR line that comes last settles it.                               *)
ReadLog ==
    /\ rpc = "log"
    /\ logState' = Classify(lastSignal)
    /\ IF logState' = "disconnected"
       THEN answer' = "disconnected" /\ rpc' = "log"
       ELSE answer' = "none" /\ rpc' = "health"
    /\ UNCHANGED <<child, superVars, tunnelVars>>

(* Mutation: the health file is not looked at.                             *)
ReadHealthIgnored ==
    /\ rpc = "health"
    /\ rpc' = "log"
    /\ answer' = logState
    /\ UNCHANGED <<child, superVars, tunnelVars, logState>>

ReadHealth ==
    /\ rpc = "health"
    /\ rpc' = "log"
    /\ answer' = IF okFile THEN "connected" ELSE logState
    /\ UNCHANGED <<child, superVars, tunnelVars, logState>>

Read == ReadLog \/ ReadHealth

-----------------------------------------------------------------------------
Terminate(c) ==
    \/ TermEnter(c)
    \/ TermNothing(c)
    \/ TermAwait(c)
    \/ TermAwaited(c)
    \/ TermSignal(c)
    \/ TermKill(c)
    \/ TermRaises(c)
    \/ TermClear(c)

Spawn == (\E p \in Procs : Popen(p)) \/ SpawnFails

Loop ==
    \/ LoopTest \/ Spawn \/ RecordSpawn \/ BackoffWait
    \/ WaitEnter \/ WaitCall \/ WaitReturns \/ WaitTimesOut \/ Reaped
    \/ StopTest \/ AfterExit

Next ==
    \/ \E p \in Procs : ChildExits(p)
    \/ Newt
    \/ LoopStart
    \/ Loop
    \/ \E c \in Callers : Terminate(c)
    \/ StopBegin
    \/ StopJoin
    \/ Read

Spec == Init /\ [][Next]_vars

(* The threads run; a killed process goes in the end; the status is asked  *)
(* for again and again; a newt that stays disconnected logs it, and one    *)
(* that has connected writes its file.  Nothing makes it connect.          *)
Fairness ==
    /\ WF_vars(LoopStart)
    /\ WF_vars(Loop)
    /\ \A c \in Callers : WF_vars(Terminate(c))
    /\ WF_vars(StopJoin)
    /\ \A p \in Procs : WF_vars(child[p] = "killed" /\ ChildExits(p))
    /\ WF_vars(Read)
    /\ WF_vars(Retry)
    /\ WF_vars(WriteOk)

FairSpec == Spec /\ Fairness

-----------------------------------------------------------------------------
(* Properties                                                              *)

Over == pc \in {"exited", "dead"}
InTerminate == \E c \in Callers : tpc[c] # "off"
Served == {p \in Procs : child[p] \in {"up", "termed"}}

(* No tunnel client is left behind that was not at least sent SIGKILL:     *)
(* when the loop is over and nobody is terminating, none is being served.  *)
NoOrphan == Over /\ ~InTerminate => Served = {}

(* The loop and stop() together keep the promise of KeepAlive: one tunnel  *)
(* client at a time, and supervision that ends only on request.            *)
Keep == INSTANCE KeepAlive WITH
    children <- Cardinality(Served),
    asked <- stopEvent,
    over <- Over /\ Served = {}

ImplementsKeepAlive == Keep!KeepSpec

(* A health file that says "ok" while a newt runs was written by that very *)
(* process: a fresh one does not inherit it (newt_supervisor.py:239-242).  *)
HealthFileIsEarned == okFile /\ SomeoneUp => earned

(* A connection that is lost and stays lost under a newt that stays up is  *)
(* in the end no longer reported, though the health file keeps saying "ok" *)
(* (newt_supervisor.py:155-162).                                           *)
DropIsReported ==
    <>[](~link /\ \E p \in Procs : child[p] = "up") => <>[](answer # "connected")

(* A connection that lasts is reported for good in the end, even after its *)
(* success line has scrolled out of the tail of the log.                   *)
ConnectionIsReported == <>[]link => <>[](answer \in {"none", "connected"})

(* "it has to reflect newt's CURRENT state" (newt_supervisor.py:149-150),  *)
(* "a freshly (re)started process never inherits a leftover "ok" from      *)
(* before" (15-16): when from some moment on no newt ever connects, the    *)
(* status does not go on saying that the tunnel is connected.              *)
UnearnedIsNotReported == <>[](~link) => <>[](answer # "connected")
=============================================================================
