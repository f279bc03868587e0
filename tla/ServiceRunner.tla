---------------------------- MODULE ServiceRunner ----------------------------
(***************************************************************************)
(* service/runner.py and service/aipotluck_service.py: one service process *)
(* after the other.  start() brings up the HTTP server, the job queue, the *)
(* two supervisors and the watcher and queues the backfill; stop() takes   *)
(* them down again, called from a signal handler on the main thread.       *)
(*                                                                         *)
(* A handler runs between two steps of whatever the main thread is doing,  *)
(* another handler included: the main thread is a stack of frames.  Both   *)
(* supervisors have the same stop(), _terminate_process() and loop thread; *)
(* here the calls of stop() nest, which LlamaSupervisor leaves out.        *)
(***************************************************************************)
EXTENDS Integers, Sequences

CONSTANTS
    MaxSignals,  \* bound: signals sent to one process
    MaxStarts,   \* bound: processes the service manager starts
    MaxPosts     \* bound: POST requests taken up by one process

ASSUME RunnerAssumption ==
    /\ MaxSignals \in Nat
    /\ MaxStarts \in Nat
    /\ MaxPosts \in Nat

VARIABLES
    process,   \* the service process
    stack,     \* the main thread: start() and wait() below, stop() above
    handling,  \* are the signal handlers installed?
    config,    \* runtime_config, by its logged_in
    stopped,   \* _stopped
    server,    \* _server; "down" once it has been shut down
    handler,   \* the HTTP thread that serves a POST
    built,     \* the parts that exist and were started
    asked,     \* the parts whose stop event is set
    dropped,   \* the parts whose stop() set _thread or _log_file to None
    queue,     \* the kinds of the jobs that wait
    inHand,    \* the kind of the job that runs
    child,     \* child[s]: the last process supervisor s spawned
    named,     \* named[s]: does _proc name it?
    terminating, \* terminating[s]: _terminating
    loop,      \* loop[s]: where the loop thread is
    blind,     \* history: supervisors with a _terminate_process interrupted
               \* once it had decided that there is nothing to terminate
    signals, starts, posts \* counted for the bounds

Supervisors == {"llama", "newt"}
Order == <<"jobs", "watch", "llama", "newt">>  \* in which stop() stops them
Parts == {"jobs", "watch"} \cup Supervisors
Kinds == {"backfill", "post"}

lifeVars == <<process, starts, signals>>
flagVars == <<handling, config, stopped>>
httpVars == <<server, handler, posts>>
jobVars == <<queue, inHand>>
partVars == <<built, asked, dropped>>
superVars == <<child, named, terminating, loop>>
mainVars == <<lifeVars, stack, flagVars, httpVars, jobVars, partVars, superVars, blind>>

(* Where a frame is, for "stop" and what follows it of which part; locked: *)
(* it holds the lock its step takes for a moment.  From "enter" to "clear" *)
(* it is in _terminate_process: "nothing", "second" and "first" say what   *)
(* it read under the lock of _proc and _terminating.                       *)
StartPcs == {"load", "bind", "jobs", "serve", "gate", "llama", "newt", "watch",
             "missing", "handlers"}
TerminatePcs == {"enter", "nothing", "second", "first", "await", "term", "kill", "clear"}
StopPcs == {"test", "server", "close", "stop", "join", "drop", "set"} \cup TerminatePcs
Frame(at) == [at |-> at, of |-> "none", locked |-> FALSE]
PartFrame(at, p) == [at |-> at, of |-> p, locked |-> FALSE]
Frames == [at : StartPcs \cup {"wait"} \cup StopPcs, of : Parts \cup {"none"},
           locked : BOOLEAN]

(* killed: SIGKILL was sent.                                               *)
ChildStates == {"none", "up", "termed", "killed"}
LoopPcs == {"off", "test", "spawn", "record", "watch", "await", "term", "kill", "over"}

RunnerTypeOK ==
    /\ process \in {"none", "up", "clean", "error", "killed"}
    /\ stack \in Seq(Frames)
    /\ handling \in BOOLEAN
    /\ config \in {"none", "in", "out"}
    /\ stopped \in BOOLEAN
    /\ server \in {"none", "bound", "serving", "down"}
    /\ handler \in {"idle", "checking", "submitting"}
    /\ built \subseteq Parts
    /\ asked \in [Parts -> BOOLEAN]
    /\ dropped \subseteq Parts
    /\ queue \in Seq(Kinds)
    /\ inHand \in Kinds \cup {"none"}
    /\ child \in [Supervisors -> ChildStates]
    /\ named \in [Supervisors -> BOOLEAN]
    /\ terminating \in [Supervisors -> BOOLEAN]
    /\ loop \in [Supervisors -> LoopPcs]
    /\ blind \subseteq Supervisors
    /\ signals \in 0 .. MaxSignals
    /\ starts \in 0 .. MaxStarts
    /\ posts \in 0 .. MaxPosts

RunnerInit ==
    /\ process = "none"
    /\ starts = 0 /\ signals = 0
    /\ stack = <<>>
    /\ handling = FALSE /\ config = "none" /\ stopped = FALSE
    /\ server = "none" /\ handler = "idle" /\ posts = 0
    /\ queue = <<>> /\ inHand = "none"
    /\ built = {} /\ dropped = {} /\ blind = {}
    /\ asked = [p \in Parts |-> FALSE]
    /\ child = [s \in Supervisors |-> "none"]
    /\ named = [s \in Supervisors |-> FALSE]
    /\ terminating = [s \in Supervisors |-> FALSE]
    /\ loop = [s \in Supervisors |-> "off"]

-----------------------------------------------------------------------------
(* The process and its environment.                                        *)

(* Restart=always, or KeepAlive of launchd; both end what is left of the   *)
(* old process (its control group, its process group) first.  The new one  *)
(* begins with __init__.                                                   *)
StartProcess ==
    /\ process # "up"
    /\ starts < MaxStarts
    /\ process' = "up"
    /\ starts' = starts + 1 /\ signals' = 0
    /\ stack' = <<Frame("load")>>
    /\ handling' = FALSE /\ config' = "none" /\ stopped' = FALSE
    /\ server' = "none" /\ handler' = "idle" /\ posts' = 0
    /\ queue' = <<>> /\ inHand' = "none"
    /\ built' = {} /\ dropped' = {} /\ blind' = {}
    /\ asked' = [p \in Parts |-> FALSE]
    /\ child' = [s \in Supervisors |-> "none"]
    /\ named' = [s \in Supervisors |-> FALSE]
    /\ terminating' = [s \in Supervisors |-> FALSE]
    /\ loop' = [s \in Supervisors |-> "off"]

(* The end of the process: its threads go with it, child processes do not. *)
Die(how) ==
    /\ process' = how
    /\ stack' = <<>>
    /\ UNCHANGED <<starts, signals, flagVars, httpVars, jobVars, partVars,
                   superVars, blind>>

Top == stack[Len(stack)]
At(pcs) == process = "up" /\ Top.at \in pcs
Move(frame) == stack' = [stack EXCEPT ![Len(stack)] = frame]
Goto(from, to) == At({from}) /\ Move(Frame(to))
OnlyMain == UNCHANGED <<superVars, blind>>
OnlyStack == UNCHANGED <<lifeVars, flagVars, httpVars, jobVars, partVars>> /\ OnlyMain

(* An exception nobody catches passes through the frames below as well.    *)
Raise == Die("error")

(* handle_signal calls stop(); before it is installed the default applies. *)
Signal ==
    /\ process = "up" /\ handling
    /\ signals < MaxSignals
    /\ signals' = signals + 1
    /\ stack' = Append(stack, Frame("test"))
    /\ blind' = blind \cup {s \in Supervisors : Top.at = "nothing" /\ Top.of = s}
    /\ UNCHANGED <<process, starts, flagVars, httpVars, jobVars, partVars,
                   superVars>>

SignalKills == process = "up" /\ ~handling /\ Die("killed")

-----------------------------------------------------------------------------
(* start(), on the main thread.                                            *)

(* load_runtime_config: a file that is missing or broken counts as logged  *)
(* out.                                                                    *)
LoadConfig ==
    /\ Goto("load", "bind")
    /\ config' \in {"in", "out"}
    /\ UNCHANGED <<lifeVars, handling, stopped, httpVars, jobVars, partVars>>
    /\ OnlyMain

Bind ==
    /\ Goto("bind", "jobs")
    /\ server' = "bound"
    /\ UNCHANGED <<lifeVars, flagVars, handler, posts, jobVars, partVars>>
    /\ OnlyMain

(* The port is taken.                                                      *)
BindFails == At({"bind"}) /\ Raise

Serve ==
    /\ Goto("serve", "gate")
    /\ server' = "serving"
    /\ UNCHANGED <<lifeVars, flagVars, handler, posts, jobVars, partVars>>
    /\ OnlyMain

Gate == Goto("gate", IF config = "in" THEN "llama" ELSE "handlers") /\ OnlyStack

(* jobs.start() and the watcher, None when the presets path is missing.    *)
Build(part, next) ==
    /\ Goto(part, next)
    /\ \/ built' = built \cup {part}
       \/ part # "jobs" /\ UNCHANGED built
    /\ UNCHANGED <<lifeVars, flagVars, httpVars, jobVars, asked, dropped>>
    /\ OnlyMain

(* A supervisor, whose start() starts the loop thread; None when its       *)
(* section or its binary is missing.                                       *)
BuildSupervisor(s, next) ==
    /\ Goto(s, next)
    /\ \/ built' = built \cup {s} /\ loop' = [loop EXCEPT ![s] = "test"]
       \/ UNCHANGED <<built, loop>>
    /\ UNCHANGED <<lifeVars, flagVars, httpVars, jobVars, asked, dropped, child, named,
                   terminating, blind>>

(* KeyError: a section without its binary.                                 *)
BuildRaises == At(Supervisors) /\ Raise

(* models_missing_presets, to which a listing that fails means no model,   *)
(* and the submission of the backfill.                                     *)
BackfillMissing ==
    /\ Goto("missing", "handlers")
    /\ \/ UNCHANGED queue
       \/ queue' = Append(queue, "backfill")
    /\ UNCHANGED <<lifeVars, flagVars, httpVars, inHand, partVars>>
    /\ OnlyMain

(* configparser cannot parse the presets file, which other hands may have  *)
(* edited; known_model_ids does not catch that.                            *)
MissingRaises == At({"missing"}) /\ Raise

(* run_foreground: only now are the handlers installed; then wait(), whose *)
(* Event.wait takes the lock of the event and lets go of it to block.      *)
InstallHandlers ==
    /\ At({"handlers"})
    /\ handling' = TRUE
    /\ Move([Frame("wait") EXCEPT !.locked = TRUE])
    /\ UNCHANGED <<lifeVars, config, stopped, httpVars, jobVars, partVars>>
    /\ OnlyMain

WaitBlocks == At({"wait"}) /\ Top.locked /\ Move(Frame("wait")) /\ OnlyStack

WaitReturns == At({"wait"}) /\ ~Top.locked /\ stopped /\ Die("clean")

StartUp ==
    \/ LoadConfig \/ Bind \/ BindFails \/ Build("jobs", "serve") \/ Serve \/ Gate
    \/ BuildSupervisor("llama", "newt") \/ BuildSupervisor("newt", "watch")
    \/ BuildRaises \/ Build("watch", "missing") \/ BackfillMissing \/ MissingRaises
    \/ InstallHandlers \/ WaitBlocks \/ WaitReturns

-----------------------------------------------------------------------------
(* stop(), in a frame of a signal handler.                                 *)

(* Event.set, Event.wait, Queue.put and "with self._lock" take a plain     *)
(* lock, which the thread that holds it cannot take again: the _lock of a  *)
(* supervisor, the one of the server's event, of the stop event of a part, *)
(* and that of _stopped, which wait() and "set" take.                      *)
LockPcs == {"enter", "nothing", "clear"}
LockOf(f) == <<CASE f.at \in LockPcs -> "_lock"
                 [] f.at = "server" -> "server"
                 [] OTHER -> "event", f.of>>
Below == {stack[i] : i \in 1 .. Len(stack) - 1}
LockTaken == \E f \in Below : f.locked /\ LockOf(f) = LockOf(Top)
NeedsLock == Top.at \in {"server", "stop", "set"} \cup LockPcs /\ ~Top.locked

TakeLock ==
    /\ process = "up"
    /\ NeedsLock
    /\ ~LockTaken
    /\ Top.at = "server" => server # "none"
    /\ stack' = [stack EXCEPT ![Len(stack)].locked = TRUE]
    /\ OnlyStack

Return == stack' = SubSeq(stack, 1, Len(stack) - 1)

StopReturns == At({"test"}) /\ stopped /\ Return /\ OnlyStack

StopBegins ==
    /\ ~stopped
    /\ At({"test"})
    /\ Move(IF server = "none" THEN PartFrame("stop", "jobs") ELSE Frame("server"))
    /\ OnlyStack

(* shutdown() and the join of the thread, up to half a second.             *)
ShutDown ==
    /\ Goto("server", "close")
    /\ Top.locked
    /\ server' = "down"
    /\ UNCHANGED <<lifeVars, flagVars, handler, posts, jobVars, partVars>>
    /\ OnlyMain

CloseServer ==
    /\ server # "none"
    /\ At({"close"})
    /\ Move(PartFrame("stop", "jobs"))
    /\ server' = "none"
    /\ UNCHANGED <<lifeVars, flagVars, handler, posts, jobVars, partVars>>
    /\ OnlyMain

(* A handler on top of this one has set _server to None: AttributeError.   *)
CloseRaises == At({"server", "close"}) /\ server = "none" /\ Raise

After(p) ==
    LET later == {j \in 1 .. Len(Order) : Order[j] \in built /\
                                          \E i \in 1 .. j - 1 : Order[i] = p}
    IN  IF later = {} THEN Frame("set")
        ELSE PartFrame("stop", Order[CHOOSE j \in later : \A k \in later : j <= k])

(* What is joined or closed last, unless that is gone already.             *)
DropNext(p) == IF p \in dropped THEN After(p) ELSE PartFrame("drop", p)

(* Every part sets its event; a supervisor then ends its child, the others *)
(* have a thread to join.                                                  *)
StopPart(p) ==
    /\ At({"stop"}) /\ Top.of = p
    /\ Top.locked
    /\ Move(IF p \in Supervisors THEN PartFrame("enter", p) ELSE DropNext(p))
    /\ asked' = [asked EXCEPT ![p] = TRUE]
    /\ UNCHANGED <<lifeVars, flagVars, httpVars, jobVars, built, dropped>>
    /\ OnlyMain

(* The thread of jobs or of the watcher, whose join times out, or the log  *)
(* file of a supervisor is set to None.                                    *)
Drop(p) ==
    /\ At({"drop"}) /\ Top.of = p
    /\ Move(After(p))
    /\ dropped' = dropped \cup {p}
    /\ UNCHANGED <<lifeVars, flagVars, httpVars, jobVars, built, asked>>
    /\ OnlyMain

(* A handler on top did so between the test and the call: AttributeError.  *)
DropRaises(p) == At({"drop"}) /\ Top.of = p /\ p \in dropped /\ Raise

(* Mutation: stop() returns without saying so.                             *)
SetStoppedNot == At({"set"}) /\ Top.locked /\ Return /\ OnlyStack

SetStopped ==
    /\ At({"set"})
    /\ Top.locked
    /\ stopped' = TRUE
    /\ Return
    /\ UNCHANGED <<lifeVars, handling, config, httpVars, jobVars, partVars>>
    /\ OnlyMain

-----------------------------------------------------------------------------
(* _terminate_process of supervisor s, in a frame of stop().               *)

Alive(s) == child[s] # "none"
Terminated(s) == [child EXCEPT ![s] = IF @ = "up" THEN "termed" ELSE @]
Killed(s) == [child EXCEPT ![s] = "killed"]

In(s, pcs) == At(pcs) /\ Top.of = s
OnlyLife == UNCHANGED <<lifeVars, flagVars, httpVars, jobVars, partVars, loop, blind>>

(* _proc and _terminating are read, and the latter set.                    *)
Enter(s) ==
    /\ In(s, {"enter"})
    /\ Top.locked
    /\ Move(PartFrame(IF ~named[s] THEN "nothing"
                      ELSE IF terminating[s] THEN "second" ELSE "first", s))
    /\ terminating' = [terminating EXCEPT ![s] = TRUE]
    /\ UNCHANGED <<child, named>>
    /\ OnlyLife

(* The process it read has exited.                                         *)
FindsGone(s) ==
    /\ In(s, {"second", "first"})
    /\ ~Alive(s)
    /\ Move(PartFrame("nothing", s))
    /\ OnlyStack

(* Another caller is at it: only wait, for the exit or the timeout.        *)
Awaits(s) ==
    /\ Alive(s)
    /\ In(s, {"second"})
    /\ Move(PartFrame("await", s))
    /\ OnlyStack

Awaited(s) == In(s, {"await"}) /\ Move(PartFrame("join", s)) /\ OnlyStack

Terminates(s) ==
    /\ In(s, {"first"})
    /\ Alive(s)
    /\ Move(PartFrame("term", s))
    /\ child' = Terminated(s)
    /\ UNCHANGED <<named, terminating>>
    /\ OnlyLife

(* The grace period ran out.                                               *)
Kills(s) ==
    /\ In(s, {"term"})
    /\ Alive(s)
    /\ Move(PartFrame("kill", s))
    /\ child' = Killed(s)
    /\ UNCHANGED <<named, terminating>>
    /\ OnlyLife

(* The child is not gone five seconds after SIGKILL: TimeoutExpired.       *)
KillRaises(s) == In(s, {"kill"}) /\ Alive(s) /\ Raise

Exited(s) ==
    /\ In(s, {"term", "kill"})
    /\ ~Alive(s)
    /\ Move(PartFrame("clear", s))
    /\ OnlyStack

(* The last lines of both branches that take the lock again.               *)
Clears(s) ==
    /\ In(s, {"nothing", "clear"})
    /\ Top.locked
    /\ Move(PartFrame("join", s))
    /\ named' = [named EXCEPT ![s] = @ /\ Top.at = "nothing"]
    /\ terminating' = [terminating EXCEPT ![s] = FALSE]
    /\ UNCHANGED child
    /\ OnlyLife

(* Mutation: the loop is not waited for.                                   *)
JoinNothing(s) == In(s, {"join"}) /\ Move(DropNext(s)) /\ OnlyStack

(* The join outlasts what the loop thread has still to do, up to SIGKILL:  *)
(* five seconds of its wait and fifteen of its own _terminate_process.     *)
Join(s) ==
    /\ In(s, {"join"})
    /\ loop[s] \in {"kill", "over"}
    /\ Move(DropNext(s))
    /\ OnlyStack

Terminate(s) ==
    \/ Enter(s) \/ FindsGone(s) \/ Awaits(s) \/ Awaited(s) \/ Terminates(s)
    \/ Kills(s) \/ KillRaises(s) \/ Exited(s) \/ Clears(s)

Stop ==
    \/ TakeLock \/ StopReturns \/ StopBegins \/ ShutDown \/ CloseServer \/ CloseRaises
    \/ \E p \in Parts : StopPart(p) \/ Drop(p) \/ DropRaises(p)
    \/ \E s \in Supervisors : Terminate(s) \/ Join(s)
    \/ SetStopped

-----------------------------------------------------------------------------
(* The loop thread of supervisor s, as far as stop() depends on it.        *)

OnlyLoop == UNCHANGED <<lifeVars, stack, flagVars, httpVars, jobVars, partVars, blind>>
LoopGoes(s, from, to) ==
    /\ process = "up"
    /\ loop[s] \in from
    /\ loop' = [loop EXCEPT ![s] = to]
    /\ OnlyLoop

(* Frames hold the _lock of s only while they are interrupted or about to  *)
(* let go of it.                                                           *)
LockFree(s) == ~\E i \in 1 .. Len(stack) :
                  stack[i].locked /\ LockOf(stack[i]) = <<"_lock", s>>

LoopTest(s) ==
    /\ LoopGoes(s, {"test"}, IF asked[s] THEN "over" ELSE "spawn")
    /\ UNCHANGED <<child, named, terminating>>

LoopSpawns(s) ==
    /\ LoopGoes(s, {"spawn"}, "record")
    /\ child' = [child EXCEPT ![s] = "up"]
    /\ UNCHANGED <<named, terminating>>

(* The spawn failed; the wait that follows ends early on request.          *)
LoopSpawnFails(s) ==
    /\ LoopGoes(s, {"spawn"}, "test")
    /\ UNCHANGED <<child, named, terminating>>

LoopRecords(s) ==
    /\ LoopGoes(s, {"record"}, "watch")
    /\ LockFree(s)
    /\ named' = [named EXCEPT ![s] = TRUE]
    /\ UNCHANGED <<child, terminating>>

(* proc.wait() returned, or _proc is None by now.                          *)
LoopReaps(s) ==
    /\ LoopGoes(s, {"watch"}, "test")
    /\ ~Alive(s)
    /\ LockFree(s)
    /\ named' = [named EXCEPT ![s] = FALSE]
    /\ UNCHANGED <<child, terminating>>

(* Mutation: the loop leaves the termination to stop().                    *)
LoopLeaves(s) ==
    /\ LoopGoes(s, {"watch"}, "over")
    /\ asked[s]
    /\ UNCHANGED <<child, named, terminating>>

(* proc.wait() timed out and a stop was asked for: _terminate_process.     *)
(* Its seconds do not run out while the main thread is between adjacent    *)
(* statements; they may while that is interrupted.                         *)
LoopTerminates(s) ==
    /\ LoopGoes(s, {"watch"}, IF terminating[s] THEN "await" ELSE "term")
    /\ asked[s]
    /\ Alive(s)
    /\ ~In(s, {"nothing"})
    /\ LockFree(s)
    /\ terminating' = [terminating EXCEPT ![s] = TRUE]
    /\ child' = IF terminating[s] THEN child ELSE Terminated(s)
    /\ UNCHANGED named

LoopAwaited(s) == LoopGoes(s, {"await"}, "over") /\ UNCHANGED <<child, named, terminating>>

LoopKills(s) ==
    /\ Alive(s)
    /\ LoopGoes(s, {"term"}, "kill")
    /\ child' = Killed(s)
    /\ UNCHANGED <<named, terminating>>

(* TimeoutExpired ends the thread.                                         *)
LoopRaises(s) ==
    /\ Alive(s)
    /\ LoopGoes(s, {"kill"}, "over")
    /\ UNCHANGED <<child, named, terminating>>

LoopClears(s) ==
    /\ LoopGoes(s, {"term", "kill"}, "over")
    /\ ~Alive(s)
    /\ LockFree(s)
    /\ named' = [named EXCEPT ![s] = FALSE]
    /\ terminating' = [terminating EXCEPT ![s] = FALSE]
    /\ UNCHANGED child

Loop(s) ==
    \/ LoopTest(s) \/ LoopSpawns(s) \/ LoopSpawnFails(s) \/ LoopRecords(s)
    \/ LoopReaps(s) \/ LoopTerminates(s) \/ LoopAwaited(s) \/ LoopKills(s)
    \/ LoopRaises(s) \/ LoopClears(s)

(* A child exits by itself, or because of a signal.                        *)
Exits(s) ==
    /\ process = "up"
    /\ Alive(s)
    /\ child' = [child EXCEPT ![s] = "none"]
    /\ OnlyLoop
    /\ UNCHANGED <<named, terminating, loop>>

-----------------------------------------------------------------------------
(* The other threads.                                                      *)

(* do_POST: a request is read and checked, then its job is submitted, by a *)
(* thread that does not end with the server.                               *)
PostArrives ==
    /\ process = "up" /\ server = "serving"
    /\ handler = "idle" /\ handler' = "checking"
    /\ posts < MaxPosts
    /\ posts' = posts + 1
    /\ UNCHANGED <<lifeVars, stack, flagVars, server, jobVars, partVars>>
    /\ OnlyMain

(* 404, 400, no llama.cpp, or 409 for a model too large: no job.           *)
PostChecked ==
    /\ process = "up"
    /\ handler = "checking" /\ handler' \in {"idle", "submitting"}
    /\ UNCHANGED <<lifeVars, stack, flagVars, server, posts, jobVars, partVars>>
    /\ OnlyMain

PostSubmits ==
    /\ process = "up"
    /\ handler = "submitting" /\ handler' = "idle"
    /\ queue' = Append(queue, "post")
    /\ UNCHANGED <<lifeVars, stack, flagVars, server, posts, inHand, partVars>>
    /\ OnlyMain

(* The worker; it takes no job once it has been asked to stop.             *)
TakeJob ==
    /\ process = "up"
    /\ "jobs" \in built /\ ~asked["jobs"]
    /\ inHand = "none" /\ queue # <<>>
    /\ inHand' = Head(queue)
    /\ queue' = Tail(queue)
    /\ UNCHANGED <<lifeVars, stack, flagVars, httpVars, partVars>>
    /\ OnlyMain

JobEnds ==
    /\ process = "up"
    /\ inHand # "none" /\ inHand' = "none"
    /\ UNCHANGED <<lifeVars, stack, flagVars, httpVars, queue, partVars>>
    /\ OnlyMain

-----------------------------------------------------------------------------
Requests == PostArrives \/ PostChecked \/ PostSubmits \/ TakeJob \/ JobEnds

Main == StartProcess \/ Signal \/ SignalKills \/ StartUp \/ Stop
Supervision == \E s \in Supervisors : Loop(s) \/ Exits(s)
Threads == Requests \/ Supervision

RunnerNext == Main \/ Threads

RunnerSpec == RunnerInit /\ [][RunnerNext]_mainVars

(* The main thread and the loop threads run.  Requests and jobs are left   *)
(* out: no step of the other threads depends on what they change.          *)
RunnerFairness ==
    /\ WF_mainVars(StartUp \/ Stop)
    /\ \A s \in Supervisors : WF_mainVars(Loop(s))

RunnerFairSpec == RunnerInit /\ [][Main \/ Supervision]_mainVars /\ RunnerFairness

-----------------------------------------------------------------------------
(* Properties                                                              *)

Orphaned(s) == process = "clean" /\ child[s] \in {"up", "termed"}

(* After a clean exit no llama-server and no newt is left that was not at  *)
(* least sent SIGKILL, however many signals arrived and whichever of their *)
(* handlers got to the end first; unless a signal interrupted a            *)
(* _terminate_process that had found no process, with _terminating set.    *)
CleanExitLeavesNothing == \A s \in Supervisors : Orphaned(s) => s \in blind

(* "Clean shutdown terminates both processes with no orphans"              *)
(* (ARCHITECTURE.md:342), without that exception.                          *)
CleanExitLeavesNoOrphan == \A s \in Supervisors : ~Orphaned(s)

Stopping == Len(stack) > 1
CaughtOnOwnLock == process = "up" /\ NeedsLock /\ LockTaken

(* Once a handler runs, the process ends, unless the handler needs a lock  *)
(* that the code it interrupted holds; nothing else can keep it.           *)
StopFinishes == Stopping ~> (process # "up" \/ CaughtOnOwnLock)

(* handle_signal calls stop() because its operations are "both bounded",   *)
(* "safe to run directly on a Python signal handler since neither blocks   *)
(* on this same thread's own event loop" (aipotluck_service.py:74-77).     *)
StopIsSafeInHandler == Stopping ~> process # "up"

(* stop() is "idempotent; call from a signal handler" (runner.py:485): a   *)
(* second call never makes the first one fail while it closes the server.  *)
StopIsIdempotent == [][At({"close"}) => process' # "error"]_mainVars

(* models_missing_presets "Never raises: a listing failure means nothing   *)
(* to backfill, not a broken service" (runner.py:153).                     *)
MissingNeverRaises == [][At({"missing"}) => process' # "error"]_mainVars

(* The backfill is "queued behind nothing at startup, and ahead of any     *)
(* pull or benchmark that arrives while it runs" (runner.py:558-559).      *)
BackfillIsFirst ==
    \A i \in 1 .. Len(queue) : queue[i] = "backfill" => i = 1 /\ inHand # "post"
=============================================================================
