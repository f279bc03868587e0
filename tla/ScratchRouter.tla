---------------------------- MODULE ScratchRouter ----------------------------
(***************************************************************************)
(* Downloading and removing a model through a short-lived llama-server     *)
(* router (installer/cache_router.py, called by model_pull.pull_model and  *)
(* model_ops.delete_model).  A call takes a free port, starts a router on  *)
(* it, asks for the download, follows its events and stops the router,     *)
(* however the call ends.  The job worker of the service and the CLI make  *)
(* such calls at the same time, of the same cache.                         *)
(***************************************************************************)
EXTENDS Integers, Sequences

CONSTANTS
    Clients,   \* the processes that make calls; each one's router has its name
    Ports,     \* the ephemeral ports of 127.0.0.1
    Nobody,
    MaxCalls,  \* bound: calls begun
    MaxFaults, \* bound: routers that crash or hang
    MaxQueue   \* bound: events the router has sent and the call not yet read

ASSUME RouterAssumption ==
    /\ Nobody \notin Clients \cup Ports
    /\ MaxCalls \in Nat
    /\ MaxFaults \in Nat
    /\ MaxQueue \in Nat \ {0}

VARIABLES
    pc, op,    \* of each call
    result,    \* "ok", a CacheRouterError, or an exception of another type
    port,      \* the number _free_port resolved
    proc,      \* the process the call started
    loading,   \* loading[c]: is that router downloading the model?
    knows,     \* knows[c]: does its list of models have the model?
    fetched,   \* fetched[c]: has it downloaded the model, and not listed it yet?
    stale,     \* history: was the model removed since the router learned of it?
    thread,    \* the thread that feeds the queue (_stream_events)
    source,    \* source[c]: the router that thread is subscribed to
    queue,     \* of events; "end" is the None of the thread
    cached,    \* is the model in the cache?
    calls, faults, \* counted for the bounds
    deleted    \* history: was it removed since the router that told the call did?

callVars == <<pc, op, result, port>>
listVars == <<knows, fetched, stale>>
routerVars == <<proc, loading, listVars>>
streamVars == <<thread, source, queue>>
pullVars == <<callVars, routerVars, streamVars, cached, calls, faults, deleted>>

Alive == {"starting", "up", "hung", "dying"}
Terminal == {"finished", "failed", "end"}

PullTypeOK ==
    /\ pc \in [Clients -> {"idle", "spawn", "startup", "list", "connect",
                           "post", "events", "verify", "delete", "stop",
                           "wait", "kill"}]
    /\ op \in [Clients -> {"download", "delete"}]
    /\ result \in [Clients -> {"none", "ok", "CacheRouterError", "other"}]
    /\ port \in [Clients -> Ports \cup {Nobody}]
    /\ proc \in [Clients -> Alive \cup {"none", "exited"}]
    /\ loading \in [Clients -> BOOLEAN]
    /\ knows \in [Clients -> BOOLEAN]
    /\ fetched \in [Clients -> BOOLEAN]
    /\ stale \in [Clients -> BOOLEAN]
    /\ thread \in [Clients -> {"none", "starting", "open", "ended"}]
    /\ source \in [Clients -> Clients \cup {Nobody}]
    /\ queue \in [Clients -> Seq(Terminal \cup {"progress"})]
    /\ cached \in BOOLEAN
    /\ calls \in 0 .. MaxCalls
    /\ faults \in 0 .. MaxFaults
    /\ deleted \in [Clients -> BOOLEAN]

PullInit ==
    /\ pc = [c \in Clients |-> "idle"]
    /\ op = [c \in Clients |-> "download"]
    /\ result = [c \in Clients |-> "none"]
    /\ port = [c \in Clients |-> Nobody]
    /\ proc = [c \in Clients |-> "none"]
    /\ loading = [c \in Clients |-> FALSE]
    /\ knows = [c \in Clients |-> FALSE]
    /\ fetched = [c \in Clients |-> FALSE]
    /\ stale = [c \in Clients |-> FALSE]
    /\ thread = [c \in Clients |-> "none"]
    /\ source = [c \in Clients |-> Nobody]
    /\ queue = [c \in Clients |-> <<>>]
    /\ cached \in BOOLEAN
    /\ calls = 0
    /\ faults = 0
    /\ deleted = [c \in Clients |-> FALSE]

Bound(p) ==
    {s \in Clients : port[s] = p /\ proc[s] \in {"up", "hung", "dying"}}

(* The router that answers at base_url, whoever started it; a hung one     *)
(* accepts and never answers.                                              *)
Answers(c, s) == s \in Bound(port[c]) /\ proc[s] = "up"
Unanswered(c) == \A s \in Clients : ~ Answers(c, s)

Moves(c, from, to) == pc[c] = from /\ pc' = [pc EXCEPT ![c] = to]

(* The end of the block: whatever it ends with, `finally` stops the router. *)
Leave(c, from, r) ==
    /\ Moves(c, from, "stop")
    /\ result' = [result EXCEPT ![c] = r]
    /\ UNCHANGED <<op, port>>

-----------------------------------------------------------------------------
(* The router's process, and what it does by itself.                       *)

(* To every thread subscribed to s; a queue nobody will read is not kept.  *)
Sends(s, e) ==
    queue' = [c \in Clients |->
                 IF source[c] = s /\ pc[c] \in {"connect", "post", "events"}
                 THEN Append(queue[c], e) ELSE queue[c]]

(* s is no more: what it was downloading stops, and the threads subscribed *)
(* to it put None in their queues.                                         *)
Gone(s) ==
    /\ proc' = [proc EXCEPT ![s] = "exited"]
    /\ loading' = [loading EXCEPT ![s] = FALSE]
    /\ thread' = [c \in Clients |->
                     IF source[c] = s THEN "ended" ELSE thread[c]]
    /\ source' = [c \in Clients |-> IF source[c] = s THEN Nobody ELSE source[c]]
    /\ Sends(s, "end")
    /\ UNCHANGED listVars

(* It reads the cache as it starts, and only then; it cannot start on a    *)
(* port in use.                                                            *)
Binds(s) ==
    /\ proc[s] = "starting"
    /\ IF Bound(port[s]) = {}
       THEN /\ proc' = [proc EXCEPT ![s] = "up"]
            /\ knows' = [knows EXCEPT ![s] = cached]
            /\ fetched' = [fetched EXCEPT ![s] = FALSE]
            /\ stale' = [stale EXCEPT ![s] = FALSE]
       ELSE /\ proc' = [proc EXCEPT ![s] = "exited"]
            /\ UNCHANGED listVars
    /\ UNCHANGED <<loading, callVars, streamVars, cached, calls, faults,
                   deleted>>

(* Bytes of this model, or events of another one.                          *)
Progress(s) ==
    /\ proc[s] = "up"
    /\ loading[s]
    /\ \A c \in Clients : Len(queue[c]) < MaxQueue
    /\ Sends(s, "progress")
    /\ UNCHANGED <<callVars, routerVars, thread, source, cached, calls,
                   faults, deleted>>

(* A download ends.  A repo that does not exist "finishes" all the same.   *)
Ends(s, e, landed) ==
    /\ proc[s] = "up"
    /\ loading[s]
    /\ loading' = [loading EXCEPT ![s] = FALSE]
    /\ Sends(s, e)
    /\ cached' = (cached \/ landed)
    /\ fetched' = [fetched EXCEPT ![s] = @ \/ landed]
    /\ stale' = [stale EXCEPT ![s] = @ /\ ~ landed]
    /\ UNCHANGED <<callVars, proc, knows, thread, source, calls, faults,
                   deleted>>

Crashes(s) ==
    /\ proc[s] \in {"starting", "up", "hung"}
    /\ faults < MaxFaults
    /\ faults' = faults + 1
    /\ Gone(s)
    /\ UNCHANGED <<callVars, cached, calls, deleted>>

(* One that hangs before it has bound its port goes on starting.           *)
Hangs(s) ==
    /\ proc[s] = "up"
    /\ faults < MaxFaults
    /\ faults' = faults + 1
    /\ proc' = [proc EXCEPT ![s] = "hung"]
    /\ UNCHANGED <<callVars, loading, listVars, streamVars, cached, calls,
                   deleted>>

(* SIGTERM ends a router that is not hung, SIGKILL ends any.               *)
Dies(s) ==
    /\ \/ pc[s] = "wait" /\ proc[s] \in {"starting", "up"}
       \/ proc[s] = "dying"
    /\ Gone(s)
    /\ UNCHANGED <<callVars, cached, calls, faults, deleted>>

Router(s) ==
    \/ Binds(s) \/ Progress(s) \/ Crashes(s) \/ Hangs(s) \/ Dies(s)
    \/ Ends(s, "failed", FALSE)
    \/ \E landed \in BOOLEAN : Ends(s, "finished", landed)

-----------------------------------------------------------------------------
(* The call.                                                               *)

(* _free_port binds a socket to learn a number and closes it again: from   *)
(* here to the router's own bind nobody holds the port.                    *)
Begin(c, o, p) ==
    /\ Moves(c, "idle", "spawn")
    /\ proc[c] \in {"none", "exited"}
    /\ calls < MaxCalls
    /\ calls' = calls + 1
    /\ Bound(p) = {}
    /\ port' = [port EXCEPT ![c] = p]
    /\ op' = [op EXCEPT ![c] = o]
    /\ result' = [result EXCEPT ![c] = "none"]
    /\ thread' = [thread EXCEPT ![c] = "none"]
    /\ source' = [source EXCEPT ![c] = Nobody]
    /\ queue' = [queue EXCEPT ![c] = <<>>]
    /\ UNCHANGED <<routerVars, cached, faults, deleted>>

Spawn(c) ==
    /\ \/ /\ Moves(c, "spawn", "startup")
          /\ proc' = [proc EXCEPT ![c] = "starting"]
          /\ UNCHANGED result
       \/ /\ Moves(c, "spawn", "idle")
          /\ proc' = [proc EXCEPT ![c] = "none"]
          /\ result' = [result EXCEPT ![c] = "CacheRouterError"]
    /\ UNCHANGED <<op, port, loading, listVars, streamVars, cached, calls,
                   faults, deleted>>

quiet == <<routerVars, streamVars, cached, calls, faults, deleted>>

(* /health is asked before the process is polled: that something answers   *)
(* at the port is enough.                                                  *)
CameUp(c) ==
    /\ \E s \in Clients : Answers(c, s)
    /\ Moves(c, "startup", IF op[c] = "download" THEN "list" ELSE "delete")
    /\ UNCHANGED <<op, result, port, quiet>>

(* It exited, or startup_timeout is over.                                  *)
NotUp(c) ==
    /\ Unanswered(c)
    /\ Leave(c, "startup", "CacheRouterError")
    /\ UNCHANGED quiet

(* _model_ids at s: being asked, it folds the download it has finished in  *)
(* its list, and does not look at the cache again for any other model.     *)
Listed(c, s) ==
    /\ Answers(c, s)
    /\ knows' = [knows EXCEPT ![s] = @ \/ fetched[s]]
    /\ fetched' = [fetched EXCEPT ![s] = FALSE]
    /\ deleted' = [deleted EXCEPT ![c] = stale[s]]
    /\ UNCHANGED <<proc, loading, stale, cached, calls, faults>>

(* A router that dies with its answer half sent raises IncompleteRead,     *)
(* which is neither a URLError nor an OSError.                             *)
CutShort(c, from) ==
    /\ faults < MaxFaults
    /\ faults' = faults + 1
    /\ \E s \in Clients : Answers(c, s) /\ Gone(s)
    /\ Leave(c, from, "other")
    /\ UNCHANGED <<cached, calls, deleted>>

NoAnswer(c, from) ==
    /\ Unanswered(c)
    /\ Leave(c, from, "CacheRouterError")
    /\ UNCHANGED quiet

List(c) ==
    \/ \E s \in Clients :
          /\ Listed(c, s)
          /\ IF knows'[s]
             THEN Leave(c, "list", "ok") /\ UNCHANGED streamVars
             ELSE /\ Moves(c, "list", "connect")
                  /\ thread' = [thread EXCEPT ![c] = "starting"]
                  /\ UNCHANGED <<op, result, port, source, queue>>
    \/ CutShort(c, "list")
    \/ NoAnswer(c, "list")

(* The thread: it sets `connected` whether or not it could subscribe.      *)
Subscribe(c) ==
    /\ thread[c] = "starting"
    /\ \/ \E s \in Clients :
             /\ Answers(c, s)
             /\ thread' = [thread EXCEPT ![c] = "open"]
             /\ source' = [source EXCEPT ![c] = s]
             /\ UNCHANGED queue
       \/ /\ Unanswered(c)
          /\ thread' = [thread EXCEPT ![c] = "ended"]
          /\ queue' = [queue EXCEPT ![c] = Append(@, "end")]
          /\ UNCHANGED source
    /\ UNCHANGED <<callVars, routerVars, cached, calls, faults, deleted>>

(* Mutation: the download is asked for as soon as the thread is started.   *)
ConnectAtOnce(c) ==
    /\ Moves(c, "connect", "post")
    /\ UNCHANGED <<op, result, port, quiet>>

(* connected.wait                                                          *)
Connect(c) ==
    \/ /\ thread[c] # "starting"
       /\ Moves(c, "connect", "post")
       /\ UNCHANGED <<op, result, port, quiet>>
    \/ /\ thread[c] = "starting"
       /\ NoAnswer(c, "connect")

(* POST /models: the router takes it up or refuses it.                     *)
Post(c) ==
    \/ /\ \E s \in Clients :
             Answers(c, s) /\ loading' = [loading EXCEPT ![s] = TRUE]
       /\ Moves(c, "post", "events")
       /\ UNCHANGED <<op, result, port, proc, listVars, streamVars, cached,
                      calls, faults, deleted>>
    \/ Leave(c, "post", "CacheRouterError") /\ UNCHANGED quiet

(* Mutation: "finished" is taken as success.                               *)
TakeOnTrust(c) ==
    /\ pc[c] = "events"
    /\ queue[c] # <<>>
    /\ queue' = [queue EXCEPT ![c] = Tail(@)]
    /\ IF Head(queue[c]) = "progress"
       THEN UNCHANGED callVars
       ELSE Leave(c, "events", IF Head(queue[c]) = "finished"
                               THEN "ok" ELSE "CacheRouterError")
    /\ UNCHANGED <<routerVars, thread, source, cached, calls, faults, deleted>>

(* One turn of the loop: an event of another model, or of progress, is     *)
(* passed over.                                                            *)
Take(c) ==
    /\ queue[c] # <<>>
    /\ \/ /\ Head(queue[c]) = "progress"
          /\ pc[c] = "events"
          /\ queue' = [queue EXCEPT ![c] = Tail(@)]
          /\ UNCHANGED callVars
       \/ /\ Head(queue[c]) = "finished"
          /\ Moves(c, "events", "verify")
          /\ queue' = [queue EXCEPT ![c] = <<>>]
          /\ UNCHANGED <<op, result, port>>
       \/ /\ Head(queue[c]) \in {"failed", "end"}
          /\ Leave(c, "events", "CacheRouterError")
          /\ queue' = [queue EXCEPT ![c] = <<>>]
    /\ UNCHANGED <<routerVars, thread, source, cached, calls, faults, deleted>>

(* Mutation: the deadline is looked at only when there is no event.        *)
ExpireWhenQuiet(c) ==
    /\ queue[c] = <<>>
    /\ Leave(c, "events", "CacheRouterError")
    /\ UNCHANGED quiet

Expire(c) ==
    /\ Leave(c, "events", "CacheRouterError")
    /\ queue' = [queue EXCEPT ![c] = <<>>]
    /\ UNCHANGED <<routerVars, thread, source, cached, calls, faults, deleted>>

Verify(c) ==
    \/ /\ \E s \in Clients :
             /\ Listed(c, s)
             /\ Leave(c, "verify", IF knows'[s] THEN "ok" ELSE "CacheRouterError")
       /\ UNCHANGED streamVars
    \/ CutShort(c, "verify")
    \/ NoAnswer(c, "verify")

(* A router removes only what it has in its list, and it may refuse that   *)
(* too; it may be done before its answer is lost or comes too late.        *)
Delete(c) ==
    \/ /\ \E s \in Clients :
             /\ Answers(c, s)
             /\ knows[s]
             /\ knows' = [knows EXCEPT ![s] = FALSE]
       /\ cached' = FALSE
       /\ stale' = [s \in Clients |-> TRUE]
       /\ deleted' = [d \in Clients |-> TRUE]
       /\ \E r \in {"ok", "CacheRouterError"} : Leave(c, "delete", r)
       /\ UNCHANGED <<proc, loading, fetched, streamVars, calls, faults>>
    \/ Leave(c, "delete", "CacheRouterError") /\ UNCHANGED quiet

(* `finally`: terminate, 15 seconds, kill, 5 seconds.                      *)
Stop(c) ==
    /\ Moves(c, "stop", IF proc[c] = "exited" THEN "idle" ELSE "wait")
    /\ UNCHANGED <<op, result, port, quiet>>

Waited(c) ==
    /\ proc[c] = "exited"
    /\ pc[c] \in {"wait", "kill"}
    /\ pc' = [pc EXCEPT ![c] = "idle"]
    /\ UNCHANGED <<op, result, port, quiet>>

(* Mutation: a router that does not heed SIGTERM is left.                  *)
GiveUp(c) ==
    /\ proc[c] # "exited"
    /\ Moves(c, "wait", "idle")
    /\ UNCHANGED <<op, result, port, quiet>>

Kill(c) ==
    /\ proc[c] # "exited"
    /\ Moves(c, "wait", "kill")
    /\ proc' = [proc EXCEPT ![c] = "dying"]
    /\ UNCHANGED <<op, result, port, loading, listVars, streamVars, cached,
                   calls, faults, deleted>>

(* TimeoutExpired: not a CacheRouterError either.                          *)
NotReaped(c) ==
    /\ proc[c] # "exited"
    /\ Moves(c, "kill", "idle")
    /\ result' = [result EXCEPT ![c] = "other"]
    /\ UNCHANGED <<op, port, quiet>>

Step(c) ==
    \/ Spawn(c) \/ CameUp(c) \/ NotUp(c) \/ List(c) \/ Subscribe(c)
    \/ Connect(c) \/ Post(c) \/ Take(c) \/ Verify(c) \/ Delete(c)
    \/ Stop(c) \/ Waited(c) \/ Kill(c) \/ NotReaped(c)

PullNext ==
    \E c \in Clients :
        \/ Router(c)
        \/ Step(c)
        \/ Expire(c)
        \/ \E o \in {"download", "delete"}, p \in Ports : Begin(c, o, p)

PullSpec == PullInit /\ [][PullNext]_pullVars

(* Every wait of a call has a timeout, so the call goes on whatever the    *)
(* router does; nothing is assumed of the router.                          *)
PullFairSpec == PullSpec /\ \A c \in Clients : WF_pullVars(Step(c)) /\ WF_pullVars(Expire(c))

-----------------------------------------------------------------------------
(* When a call is over its router is gone, or has been sent a SIGKILL, on  *)
(* every path: a refusal, a timeout, a lost stream, a failed startup, a    *)
(* hung router (the finally of line 157).                                  *)
NoRouterIsLeft ==
    \A c \in Clients :
        pc[c] = "idle" => proc[c] \in {"none", "exited", "dying"}

(* "finished" is never taken as success on its own (lines 31-33; "never    *)
(* returns partial success", model_pull.py:49): a download that returned   *)
(* has the model in the cache, unless somebody removed it since the router *)
(* it asked, its own or another one's, read the cache or downloaded it.    *)
PullIsHonest ==
    \A c \in Clients :
        op[c] = "download" /\ result[c] = "ok" => cached \/ deleted[c]

(* "Subscribe before asking, so not even the first event can be missed"    *)
(* (line 257): while a call waits, its download goes on, or the end of it  *)
(* is in its queue; it never waits out the timeout for an event it missed. *)
EndIsNotMissed ==
    \A c \in Clients :
        pc[c] = "events" =>
            \/ \E s \in Bound(port[c]) : loading[s]
            \/ \E i \in 1 .. Len(queue[c]) : queue[c][i] \in Terminal

(* Every call comes to its end, with a router that hangs at any point, and *)
(* with one that streams progress for ever.                                *)
CallEnds == \A c \in Clients : pc[c] # "idle" ~> pc[c] = "idle"

(* model_pull.py:49: "Raises ModelPullError on any failure", which is made *)
(* of CacheRouterError and of nothing else.  The code lets the exception   *)
(* of an answer cut short, or of a process not reaped, through.            *)
FailuresHaveOneType == \A c \in Clients : result[c] # "other"

(* cache_router.py:126: the block has a router of its own "for the         *)
(* duration of the block".  The code takes any that answers at the port.   *)
RouterIsItsOwn ==
    \A c, s \in Clients :
        pc[c] \in {"list", "connect", "post", "events", "verify", "delete"}
            /\ Answers(c, s) => s = c

=============================================================================
