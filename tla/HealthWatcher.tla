---------------------------- MODULE HealthWatcher ----------------------------
(***************************************************************************)
(* service/model_health.py: the thread that reads the router's log and its *)
(* model list, clears the out-of-memory count of a model that completed a  *)
(* turn, shrinks the context of one that ran out of memory, and holds it   *)
(* back at the third time in a row.                                        *)
(*                                                                         *)
(* The counts and the verdicts live in model_health.json and the contexts  *)
(* in the presets file: both survive a restart of the service, nothing     *)
(* else does.  The operations of service/model_ops.py write both files too,*)
(* from the job thread or from an HTTP thread, between any two steps of    *)
(* the watcher.  One function of the stores is one step here.              *)
(***************************************************************************)
EXTENDS Integers, FiniteSets

CONSTANTS
    Models,           \* model ids
    Sizes,            \* the contexts model_sizing may choose
    MinCtxTokens,     \* min_ctx_tokens, MIN_SERVABLE_CTX_TOKENS in the code
    MaxOoms           \* MAX_OOMS_BEFORE_QUARANTINE, 3 in the code

ASSUME WatcherAssumption ==
    /\ Sizes \subseteq Nat \ {0}
    /\ MinCtxTokens \in Nat \ {0}
    /\ MaxOoms \in Nat \ {0}

(* No ctx-size in the presets file.                                        *)
NoCtx == 0

NoModel == "no model"

ASSUME NoModelAssumption == NoModel \notin Models

VARIABLES
    health,     \* model_health.json: health[m].count, health[m].held
    ctx,        \* presets file: ctx-size of m's section
    reported,   \* the router's status of m: "ok", or how its child died
    busy,       \* models with a request in progress
    lines,      \* what the unread part of the log says of each model
    oomLine,    \* does the unread part contain an OOM signature?
    pc,         \* where the watcher thread is in tick()
    served,     \* models_that_served(chunk)
    missed,     \* history: models with a late end of a turn in the chunk
    oomChunk,   \* does the chunk contain an OOM signature?
    seen,       \* the answer of GET /models
    todo,       \* models tick() still has to go through in its loop
    current,    \* model_id in _handle_failure
    newCtx,     \* new_ctx in _handle_failure
    count,      \* what record_oom returned
    cooling,    \* models reacted to less than REACT_COOLDOWN_SECONDS ago
    garbled,    \* can the presets file not be parsed?
    forgetting, \* models another thread has re-sized or removed, not yet forgotten
    reactions   \* history: OOMs counted since the last credited turn, up to MaxOoms

routerVars == <<reported, busy, lines, oomLine>>
chunkVars == <<served, missed, oomChunk>>
handlerVars == <<current, newCtx, count>>
vars == <<health, ctx, routerVars, pc, chunkVars, seen, todo, handlerVars,
          cooling, garbled, forgetting, reactions>>

Fresh == [count |-> 0, held |-> FALSE]
Records == [count : 0 .. MaxOoms, held : BOOLEAN]

(* killed: exit code 137 or -9, nothing in the log; aborted: an allocation *)
(* failure is in the log; broken: any other failure.                       *)
Deaths == {"killed", "aborted", "broken"}
Reports == {"ok"} \cup Deaths

(* asked: the line that maps the port to the model is in the unread part;  *)
(* served: and the end of a turn after it; late: the end of a turn without *)
(* such a line before it, of a model that has an OOM to its account.       *)
LineStates == {"nothing", "asked", "served", "late"}
NoLines == [m \in Models |-> "nothing"]

WatcherPcs == {"wait", "credit", "judge", "preset", "count", "hold", "shrink"}

(* The watcher never writes a context that cannot hold a conversation.     *)
Contexts == {NoCtx} \cup Sizes \cup {c \in Nat : c >= MinCtxTokens}

TypeOK ==
    /\ health \in [Models -> Records]
    /\ ctx \in [Models -> Contexts]
    /\ reported \in [Models -> Reports]
    /\ busy \subseteq Models
    /\ lines \in [Models -> LineStates]
    /\ oomLine \in BOOLEAN
    /\ pc \in WatcherPcs
    /\ served \subseteq Models
    /\ missed \subseteq Models
    /\ oomChunk \in BOOLEAN
    /\ seen \in [Models -> Reports]
    /\ todo \subseteq Models
    /\ current \in Models \cup {NoModel}
    /\ newCtx \in {NoCtx} \cup {c \in Nat : c >= MinCtxTokens}
    /\ count \in 0 .. MaxOoms
    /\ cooling \subseteq Models
    /\ garbled \in BOOLEAN
    /\ forgetting \subseteq Models
    /\ reactions \in [Models -> 0 .. MaxOoms]

AllOk == [m \in Models |-> "ok"]

Init ==
    /\ health = [m \in Models |-> Fresh]
    /\ ctx \in [Models -> Sizes]
    /\ reported = AllOk
    /\ busy = {}
    /\ lines = NoLines
    /\ oomLine = FALSE
    /\ pc = "wait"
    /\ served = {}
    /\ missed = {}
    /\ oomChunk = FALSE
    /\ seen = AllOk
    /\ todo = {}
    /\ current = NoModel
    /\ newCtx = NoCtx
    /\ count = 0
    /\ cooling = {}
    /\ garbled = FALSE
    /\ forgetting = {}
    /\ reactions = [m \in Models |-> 0]

-----------------------------------------------------------------------------
(* The router and its children (llama.cpp's, as the watcher sees them).    *)

(* The router logs which port it proxies the request to.                   *)
Ask(m) ==
    /\ m \notin busy
    /\ reported[m] = "ok"
    /\ busy' = busy \cup {m}
    /\ lines' = [lines EXCEPT ![m] = IF @ = "served" THEN @ ELSE "asked"]
    /\ UNCHANGED <<health, ctx, reported, oomLine, pc, chunkVars, seen, todo,
                   handlerVars, cooling, forgetting, garbled, reactions>>

(* The child logs the end of the turn, with its port.                      *)
TurnDone(m) ==
    /\ m \in busy
    /\ busy' = busy \ {m}
    /\ lines' = [lines EXCEPT ![m] = IF @ \in {"asked", "served"} THEN "served"
                                     ELSE IF health[m].count > 0 THEN "late" ELSE @]
    /\ UNCHANGED <<health, ctx, reported, oomLine, pc, chunkVars, seen, todo,
                   handlerVars, cooling, forgetting, garbled, reactions>>

(* A child dies, loading or serving.                                       *)
Dies(m, how) ==
    /\ reported[m] = "ok"
    /\ reported' = [reported EXCEPT ![m] = how]
    /\ busy' = busy \ {m}
    /\ oomLine' = (oomLine \/ how = "aborted")
    /\ UNCHANGED <<health, ctx, lines, pc, chunkVars, seen, todo, handlerVars,
                   cooling, forgetting, garbled, reactions>>

(* Some other process that writes to the same log ran out of memory.       *)
OtherOom ==
    /\ ~oomLine
    /\ oomLine' = TRUE
    /\ UNCHANGED <<health, ctx, reported, busy, lines, pc, chunkVars, seen, todo,
                   handlerVars, cooling, forgetting, garbled, reactions>>

(* "The router keeps reporting `failed' until something loads              *)
(* successfully" (model_health.py:245).                                    *)
Loads(m) ==
    /\ reported[m] # "ok"
    /\ reported' = [reported EXCEPT ![m] = "ok"]
    /\ UNCHANGED <<health, ctx, busy, lines, oomLine, pc, chunkVars, seen, todo,
                   handlerVars, cooling, forgetting, garbled, reactions>>

-----------------------------------------------------------------------------
(* The other writers: pull, remove and benchmark of service/model_ops.py.  *)

(* pull sizes the model (or fails to, and leaves the preset as it is).     *)
(* Whoever writes a section reads the whole file first (write_preset).     *)
PullSizes(m) ==
    /\ m \notin forgetting
    /\ \E c \in Sizes \cup {ctx[m]} :
          /\ ctx' = [ctx EXCEPT ![m] = c]
          /\ garbled => c = ctx[m]
    /\ forgetting' = forgetting \cup {m}
    /\ UNCHANGED <<health, routerVars, pc, chunkVars, seen, todo, handlerVars,
                   cooling, reactions, garbled>>

RemovesPreset(m) ==
    /\ m \notin forgetting
    /\ ~garbled
    /\ ctx' = [ctx EXCEPT ![m] = NoCtx]
    /\ forgetting' = forgetting \cup {m}
    /\ UNCHANGED <<health, routerVars, pc, chunkVars, seen, todo, handlerVars,
                   cooling, reactions, garbled>>

(* forget(), the last thing both do to the stores.                         *)
Forgets(m) ==
    /\ m \in forgetting
    /\ health' = [health EXCEPT ![m] = Fresh]
    /\ forgetting' = forgetting \ {m}
    /\ UNCHANGED <<ctx, routerVars, pc, chunkVars, seen, todo, handlerVars,
                   cooling, reactions, garbled>>

(* benchmark re-sizes the model, or holds it back when it does not load.   *)
Benchmarks(m) ==
    /\ m \notin forgetting
    /\ \/ /\ ~garbled
          /\ \E c \in Sizes : ctx' = [ctx EXCEPT ![m] = c]
          /\ UNCHANGED health
       \/ /\ health' = [health EXCEPT ![m].held = TRUE]
          /\ UNCHANGED ctx
    /\ UNCHANGED <<routerVars, pc, chunkVars, seen, todo, handlerVars, cooling,
                   forgetting, garbled, reactions>>

(* An edit by hand, or a write that was killed half-way, leaves an INI file *)
(* that configparser refuses, and another edit mends it.                   *)
Edited ==
    /\ garbled' = ~garbled
    /\ UNCHANGED <<health, ctx, routerVars, pc, chunkVars, seen, todo,
                   handlerVars, cooling, forgetting, reactions>>

-----------------------------------------------------------------------------
(* The watcher thread: tick(), every poll_interval.                        *)

(* _read_new_log, then models_that_served on what it returned.             *)
ReadLog ==
    /\ pc = "wait"
    /\ pc' = "credit"
    /\ served' = {m \in Models : lines[m] = "served"}
    /\ missed' = {m \in Models : lines[m] = "late"}
    /\ oomChunk' = oomLine
    /\ todo' = served'
    /\ lines' = NoLines
    /\ oomLine' = FALSE
    /\ UNCHANGED <<health, ctx, reported, busy, seen, handlerVars, cooling,
                   forgetting, garbled, reactions>>

(* The log could not be read: the chunk is empty, its lines come later.    *)
LogUnreadable ==
    /\ pc = "wait"
    /\ pc' = "credit"
    /\ UNCHANGED <<health, ctx, routerVars, chunkVars, seen, todo, handlerVars,
                   cooling, forgetting, garbled, reactions>>

(* Mutation: a turn clears the verdict with the count.                     *)
CreditReleases(m) ==
    /\ pc = "credit"
    /\ m \in todo
    /\ health' = [health EXCEPT ![m] = Fresh]
    /\ todo' = todo \ {m}
    /\ reactions' = [reactions EXCEPT ![m] = 0]
    /\ UNCHANGED <<ctx, routerVars, pc, chunkVars, seen, handlerVars, cooling,
                   forgetting, garbled>>

(* record_success: nothing to clear, or a verdict that is not cleared.     *)
Credit(m) ==
    /\ pc = "credit"
    /\ m \in todo
    /\ health' = [health EXCEPT ![m].count = IF health[m].held THEN @ ELSE 0]
    /\ todo' = todo \ {m}
    /\ reactions' = [reactions EXCEPT ![m] = 0]
    /\ UNCHANGED <<ctx, routerVars, pc, chunkVars, seen, handlerVars, cooling,
                   forgetting, garbled>>

(* Mutation: the failures are looked at before the successes.              *)
FetchFirst(answered) ==
    /\ pc = "credit"
    /\ pc' = "judge"
    /\ seen' = IF answered THEN reported ELSE AllOk
    /\ todo' = {m \in Models : seen'[m] # "ok"}
    /\ UNCHANGED <<health, ctx, routerVars, chunkVars, handlerVars, cooling,
                   forgetting, garbled, reactions>>

(* _fetch_models: the models the router says have failed, or [] when it    *)
(* does not answer.                                                        *)
Fetch(answered) ==
    /\ pc = "credit"
    /\ todo = {}
    /\ pc' = "judge"
    /\ seen' = IF answered THEN reported ELSE AllOk
    /\ todo' = {m \in Models : seen'[m] # "ok"}
    /\ UNCHANGED <<health, ctx, routerVars, chunkVars, handlerVars, cooling,
                   forgetting, garbled, reactions>>

(* classify_failure(log_chunk, exit_code)                                  *)
LooksLikeOom(m) == oomChunk \/ seen[m] = "killed"

(* The head of _handle_failure: the cooldown, the verdict, the kind.       *)
Judge(m) ==
    /\ pc = "judge"
    /\ m \in todo
    /\ todo' = todo \ {m}
    /\ LET reacts == m \notin cooling /\ ~health[m].held
       IN  /\ cooling' = IF reacts THEN cooling \cup {m} ELSE cooling
           /\ IF reacts /\ LooksLikeOom(m)
              THEN pc' = "preset" /\ current' = m
              ELSE UNCHANGED <<pc, current>>
    /\ UNCHANGED <<health, ctx, routerVars, chunkVars, seen, newCtx, count,
                   forgetting, garbled, reactions>>

(* shrunk_context, NoCtx standing for None.                                *)
ShrunkContext(c) ==
    IF c > MinCtxTokens /\ c \div 2 >= MinCtxTokens THEN c \div 2 ELSE NoCtx

(* A file that cannot be opened reads as one with no sections.             *)
ReadPreset ==
    /\ pc = "preset"
    /\ ~garbled
    /\ pc' = "count"
    /\ newCtx' \in {ShrunkContext(ctx[current]), NoCtx}
    /\ UNCHANGED <<health, ctx, routerVars, chunkVars, seen, todo, current, count,
                   cooling, forgetting, garbled, reactions>>

(* The count is not followed beyond MaxOoms.                               *)
OneMore(n) == IF n < MaxOoms THEN n + 1 ELSE n

(* Mutations: the comparison is off by one; an OOM without a remedy is not *)
(* counted.                                                                *)
RecordOomEarly ==
    /\ pc = "count"
    /\ count' = OneMore(health[current].count)
    /\ health' = [health EXCEPT ![current].count = count']
    /\ reactions' = [reactions EXCEPT ![current] = OneMore(@)]
    /\ pc' = IF count' >= MaxOoms - 1 THEN "hold"
             ELSE IF newCtx = NoCtx THEN "judge" ELSE "shrink"
    /\ UNCHANGED <<ctx, routerVars, chunkVars, seen, todo, current, newCtx,
                   cooling, forgetting, garbled>>
RecordOomWithRemedy ==
    /\ pc = "count"
    /\ IF newCtx = NoCtx
       THEN pc' = "judge" /\ UNCHANGED <<health, count, reactions>>
       ELSE /\ count' = OneMore(health[current].count)
            /\ health' = [health EXCEPT ![current].count = count']
            /\ reactions' = [reactions EXCEPT ![current] = OneMore(@)]
            /\ pc' = IF count' = MaxOoms THEN "hold" ELSE "shrink"
    /\ UNCHANGED <<ctx, routerVars, chunkVars, seen, todo, current, newCtx,
                   cooling, forgetting, garbled>>

(* record_oom, and what _handle_failure does about its result.             *)
RecordOom ==
    /\ pc = "count"
    /\ count' = OneMore(health[current].count)
    /\ health' = [health EXCEPT ![current].count = count']
    /\ reactions' = [reactions EXCEPT ![current] = OneMore(@)]
    /\ pc' = IF count' = MaxOoms THEN "hold"
             ELSE IF newCtx = NoCtx THEN "judge" ELSE "shrink"
    /\ UNCHANGED <<ctx, routerVars, chunkVars, seen, todo, current, newCtx,
                   cooling, forgetting, garbled>>

(* quarantine()                                                            *)
Hold ==
    /\ pc = "hold"
    /\ pc' = "judge"
    /\ health' = [health EXCEPT ![current].held = TRUE]
    /\ UNCHANGED <<ctx, routerVars, chunkVars, seen, todo, handlerVars, cooling,
                   forgetting, garbled, reactions>>

(* write_preset, which creates the section if there is none any more, then *)
(* write_tuning and the reload.                                            *)
Shrink ==
    /\ pc = "shrink"
    /\ ~garbled
    /\ pc' = "judge"
    /\ ctx' = [ctx EXCEPT ![current] = newCtx]
    /\ UNCHANGED <<health, routerVars, chunkVars, seen, todo, handlerVars,
                   cooling, forgetting, garbled, reactions>>

(* End of tick; the handler's locals are gone.                             *)
Idle ==
    /\ pc' = "wait"
    /\ served' = {}
    /\ missed' = {}
    /\ oomChunk' = FALSE
    /\ seen' = AllOk
    /\ todo' = {}
    /\ current' = NoModel
    /\ newCtx' = NoCtx
    /\ count' = 0

TickEnds ==
    /\ pc = "judge"
    /\ todo = {}
    /\ Idle
    /\ UNCHANGED <<health, ctx, routerVars, cooling, forgetting, garbled, reactions>>

(* A store could not be written, or the presets could not be parsed: the   *)
(* exception ends this tick, no more.  The cooldown of the model in hand   *)
(* is set by then.                                                         *)
TickRaises ==
    /\ \/ pc \in {"count", "hold", "shrink"}
       \/ pc = "credit" /\ todo # {}
       \/ pc = "preset" /\ garbled
    /\ Idle
    /\ UNCHANGED <<health, ctx, routerVars, cooling, forgetting, garbled, reactions>>

(* REACT_COOLDOWN_SECONDS have passed since the reaction to m.             *)
CooldownEnds(m) ==
    /\ m \in cooling
    /\ cooling' = cooling \ {m}
    /\ UNCHANGED <<health, ctx, routerVars, pc, chunkVars, seen, todo,
                   handlerVars, forgetting, garbled, reactions>>

(* The service restarts, and the router with it: only the files remain,    *)
(* and start() skips what is in the log.                                   *)
Restart ==
    /\ Idle
    /\ reported' = AllOk
    /\ busy' = {}
    /\ lines' = NoLines
    /\ oomLine' = FALSE
    /\ cooling' = {}
    /\ forgetting' = {}
    /\ UNCHANGED <<health, ctx, reactions, garbled>>

-----------------------------------------------------------------------------
Router(m) ==
    \/ Ask(m)
    \/ TurnDone(m)
    \/ \E how \in Deaths : Dies(m, how)
    \/ Loads(m)

Operations(m) == PullSizes(m) \/ RemovesPreset(m) \/ Forgets(m) \/ Benchmarks(m)

Tick ==
    \/ ReadLog
    \/ LogUnreadable
    \/ \E m \in Models : Credit(m)
    \/ \E answered \in BOOLEAN : Fetch(answered)
    \/ \E m \in Models : Judge(m)
    \/ ReadPreset
    \/ RecordOom
    \/ Hold
    \/ Shrink
    \/ TickEnds
    \/ TickRaises

Next ==
    \/ \E m \in Models : Router(m) \/ Operations(m) \/ CooldownEnds(m)
    \/ OtherOom
    \/ Edited
    \/ Tick
    \/ Restart

Spec == Init /\ [][Next]_vars

(* The thread runs and time passes; the router answers and the files can   *)
(* be written again and again.  Nothing is assumed of the models.          *)
Fairness ==
    /\ WF_vars(Tick)
    /\ SF_vars(Fetch(TRUE))
    /\ SF_vars(RecordOom)
    /\ SF_vars(Hold)
    /\ \A m \in Models : WF_vars(CooldownEnds(m))

FairSpec == Spec /\ Fairness

-----------------------------------------------------------------------------
(* Properties                                                              *)

(* "Three OOMs without a working turn" (model_health.py:205): the watcher  *)
(* holds a model back only after it has reacted to that many OOMs of it    *)
(* since the last turn it was credited with, whatever restarts, aborted    *)
(* ticks and re-pulls come in between.                                     *)
StreakBeforeHold == pc = "hold" => reactions[current] = MaxOoms

(* "A model that both served and failed within one interval has recovered" *)
(* (model_health.py:394): its count is 1 after such a tick, whatever it    *)
(* was before.                                                             *)
CreditBeforeBlame ==
    pc \in {"hold", "shrink"} /\ current \in served => count = 1

(* A model that is held back stays so until a re-pull or a removal (the    *)
(* user decides, model_health.py:417): neither a turn it completes nor a   *)
(* restart lets it go.                                                     *)
HeldUntilForgotten ==
    [][\A m \in Models : health[m].held /\ ~health'[m].held => m \in forgetting]_vars

(* No endless loop of failures "slips through the cracks"                  *)
(* (model_health.py:121): a model that is killed for memory and never      *)
(* loads again is held back in the end, if the presets file can be parsed. *)
EndlessFailureIsHeld ==
    \A m \in Models :
        <>[](reported[m] = "killed" /\ m \notin forgetting /\ ~garbled)
            => <>[](health[m].held)

(* The same of a presets file that stays as it is, whatever is in it: the  *)
(* limit is there to end "looping forever on a model that genuinely cannot *)
(* run here" (model_health.py:60).                                         *)
NoFailureIsEndless ==
    \A m \in Models :
        (/\ <>[](reported[m] = "killed" /\ m \notin forgetting)
         /\ <>[]garbled \/ <>[](~garbled))
            => <>[](health[m].held)

(* "A completed turn clears the OOM count" (model_health.py:203): when the *)
(* log has been read through the end of a turn that m completed after an   *)
(* OOM of it was counted, and the credits are given, m's count is 0.       *)
TurnClearsCount ==
    pc = "judge" => \A m \in missed : health[m].count = 0 \/ health[m].held
=============================================================================
