------------------------- MODULE HealthWatcher_proofs -------------------------
(***************************************************************************)
(* Proofs about HealthWatcher for any set of models, any sizes and any     *)
(* number of OOMs before a model is held back; and about ServiceRunner,    *)
(* the process it is a part of.                                            *)
(***************************************************************************)
EXTENDS HealthWatcher, ServiceRunner, SequenceTheorems, TLAPS

USE WatcherAssumption, NoModelAssumption
    DEF WatcherAssumption, NoModelAssumption, NoCtx

(* What halving does: the result is servable, or there is none.            *)
LEMMA ShrinkServable ==
    ASSUME NEW c \in Nat
    PROVE  /\ ShrunkContext(c) \in {NoCtx} \cup {k \in Nat : k >= MinCtxTokens}
           /\ ShrunkContext(c) # NoCtx => ShrunkContext(c) < c
  BY DEF ShrunkContext

LEMMA ContextsAreNumbers == Contexts \subseteq Nat /\ Sizes \subseteq Contexts
<1>1. ASSUME NEW c \in Contexts PROVE c \in Nat
  BY DEF Contexts
<1>2. ASSUME NEW c \in Sizes PROVE c \in Contexts
  BY DEF Contexts
<1> QED
  BY <1>1, <1>2

LEMMA OneMoreType ==
    ASSUME NEW n \in 0 .. MaxOoms
    PROVE  OneMore(n) \in 0 .. MaxOoms
  BY DEF OneMore

LEMMA IdleType ==
    ASSUME Idle
    PROVE  /\ pc' \in WatcherPcs
           /\ served' \subseteq Models /\ missed' \subseteq Models
           /\ oomChunk' \in BOOLEAN /\ seen' \in [Models -> Reports]
           /\ todo' \subseteq Models
           /\ current' \in Models \cup {NoModel}
           /\ newCtx' \in {NoCtx} \cup {c \in Nat : c >= MinCtxTokens}
           /\ count' \in 0 .. MaxOoms
<1>1. seen' \in [Models -> Reports]
  BY DEF Idle, AllOk, Reports
<1>2. /\ pc' \in WatcherPcs
      /\ served' \subseteq Models /\ missed' \subseteq Models /\ todo' \subseteq Models
      /\ oomChunk' \in BOOLEAN
      /\ current' \in Models \cup {NoModel}
  BY DEF Idle, WatcherPcs
<1>3. /\ newCtx' \in {NoCtx} \cup {c \in Nat : c >= MinCtxTokens}
      /\ count' \in 0 .. MaxOoms
  BY DEF Idle
<1> QED
  BY <1>1, <1>2, <1>3

(* A record stays a record when one of its fields is replaced.             *)
LEMMA RecordUpdate ==
    ASSUME NEW r \in Records, NEW n \in 0 .. MaxOoms, NEW b \in BOOLEAN
    PROVE  /\ [r EXCEPT !.count = n] \in Records
           /\ [r EXCEPT !.held = b] \in Records
           /\ r.count \in 0 .. MaxOoms /\ r.held \in BOOLEAN
           /\ Fresh \in Records
  BY DEF Records, Fresh

(* In the steps of one failure, current is a model.                        *)
Handling == pc \in {"preset", "count", "hold", "shrink"}
HandlesModel == Handling => current \in Models

LEMMA TypeStep == TypeOK /\ HandlesModel /\ [Next]_vars => TypeOK' /\ HandlesModel'
<1> SUFFICES ASSUME TypeOK, HandlesModel, [Next]_vars
             PROVE  TypeOK' /\ HandlesModel'
  OBVIOUS
<1> USE DEF TypeOK, HandlesModel, Handling, routerVars, chunkVars, handlerVars
<1>1. ASSUME NEW m \in Models, Ask(m) \/ TurnDone(m) PROVE TypeOK' /\ HandlesModel'
  BY <1>1 DEF Ask, TurnDone, LineStates
<1>2. ASSUME NEW m \in Models, NEW how \in Deaths, Dies(m, how) PROVE TypeOK' /\ HandlesModel'
  BY <1>2 DEF Dies, Reports
<1>3. ASSUME NEW m \in Models, Loads(m) PROVE TypeOK' /\ HandlesModel'
  BY <1>3 DEF Loads, Reports
<1>18. CASE OtherOom \/ Edited
  BY <1>18 DEF OtherOom, Edited
<1>4. ASSUME NEW m \in Models, PullSizes(m) \/ RemovesPreset(m)
      PROVE  TypeOK' /\ HandlesModel'
  BY <1>4 DEF PullSizes, RemovesPreset, Contexts
<1>5. ASSUME NEW m \in Models, Forgets(m) \/ Benchmarks(m)
      PROVE  TypeOK' /\ HandlesModel'
  <2>1. CASE Forgets(m)
    BY <2>1, RecordUpdate DEF Forgets
  <2>2. CASE Benchmarks(m)
    <3>1. [health[m] EXCEPT !.held = TRUE] \in Records
      BY RecordUpdate
    <3>2. ASSUME NEW c \in Sizes, ctx' = [ctx EXCEPT ![m] = c], UNCHANGED health
          PROVE  TypeOK' /\ HandlesModel'
      BY <2>2, <3>2, ContextsAreNumbers DEF Benchmarks
    <3>3. CASE health' = [health EXCEPT ![m].held = TRUE] /\ UNCHANGED ctx
      BY <2>2, <3>1, <3>3 DEF Benchmarks
    <3> QED
      BY <2>2, <3>2, <3>3 DEF Benchmarks
  <2> QED
    BY <1>5, <2>1, <2>2
<1>6. CASE ReadLog \/ LogUnreadable
  BY <1>6 DEF ReadLog, LogUnreadable, WatcherPcs, NoLines, LineStates
<1>7. ASSUME NEW m \in Models, Credit(m) PROVE TypeOK' /\ HandlesModel'
  BY <1>7 DEF Credit, Records
<1>8. ASSUME NEW answered \in BOOLEAN, Fetch(answered) PROVE TypeOK' /\ HandlesModel'
  BY <1>8 DEF Fetch, WatcherPcs, AllOk, Reports
<1>9. ASSUME NEW m \in Models, Judge(m) PROVE TypeOK' /\ HandlesModel'
  BY <1>9 DEF Judge, WatcherPcs
<1>10. CASE ReadPreset
  <2>1. current \in Models
    BY <1>10 DEF ReadPreset
  <2>2. ctx[current] \in Nat
    BY <2>1, ContextsAreNumbers
  <2> QED
    BY <1>10, <2>1, <2>2, ShrinkServable DEF ReadPreset, WatcherPcs
<1>11. CASE RecordOom
  <2>1. health[current].count \in 0 .. MaxOoms /\ reactions[current] \in 0 .. MaxOoms
    BY <1>11 DEF RecordOom, Records
  <2>2. /\ OneMore(health[current].count) \in 0 .. MaxOoms
        /\ OneMore(reactions[current]) \in 0 .. MaxOoms
    BY <2>1, OneMoreType
  <2>3. health' \in [Models -> Records] /\ reactions' \in [Models -> 0 .. MaxOoms]
    BY <1>11, <2>2 DEF RecordOom, Records
  <2>4. pc' \in WatcherPcs /\ count' \in 0 .. MaxOoms /\ current' \in Models
    BY <1>11, <2>2 DEF RecordOom, WatcherPcs
  <2> QED
    BY <1>11, <2>3, <2>4 DEF RecordOom
<1>12. CASE Hold
  <2>1. [health[current] EXCEPT !.held = TRUE] \in Records
    BY <1>12, RecordUpdate DEF Hold
  <2> QED
    BY <1>12, <2>1 DEF Hold, WatcherPcs
<1>13. CASE Shrink
  BY <1>13 DEF Shrink, Contexts, WatcherPcs
<1>14. CASE TickEnds \/ TickRaises
  <2>1. Idle
    BY <1>14 DEF TickEnds, TickRaises
  <2>2. pc' = "wait"
    BY <2>1 DEF Idle
  <2> QED
    BY <1>14, <2>1, <2>2, IdleType DEF TickEnds, TickRaises
<1>15. ASSUME NEW m \in Models, CooldownEnds(m) PROVE TypeOK' /\ HandlesModel'
  BY <1>15 DEF CooldownEnds
<1>16. CASE Restart
  <2>1. Idle /\ pc' = "wait"
    BY <1>16 DEF Restart, Idle
  <2> QED
    BY <1>16, <2>1, IdleType DEF Restart, AllOk, NoLines, Reports, LineStates
<1>17. CASE UNCHANGED vars
  BY <1>17 DEF vars
<1> QED
  BY <1>1, <1>2, <1>3, <1>4, <1>5, <1>6, <1>7, <1>8, <1>9, <1>10, <1>11, <1>12,
     <1>13, <1>14, <1>15, <1>16, <1>17, <1>18 DEF Next, Router, Operations, Tick

LEMMA TypeInvariant == Spec => [](TypeOK /\ HandlesModel)
<1>1. Init => TypeOK /\ HandlesModel
  <2> SUFFICES ASSUME Init PROVE TypeOK /\ HandlesModel
    OBVIOUS
  <2>1. health \in [Models -> Records]
    BY DEF Init, Records, Fresh
  <2>2. ctx \in [Models -> Contexts]
    BY DEF Init, Contexts
  <2>3. /\ reported \in [Models -> Reports] /\ seen \in [Models -> Reports]
        /\ lines \in [Models -> LineStates]
        /\ reactions \in [Models -> 0 .. MaxOoms]
    BY DEF Init, AllOk, Reports, NoLines, LineStates
  <2> QED
    <3>1. newCtx \in {NoCtx} \cup {c \in Nat : c >= MinCtxTokens} /\ count \in 0 .. MaxOoms
      BY DEF Init
    <3> QED
      BY <2>1, <2>2, <2>3, <3>1 DEF Init, TypeOK, HandlesModel, Handling, WatcherPcs
<1> QED
  BY <1>1, TypeStep, PTL DEF Spec

(* Every variable has its type; in particular the watcher never writes a   *)
(* context below the floor, whatever it found in the presets file.         *)
THEOREM TypeCorrect == Spec => []TypeOK
  BY TypeInvariant, PTL

-----------------------------------------------------------------------------
(* Why the count is a streak.  The count on disk never exceeds the         *)
(* reactions since the last credited turn, except for a model that is held *)
(* back already; the model in hand was not when it was judged, and stays   *)
(* within the bound even if another thread holds it back meanwhile.        *)
StreakInv ==
    /\ \A m \in Models : health[m].held \/ health[m].count <= reactions[m]
    /\ pc \in {"preset", "count"} => health[current].count <= reactions[current]
    /\ StreakBeforeHold

LEMMA StreakStep ==
    TypeOK /\ HandlesModel /\ StreakInv /\ [Next]_vars => StreakInv'
<1> SUFFICES ASSUME TypeOK, HandlesModel, StreakInv, [Next]_vars PROVE StreakInv'
  OBVIOUS
<1> USE DEF StreakInv, StreakBeforeHold, HandlesModel, Handling
<1>0. \A m \in Models : /\ health[m].count \in 0 .. MaxOoms
                        /\ reactions[m] \in 0 .. MaxOoms
                        /\ health[m] \in Records
  BY RecordUpdate DEF TypeOK
<1>1. CASE UNCHANGED <<health, reactions, pc, current>>
  BY <1>1
<1>2. CASE /\ pc' \in {"wait", "credit", "judge"}
           /\ UNCHANGED <<health, reactions>>
  BY <1>2
<1>3. ASSUME NEW m \in Models, Forgets(m) PROVE StreakInv'
  <2>1. \A n \in Models : health'[n] = health[n] \/ health'[n].count = 0
    BY <1>0, <1>3 DEF Forgets, Fresh, TypeOK
  <2> QED
    BY <1>0, <1>3, <2>1 DEF Forgets, handlerVars
<1>4. ASSUME NEW m \in Models, Benchmarks(m) PROVE StreakInv'
  <2>1. CASE UNCHANGED health
    BY <1>4, <2>1 DEF Benchmarks, handlerVars
  <2>2. CASE health' = [health EXCEPT ![m].held = TRUE]
    <3>1. \A n \in Models : /\ health'[n].count = health[n].count
                            /\ health[n].held => health'[n].held
      BY <1>0, <2>2 DEF TypeOK, Records
    <3> QED
      BY <1>4, <3>1 DEF Benchmarks, handlerVars
  <2> QED
    BY <1>4, <2>1, <2>2 DEF Benchmarks
<1>5. ASSUME NEW m \in Models, Credit(m) PROVE StreakInv'
  <2>1. \A n \in Models :
          /\ health'[n].held = health[n].held
          /\ n # m => health'[n].count = health[n].count /\ reactions'[n] = reactions[n]
    BY <1>0, <1>5 DEF Credit, TypeOK, Records
  <2>2. health'[m].held \/ (health'[m].count = 0 /\ reactions'[m] = 0)
    BY <1>0, <1>5 DEF Credit, TypeOK, Records
  <2> QED
    BY <1>5, <2>1, <2>2 DEF Credit
<1>6. ASSUME NEW m \in Models, Judge(m) PROVE StreakInv'
  <2>1. UNCHANGED <<health, reactions>>
    BY <1>6 DEF Judge
  <2>2. pc' = "preset" => current' = m /\ ~health[m].held
    BY <1>6 DEF Judge
  <2>3. pc' \in {"preset", "judge"}
    BY <1>6 DEF Judge
  <2> QED
    BY <2>1, <2>2, <2>3
<1>7. CASE ReadPreset
  BY <1>7 DEF ReadPreset
<1>8. CASE RecordOom
  <2>1. current \in Models /\ UNCHANGED current
    BY <1>8 DEF RecordOom
  <2>2. /\ health'[current].count = OneMore(health[current].count)
        /\ reactions'[current] = OneMore(reactions[current])
        /\ pc' \in {"hold", "shrink", "judge"}
        /\ pc' = "hold" => OneMore(health[current].count) = MaxOoms
    BY <1>0, <1>8, <2>1 DEF RecordOom, TypeOK, Records
  <2>3. \A n \in Models \ {current} : /\ health'[n] = health[n]
                                       /\ reactions'[n] = reactions[n]
    BY <1>8, <2>1 DEF RecordOom, TypeOK
  <2>4. /\ OneMore(health[current].count) <= OneMore(reactions[current])
        /\ OneMore(reactions[current]) \in 0 .. MaxOoms
    BY <1>0, <1>8, <2>1 DEF RecordOom, OneMore
  <2> QED
    BY <2>1, <2>2, <2>3, <2>4
<1>9. CASE Hold
  <2>1. \A n \in Models : /\ health'[n].count = health[n].count
                          /\ health[n].held => health'[n].held
    BY <1>0, <1>9 DEF Hold, TypeOK, Records
  <2> QED
    BY <1>9, <2>1 DEF Hold
<1>10. ASSUME NEW m \in Models, Router(m) \/ CooldownEnds(m) \/ PullSizes(m) \/ RemovesPreset(m)
       PROVE  UNCHANGED <<health, reactions, pc, current>>
  BY <1>10 DEF Router, Ask, TurnDone, Dies, Loads, CooldownEnds, PullSizes,
               RemovesPreset, chunkVars, handlerVars
<1>11. CASE OtherOom \/ Edited \/ UNCHANGED vars
  BY <1>1, <1>11 DEF OtherOom, Edited, vars, handlerVars
<1>12. CASE \/ ReadLog \/ LogUnreadable \/ Shrink \/ TickEnds \/ TickRaises \/ Restart
            \/ \E answered \in BOOLEAN : Fetch(answered)
  BY <1>2, <1>12 DEF ReadLog, LogUnreadable, Shrink, TickEnds, TickRaises, Restart,
                     Fetch, Idle
<1> QED
  BY <1>1, <1>3, <1>4, <1>5, <1>6, <1>7, <1>8, <1>9, <1>10, <1>11, <1>12
     DEF Next, Operations, Tick

(* "Three OOMs without a working turn": the watcher holds a model back     *)
(* only when it has reacted to MaxOoms of its OOMs since the last turn it  *)
(* credited, through any restarts, failed writes and operations between.   *)
THEOREM HeldAfterStreakOnly == Spec => []StreakBeforeHold
<1>1. Init => StreakInv
  BY DEF Init, StreakInv, StreakBeforeHold, Fresh
<1>2. StreakInv => StreakBeforeHold
  BY DEF StreakInv
<1> QED
  BY <1>1, <1>2, StreakStep, TypeInvariant, PTL DEF Spec

-----------------------------------------------------------------------------
(* Only a re-pull or a removal lets a model go that is held back.          *)
THEOREM VerdictStands == Spec => HeldUntilForgotten
<1> DEFINE Stands == \A m \in Models :
              health[m].held /\ ~health'[m].held => m \in forgetting
<1>1. TypeOK /\ HandlesModel /\ [Next]_vars => [Stands]_vars
  <2> SUFFICES ASSUME TypeOK, HandlesModel, Next, NEW m \in Models,
                      health[m].held, ~health'[m].held
               PROVE  m \in forgetting
    OBVIOUS
  <2>0. health \in [Models -> Records] /\ \A n \in Models : health[n] \in Records
    BY DEF TypeOK
  <2>1. CASE UNCHANGED health
    BY <2>1
  <2>2. ASSUME NEW n \in Models, Forgets(n) PROVE m \in forgetting
    BY <2>0, <2>2 DEF Forgets
  <2>3. ASSUME NEW n \in Models, Benchmarks(n) PROVE FALSE
    BY <2>0, <2>3 DEF Benchmarks, Records
  <2>4. ASSUME NEW n \in Models, Credit(n) PROVE FALSE
    BY <2>0, <2>4 DEF Credit, Records
  <2>5. CASE RecordOom
    BY <2>0, <2>5 DEF RecordOom, Records
  <2>6. CASE Hold
    BY <2>0, <2>6 DEF Hold, Records
  <2>7. ASSUME NEW n \in Models,
               Router(n) \/ CooldownEnds(n) \/ PullSizes(n) \/ RemovesPreset(n) \/ Judge(n)
        PROVE  UNCHANGED health
    BY <2>7 DEF Router, Ask, TurnDone, Dies, Loads, CooldownEnds, PullSizes,
                RemovesPreset, Judge
  <2>8. CASE \/ OtherOom \/ Edited \/ ReadLog \/ LogUnreadable \/ ReadPreset \/ Shrink
             \/ TickEnds \/ TickRaises \/ Restart
             \/ \E answered \in BOOLEAN : Fetch(answered)
    BY <2>1, <2>8 DEF OtherOom, Edited, ReadLog, LogUnreadable, ReadPreset, Shrink, TickEnds,
                      TickRaises, Restart, Fetch
  <2> QED
    BY <2>1, <2>2, <2>3, <2>4, <2>5, <2>6, <2>7, <2>8 DEF Next, Operations, Tick
<1> QED
  BY <1>1, TypeInvariant, PTL DEF Spec, HeldUntilForgotten

-----------------------------------------------------------------------------
(* The credits come first.  Once they are given, every model that served   *)
(* in the chunk has a count of 0 or is held back, until it is judged; and  *)
(* the model being judged is no longer among those still to be looked at.  *)
Clean(m) == health[m].count = 0 \/ health[m].held

CreditInv ==
    /\ pc = "wait" => served = {} /\ todo = {}
    /\ pc = "credit" => \A m \in served : m \in todo \/ Clean(m)
    /\ pc \notin {"wait", "credit"} => \A m \in served \cap todo : Clean(m)
    /\ Handling => current \notin todo
    /\ pc \in {"preset", "count"} /\ current \in served => health[current].count = 0
    /\ CreditBeforeBlame

LEMMA CreditStep ==
    TypeOK /\ HandlesModel /\ CreditInv /\ [Next]_vars => CreditInv'
<1> SUFFICES ASSUME TypeOK, HandlesModel, CreditInv, [Next]_vars PROVE CreditInv'
  OBVIOUS
<1> USE DEF CreditInv, CreditBeforeBlame, Clean, HandlesModel, Handling
<1>0. /\ \A m \in Models : health[m] \in Records /\ health[m].count \in 0 .. MaxOoms
      /\ served \subseteq Models /\ todo \subseteq Models
  BY RecordUpdate DEF TypeOK
<1>1. ASSUME UNCHANGED <<pc, served, todo, current, count>>,
             \A m \in Models : \/ health'[m] = health[m]
                               \/ health'[m].count = 0
                               \/ /\ health'[m].held
                                  /\ health'[m].count = health[m].count
      PROVE  CreditInv'
  <2>1. \A m \in Models : Clean(m) => Clean(m)'
    BY <1>1
  <2>2. \A m \in Models : health[m].count = 0 => health'[m].count = 0
    BY <1>1
  <2> HIDE DEF Clean
  <2> QED
    BY <1>0, <1>1, <2>1, <2>2
<1>2. ASSUME NEW m \in Models, Router(m) \/ CooldownEnds(m) \/ PullSizes(m) \/ RemovesPreset(m)
      PROVE  UNCHANGED <<health, pc, served, todo, current, count>>
  BY <1>2 DEF Router, Ask, TurnDone, Dies, Loads, CooldownEnds, PullSizes,
              RemovesPreset, chunkVars, handlerVars
<1>3. ASSUME NEW m \in Models, Forgets(m) PROVE CreditInv'
  <2>1. \A n \in Models : health'[n] = health[n] \/ health'[n].count = 0
    BY <1>0, <1>3 DEF Forgets, Fresh, TypeOK
  <2> QED
    BY <1>1, <1>3, <2>1 DEF Forgets, chunkVars, handlerVars
<1>4. ASSUME NEW m \in Models, Benchmarks(m) PROVE CreditInv'
  <2>1. \A n \in Models : \/ health'[n] = health[n]
                          \/ health'[n].held /\ health'[n].count = health[n].count
    BY <1>0, <1>4 DEF Benchmarks, TypeOK, Records
  <2> QED
    BY <1>1, <1>4, <2>1 DEF Benchmarks, chunkVars, handlerVars
<1>5. CASE ReadLog \/ LogUnreadable
  BY <1>5 DEF ReadLog, LogUnreadable, chunkVars, handlerVars
<1>6. ASSUME NEW m \in Models, Credit(m) PROVE CreditInv'
  <2>1. \A n \in Models : Clean(n) \/ n = m => Clean(n)'
    BY <1>0, <1>6 DEF Credit, TypeOK, Records
  <2>2. /\ pc = "credit" /\ pc' = "credit" /\ todo' = todo \ {m}
        /\ served' = served
    BY <1>6 DEF Credit, chunkVars
  <2> HIDE DEF Clean
  <2> QED
    BY <1>0, <2>1, <2>2
<1>7. ASSUME NEW answered \in BOOLEAN, Fetch(answered) PROVE CreditInv'
  BY <1>7 DEF Fetch, chunkVars
<1>8. ASSUME NEW m \in Models, Judge(m) PROVE CreditInv'
  <2>1. /\ pc = "judge" /\ m \in todo /\ todo' = todo \ {m}
        /\ UNCHANGED <<health, served>>
    BY <1>8 DEF Judge, chunkVars
  <2>2. \/ pc' = "judge"
        \/ pc' = "preset" /\ current' = m /\ ~health[m].held
    BY <1>8 DEF Judge
  <2> QED
    BY <1>0, <2>1, <2>2
<1>9. CASE ReadPreset
  BY <1>9 DEF ReadPreset, chunkVars
<1>10. CASE RecordOom
  <2>1. /\ pc = "count" /\ current \in Models
        /\ UNCHANGED <<current, served, todo>>
        /\ pc' \in {"hold", "shrink", "judge"}
        /\ count' = OneMore(health[current].count)
    BY <1>10 DEF RecordOom, chunkVars
  <2>2. \A n \in Models \ {current} : health'[n] = health[n]
    BY <1>10 DEF RecordOom, TypeOK
  <2>3. current \in served => count' = 1
    BY <2>1 DEF OneMore
  <2> QED
    BY <1>0, <2>1, <2>2, <2>3
<1>11. CASE Hold
  <2>1. \A n \in Models : Clean(n) => Clean(n)'
    BY <1>0, <1>11 DEF Hold, TypeOK, Records
  <2>2. pc = "hold" /\ pc' = "judge" /\ UNCHANGED <<served, todo>>
    BY <1>11 DEF Hold, chunkVars
  <2> HIDE DEF Clean
  <2> QED
    BY <1>0, <2>1, <2>2
<1>12. CASE Shrink
  BY <1>12 DEF Shrink, chunkVars
<1>13. CASE TickEnds \/ TickRaises \/ Restart
  BY <1>13 DEF TickEnds, TickRaises, Restart, Idle
<1>14. CASE OtherOom \/ Edited \/ UNCHANGED vars
  BY <1>1, <1>14 DEF OtherOom, Edited, vars, chunkVars, handlerVars
<1> QED
  BY <1>1, <1>2, <1>3, <1>4, <1>5, <1>6, <1>7, <1>8, <1>9, <1>10, <1>11, <1>12,
     <1>13, <1>14 DEF Next, Operations, Tick

(* A model that served and failed within one interval starts from 1, for   *)
(* any number of models, whatever another thread does to its record while  *)
(* the tick is under way.                                                  *)
THEOREM CreditComesFirst == Spec => []CreditBeforeBlame
<1>1. Init => CreditInv
  BY DEF Init, CreditInv, CreditBeforeBlame, Handling
<1>2. CreditInv => CreditBeforeBlame
  BY DEF CreditInv
<1> QED
  BY <1>1, <1>2, CreditStep, TypeInvariant, PTL DEF Spec

-----------------------------------------------------------------------------
(***************************************************************************)
(* The watcher is one of the parts that the service process starts and     *)
(* stops: proofs about ServiceRunner for any number of signals, requests   *)
(* and processes.                                                          *)
(***************************************************************************)
USE RunnerAssumption DEF RunnerAssumption

(* The frames, counted from the bottom.                                    *)
Depth == Len(stack)
Standing == {stack[i] : i \in 1 .. Depth}
InFrame(s, pcs) == \E f \in Standing : f.of = s /\ f.at \in pcs

(* The main thread is in start(), with no handler installed, or in wait()  *)
(* with the frames of stop() above.                                        *)
StackInv ==
    /\ process # "up" => stack = <<>>
    /\ process = "up" =>
          /\ stack # <<>>
          /\ stack[1].at \in (IF handling THEN {"wait"} ELSE StartPcs)
          /\ \A i \in 2 .. Depth : stack[i].at \in StopPcs
          /\ ~handling => Depth = 1 /\ ~stopped

Served(s) == child[s] \in {"up", "termed"}
Ended(s) == s \notin built \/ loop[s] \in {"kill", "over"}

(* A frame of stop() that is past the join of supervisor s.                *)
Earlier(s, p) == \E i, j \in 1 .. Len(Order) : i < j /\ Order[i] = s /\ Order[j] = p
Past(f, s) == f.at = "set" \/ (f.at = "drop" /\ f.of = s) \/ Earlier(s, f.of)

(* A loop that has no process yet, or none any more, has none recorded;    *)
(* only who was asked to stop terminates; and once a frame saw a process,  *)
(* the loop spawns no other.                                               *)
LoopInv(s) ==
    /\ s \notin built => loop[s] = "off"
    /\ named[s] => loop[s] \notin {"off", "test", "spawn", "record"}
    /\ terminating[s] \/ InFrame(s, TerminatePcs) => asked[s]
    /\ InFrame(s, {"second", "first", "term", "kill"}) => loop[s] # "spawn"

(* A process that is served will be ended: by a loop that has not turned   *)
(* away from it, or by the frame that is at it.                            *)
EndsInv(s) ==
    s \notin blind /\ Served(s) =>
        loop[s] \in {"record", "watch", "term"} \/ InFrame(s, {"first", "term"})

(* And _terminating is set, while there is or may be one, only if somebody *)
(* is at it, or by the frame on top, which found nothing and will clear it.*)
TurnInv(s) ==
    s \notin blind /\ terminating[s] /\ (Served(s) \/ loop[s] = "spawn") =>
        loop[s] = "term" \/ InFrame(s, {"first", "term"}) \/ In(s, {"nothing"})

(* stop() comes past a supervisor only when its loop is over, or as good   *)
(* as over.                                                                *)
DownInv(s) == stopped \/ (\E f \in Standing : Past(f, s)) => Ended(s)

(* start() has not come to supervisor s.                                   *)
Before(s) == {"load", "bind", "jobs", "serve", "gate", "llama", s}
NewInv(s) == ~handling /\ stack[1].at \in Before(s) => s \notin built

Supervised(s) == LoopInv(s) /\ EndsInv(s) /\ TurnInv(s) /\ DownInv(s)

RunnerInv ==
    /\ StackInv
    /\ process = "up" => \A s \in Supervisors : NewInv(s) /\ Supervised(s)
    /\ CleanExitLeavesNothing

LEMMA FrameTyped ==
    /\ \A at \in StartPcs \cup {"wait"} \cup StopPcs :
          Frame(at) \in Frames /\ Frame(at).at = at /\ Frame(at).of = "none"
    /\ \A at \in StopPcs, p \in Parts :
          PartFrame(at, p) \in Frames /\ PartFrame(at, p).at = at /\ PartFrame(at, p).of = p
  BY DEF Frame, PartFrame, Frames

(* What the steps do to the frames.                                        *)
LEMMA TopTyped ==
    ASSUME stack \in Seq(Frames), stack # <<>>
    PROVE  /\ Depth \in Nat \ {0} /\ Depth \in 1 .. Depth
           /\ Top = stack[Depth] /\ Top \in Frames /\ Top \in Standing
           /\ \A i \in 1 .. Depth : stack[i] \in Frames
<1>1. Depth \in Nat \ {0}
  BY EmptySeq DEF Depth
<1>2. Depth \in 1 .. Depth
  BY <1>1
<1>3. \A i \in 1 .. Depth : stack[i] \in Frames
  BY ElementOfSeq DEF Depth
<1> QED
  BY <1>1, <1>2, <1>3 DEF Top, Depth, Standing

LEMMA MoveFrame ==
    ASSUME stack \in Seq(Frames), stack # <<>>, NEW f \in Frames, Move(f)
    PROVE  /\ stack' \in Seq(Frames) /\ stack' # <<>>
           /\ Depth' = Depth
           /\ Top' = f
           /\ \A i \in 1 .. Depth : stack'[i] = IF i = Depth THEN f ELSE stack[i]
           /\ Standing' \subseteq Standing \cup {f}
           /\ Standing \subseteq Standing' \cup {Top}
           /\ f \in Standing'
<1>1. Depth \in Nat \ {0} /\ Depth \in 1 .. Depth
  BY TopTyped
<1>2. stack' = [stack EXCEPT ![Depth] = f]
  BY DEF Move, Depth
<1>3. /\ stack' \in Seq(Frames) /\ Len(stack') = Depth
      /\ \A j \in 1 .. Depth : stack'[j] = IF j = Depth THEN f ELSE stack[j]
  BY <1>1, <1>2, ExceptSeq DEF Depth
<1>4. stack' # <<>>
  BY <1>1, <1>3, EmptySeq
<1>5. Depth' = Depth /\ Top' = f
  BY <1>1, <1>3 DEF Top, Depth
<1>6. Standing' = {stack'[i] : i \in 1 .. Depth}
  BY <1>5 DEF Standing
<1> QED
  BY <1>1, <1>3, <1>4, <1>5, <1>6, TopTyped DEF Standing

LEMMA LockedFrame ==
    ASSUME NEW f \in Frames
    PROVE  LET g == [f EXCEPT !.locked = TRUE]
           IN  g \in Frames /\ g.at = f.at /\ g.of = f.of
  BY DEF Frames

LEMMA LockFrame ==
    ASSUME stack \in Seq(Frames), stack # <<>>, TakeLock
    PROVE  \E f \in Frames : Move(f) /\ f.at = Top.at /\ f.of = Top.of
<1>1. Top \in Frames
  BY TopTyped
<1>2. Move([Top EXCEPT !.locked = TRUE])
  BY DEF TakeLock, Move, Top
<1> QED
  BY <1>1, <1>2, LockedFrame

LEMMA PushFrame ==
    ASSUME stack \in Seq(Frames), NEW f \in Frames, stack' = Append(stack, f)
    PROVE  /\ stack' \in Seq(Frames) /\ stack' # <<>>
           /\ Depth \in Nat /\ Depth' = Depth + 1
           /\ Top' = f
           /\ \A i \in 1 .. Depth : stack'[i] = stack[i]
           /\ stack'[Depth + 1] = f
           /\ Standing' = Standing \cup {f}
<1>1. /\ stack' \in Seq(Frames) /\ Len(stack') = Len(stack) + 1 /\ Len(stack) \in Nat
      /\ stack'[Len(stack) + 1] = f
      /\ \A i \in 1 .. Len(stack) : stack'[i] = stack[i]
  BY AppendProperties
<1>2. stack' # <<>>
  BY <1>1, EmptySeq
<1>3. Standing' = {stack'[i] : i \in 1 .. Depth + 1}
  BY <1>1 DEF Standing, Depth
<1>4. \A i \in 1 .. Depth + 1 : i \in 1 .. Depth \/ i = Depth + 1
  BY <1>1 DEF Depth
<1>5. \A i \in 1 .. Depth : i \in 1 .. Depth + 1
  BY <1>1 DEF Depth
<1>6. Depth + 1 \in 1 .. Depth + 1
  BY <1>1 DEF Depth
<1>7. Standing' = Standing \cup {f}
  BY <1>1, <1>3, <1>4, <1>5, <1>6 DEF Depth, Standing
<1> QED
  BY <1>1, <1>2, <1>7 DEF Top, Depth

LEMMA PopFrame ==
    ASSUME stack \in Seq(Frames), Depth \in Nat, Depth > 1, Return
    PROVE  /\ stack' \in Seq(Frames) /\ stack' # <<>>
           /\ Depth' = Depth - 1
           /\ \A i \in 1 .. Depth - 1 : stack'[i] = stack[i]
           /\ Standing' \subseteq Standing
           /\ Standing \subseteq Standing' \cup {Top}
<1> DEFINE n == Depth - 1
<1>1. n \in Nat /\ n > 0 /\ Depth = n + 1
  OBVIOUS
<1>2. \A i \in 1 .. Depth : stack[i] \in Frames
  BY ElementOfSeq DEF Depth
<1>3. \A i \in 1 .. n : stack[i] \in Frames
  BY <1>2
<1>4. stack' = SubSeq(stack, 1, n)
  BY DEF Return, Depth
<1> HIDE DEF n
<1>5. /\ stack' \in Seq(Frames)
      /\ Len(stack') = IF 1 <= n THEN n - 1 + 1 ELSE 0
      /\ \A i \in 1 .. n - 1 + 1 : stack'[i] = stack[1 + i - 1]
  BY <1>1, <1>3, <1>4, SubSeqProperties
<1>6. Depth' = n
  <2>1. Depth' = IF 1 <= n THEN n - 1 + 1 ELSE 0
    BY <1>5 DEF Depth
  <2> QED
    BY <1>1, <2>1
<1>7. stack' # <<>>
  BY <1>1, <1>6, EmptySeq DEF Depth
<1>8. \A i \in 1 .. n : stack'[i] = stack[i]
  <2>1. n - 1 + 1 = n /\ \A i \in 1 .. n : 1 + i - 1 = i
    BY <1>1
  <2> QED
    BY <1>5, <2>1
<1>9. Standing' \subseteq Standing /\ Standing \subseteq Standing' \cup {Top}
  <2>1. Standing' = {stack[i] : i \in 1 .. n}
    BY <1>6, <1>8 DEF Standing
  <2>2. \A i \in 1 .. Depth : i \in 1 .. n \/ i = Depth
    BY <1>1
  <2>3. \A i \in 1 .. n : i \in 1 .. Depth
    BY <1>1
  <2>4. Top = stack[Depth]
    BY DEF Top, Depth
  <2> QED
    BY <2>1, <2>2, <2>3, <2>4 DEF Standing
<1> QED
  BY <1>5, <1>6, <1>7, <1>8, <1>9 DEF n

(* The next part stop() turns to: a part that exists, and none that exists *)
(* is passed over.                                                         *)
LEMMA AfterPart ==
    ASSUME NEW p \in Parts
    PROVE  /\ After(p) \in Frames
           /\ After(p).at \in {"set", "stop"}
           /\ \A s \in Supervisors :
                 Past(After(p), s) => s = p \/ s \notin built \/ Earlier(s, p)
<1> DEFINE later == {j \in 1 .. Len(Order) : Order[j] \in built /\
                                             \E i \in 1 .. j - 1 : Order[i] = p}
           next == CHOOSE j \in later : \A k \in later : j <= k
<1>0. /\ Len(Order) = 4 /\ Order[1] = "jobs" /\ Order[2] = "watch"
      /\ Order[3] = "llama" /\ Order[4] = "newt"
      /\ Parts = {"jobs", "watch", "llama", "newt"} /\ Supervisors = {"llama", "newt"}
  BY DEF Order, Parts, Supervisors
<1>1. CASE later = {}
  <2>1. After(p) = Frame("set")
    BY <1>1 DEF After
  <2>2. After(p) \in Frames /\ After(p).at = "set"
    BY <2>1, FrameTyped DEF StopPcs
  <2>3. ASSUME NEW s \in Supervisors, s # p, s \in built
        PROVE Earlier(s, p)
    BY <1>0, <1>1, <2>3 DEF Earlier
  <2> QED
    BY <2>2, <2>3
<1>2. CASE later # {}
  <2>1. \E j \in later : \A k \in later : j <= k
    BY <1>0, <1>2
  <2>2. next \in later /\ \A k \in later : next <= k
    BY <2>1
  <2>3. After(p) = PartFrame("stop", Order[next])
    BY <1>2 DEF After
  <2>4. Order[next] \in Parts /\ next \in 1 .. 4
    BY <1>0, <2>2
  <2>5. After(p) \in Frames /\ After(p).at = "stop" /\ After(p).of = Order[next]
    BY <2>3, <2>4, FrameTyped DEF StopPcs
  <2>6. ASSUME NEW s \in Supervisors, s # p, s \in built, Past(After(p), s)
        PROVE  Earlier(s, p)
    <3>1. PICK i, j \in 1 .. 4 : i < j /\ Order[i] = s /\ Order[j] = Order[next]
      BY <1>0, <2>5, <2>6 DEF Past, Earlier
    <3>2. i \notin later
      BY <1>0, <2>2, <2>4, <3>1
    <3>3. \A k \in 1 .. i - 1 : Order[k] # p
      BY <1>0, <2>6, <3>1, <3>2
    <3>4. \E k \in 1 .. 4 : Order[k] = p
      BY <1>0
    <3> QED
      BY <1>0, <2>6, <3>1, <3>3, <3>4 DEF Earlier
  <2> QED
    BY <2>5, <2>6
<1> QED
  BY <1>1, <1>2

LEMMA DropNextPart ==
    ASSUME NEW p \in Parts
    PROVE  /\ DropNext(p) \in Frames
           /\ DropNext(p).at \in {"set", "stop", "drop"}
           /\ \A s \in Supervisors :
                 Past(DropNext(p), s) => s = p \/ s \notin built \/ Earlier(s, p)
<1>1. PartFrame("drop", p) \in Frames /\ PartFrame("drop", p).at = "drop"
      /\ PartFrame("drop", p).of = p
  BY FrameTyped DEF StopPcs
<1> QED
  BY <1>1, AfterPart DEF DropNext, Past

(* A frame of start() is alone, and one of stop() has others below.        *)
LEMMA TopPlace ==
    ASSUME RunnerTypeOK, StackInv, process = "up"
    PROVE  /\ stack \in Seq(Frames) /\ stack # <<>> /\ Depth \in Nat \ {0}
           /\ Top \in Frames /\ Top \in Standing
           /\ Top.at \in StartPcs => Depth = 1 /\ ~handling
           /\ Top.at = "wait" => Depth = 1 /\ handling
           /\ Top.at \in StopPcs => Depth > 1 /\ handling
<1>1. stack \in Seq(Frames) /\ stack # <<>>
  BY DEF RunnerTypeOK, StackInv
<1>2. Depth \in Nat \ {0} /\ Depth \in 1 .. Depth /\ Top \in Frames /\ Top = stack[Depth]
      /\ Top \in Standing
  BY <1>1, TopTyped
<1>3. CASE Depth = 1
  <2>1. Top.at \in (IF handling THEN {"wait"} ELSE StartPcs)
    BY <1>2, <1>3 DEF StackInv
  <2> QED
    BY <1>1, <1>2, <1>3, <2>1 DEF StartPcs, StopPcs, TerminatePcs
<1>4. CASE Depth # 1
  <2>1. Depth \in 2 .. Depth /\ Depth > 1
    BY <1>2, <1>4
  <2>2. Top.at \in StopPcs /\ handling
    BY <1>2, <1>4, <2>1 DEF StackInv
  <2> QED
    BY <1>1, <1>2, <2>1, <2>2 DEF StartPcs, StopPcs, TerminatePcs
<1> QED
  BY <1>3, <1>4

Starting ==
    \/ LoadConfig \/ Bind \/ Serve \/ Gate \/ BackfillMissing
    \/ Build("jobs", "serve") \/ Build("watch", "missing")
    \/ BuildSupervisor("llama", "newt") \/ BuildSupervisor("newt", "watch")

LEMMA StartingMoves ==
    ASSUME RunnerTypeOK, StackInv, Starting
    PROVE  /\ process = "up" /\ ~handling /\ ~stopped /\ Depth = 1
           /\ UNCHANGED <<process, handling, stopped>>
           /\ \E to \in StartPcs : Move(Frame(to))
<1>1. \E from, to \in StartPcs : Goto(from, to)
  BY DEF Starting, LoadConfig, Bind, Serve, Gate, BackfillMissing, Build,
         BuildSupervisor, StartPcs
<1>2. process = "up" /\ Top.at \in StartPcs /\ \E to \in StartPcs : Move(Frame(to))
  BY <1>1 DEF Goto, At
<1>3. UNCHANGED <<process, handling, stopped>>
  BY DEF Starting, LoadConfig, Bind, Serve, Gate, BackfillMissing, Build,
         BuildSupervisor, OnlyStack, lifeVars, flagVars
<1> QED
  BY <1>2, <1>3, TopPlace DEF StackInv

(* What a step that replaces the frame on top by f respects of supervisor  *)
(* s.                                                                      *)
Passes(f, s) ==
    /\ asked[s] => asked'[s]
    /\ named'[s] => named[s]
    /\ Served(s)' => Served(s)
    /\ f.of = s /\ f.at \in TerminatePcs => asked'[s]
    /\ f.of = s /\ f.at \in {"second", "first", "term", "kill"} => loop[s] # "spawn"
    /\ Top.of = s /\ Top.at \in {"first", "term"} =>
          ~Served(s)' \/ (f.of = s /\ f.at \in {"first", "term"})
    /\ terminating'[s] =>
          /\ asked'[s]
          /\ \/ f.of = s /\ f.at \in {"first", "nothing"}
             \/ terminating[s] /\ ~(Top.of = s /\ Top.at = "nothing")
    /\ Past(f, s) => Past(Top, s) \/ Ended(s)

Climbs(f) ==
    /\ Move(f)
    /\ f.at \in StopPcs
    /\ UNCHANGED <<process, handling, stopped, built, loop, blind>>
    /\ \A s \in Supervisors : LoopInv(s) => Passes(f, s)

LEMMA PartNames ==
    /\ Supervisors \subseteq Parts /\ "jobs" \in Parts
    /\ \A s \in Supervisors : ~Earlier(s, "jobs") /\ ~Earlier(s, "none") /\ s # "jobs"
                              /\ s # "none"
  BY DEF Parts, Supervisors, Earlier, Order

(* A step that leaves the supervisors alone.                               *)
LEMMA LeavesAlone ==
    ASSUME RunnerTypeOK, Top \in Standing, UNCHANGED <<superVars, blind, built>>,
           NEW f \in Frames, Move(f), f.at \in StopPcs,
           UNCHANGED <<process, handling, stopped>>,
           \A s \in Supervisors :
              /\ asked[s] => asked'[s]
              /\ f.of = s /\ f.at \in TerminatePcs =>
                    asked'[s] \/ (Top.of = s /\ Top.at \in TerminatePcs)
              /\ f.of = s /\ f.at \in {"second", "first", "term", "kill"} =>
                    Top.of = s /\ Top.at \in {"second", "first", "term", "kill"}
              /\ Top.of = s /\ Top.at \in {"first", "term"} =>
                    ~Served(s) \/ (f.of = s /\ f.at \in {"first", "term"})
              /\ Top.of = s /\ Top.at = "nothing" => f.of = s /\ f.at = "nothing"
              /\ Past(f, s) => Past(Top, s) \/ Ended(s)
    PROVE  Climbs(f)
<1>1. ASSUME NEW s \in Supervisors, LoopInv(s) PROVE Passes(f, s)
  <2>1. /\ Top.of = s /\ Top.at \in TerminatePcs => asked[s]
        /\ Top.of = s /\ Top.at \in {"second", "first", "term", "kill"} => loop[s] # "spawn"
        /\ terminating[s] => asked[s]
    BY <1>1 DEF LoopInv, InFrame
  <2>2. UNCHANGED <<named, terminating, loop, child>>
    BY DEF superVars
  <2> QED
    BY <1>1, <2>1, <2>2 DEF Passes, Served
<1> QED
  BY <1>1 DEF Climbs, superVars

(* The steps of _terminate_process of supervisor t.                        *)
LEMMA TerminateClimbs ==
    ASSUME RunnerTypeOK, StackInv, NEW t \in Supervisors, Terminate(t), ~KillRaises(t)
    PROVE  \E f \in Frames : Climbs(f)
<1> USE DEF OnlyStack, OnlyMain, OnlyLife, flagVars, lifeVars, partVars, superVars
<1>1. /\ process = "up" /\ Top.of = t /\ Top.at \in TerminatePcs
      /\ UNCHANGED <<process, handling, stopped, built, loop, blind, asked>>
  BY DEF Terminate, Enter, FindsGone, Awaits, Awaited, Terminates, Kills, Exited, Clears,
         In, At, TerminatePcs
<1>2. Top \in Standing /\ Top.at \in StopPcs /\ t \in Parts
  BY <1>1, TopPlace, PartNames DEF StopPcs
<1>3. /\ child \in [Supervisors -> ChildStates] /\ named \in [Supervisors -> BOOLEAN]
      /\ terminating \in [Supervisors -> BOOLEAN]
  BY DEF RunnerTypeOK
<1>4. \A at \in StopPcs : /\ PartFrame(at, t) \in Frames
                          /\ PartFrame(at, t).at = at /\ PartFrame(at, t).of = t
  BY <1>2, FrameTyped
<1>5. \A at \in StopPcs : at \notin {"set", "drop"} =>
          \A s \in Supervisors : Past(PartFrame(at, t), s) => Past(Top, s)
  BY <1>1, <1>4 DEF Past
<1>6. CASE Enter(t)
  <2> DEFINE to == IF ~named[t] THEN "nothing" ELSE IF terminating[t] THEN "second"
                                                   ELSE "first"
             f == PartFrame(to, t)
  <2>1. to \in {"nothing", "second", "first"} /\ to \in StopPcs
    BY DEF StopPcs, TerminatePcs
  <2>2. Move(f) /\ terminating' = [terminating EXCEPT ![t] = TRUE]
        /\ UNCHANGED <<child, named>>
    BY <1>6 DEF Enter
  <2>3. f \in Frames /\ f.of = t /\ f.at = to /\ \A s \in Supervisors : Past(f, s) => Past(Top, s)
    BY <1>4, <1>5, <2>1
  <2>4. ASSUME NEW s \in Supervisors, LoopInv(s) PROVE Passes(f, s)
    <3>1. CASE s = t
      <4>1. asked[t] /\ (named[t] => loop[t] # "spawn")
        BY <1>1, <1>2, <2>4, <3>1 DEF LoopInv, InFrame
      <4>2. to # "nothing" => named[t]
        OBVIOUS
      <4>3. to = "second" => terminating[t]
        OBVIOUS
      <4>4. Top.at = "enter"
        BY <1>6 DEF Enter, In, At
      <4> HIDE DEF to, f
      <4> QED
        BY <1>1, <1>3, <2>1, <2>2, <2>3, <3>1, <4>1, <4>2, <4>3, <4>4 DEF Passes, Served
    <3>2. CASE s # t
      <4>1. terminating[s] => asked[s]
        BY <2>4 DEF LoopInv
      <4> HIDE DEF to, f
      <4> QED
        BY <1>1, <1>3, <2>2, <2>3, <3>2, <4>1 DEF Passes, Served
    <3> QED
      BY <3>1, <3>2
  <2> HIDE DEF to, f
  <2> QED
    BY <1>1, <2>1, <2>2, <2>3, <2>4 DEF Climbs
<1>7. CASE FindsGone(t) \/ Awaits(t) \/ Awaited(t) \/ Exited(t)
  <2>1. \E at \in {"nothing", "await", "join", "clear"} :
            /\ Move(PartFrame(at, t))
            /\ Top.at # "nothing"
            /\ Top.at \in {"first", "term"} => ~Served(t)
            /\ at = "join" => Top.at = "await"
    BY <1>7 DEF FindsGone, Awaits, Awaited, Exited, In, At, Alive, Served
  <2>2. PICK at \in {"nothing", "await", "join", "clear"} :
            /\ Move(PartFrame(at, t))
            /\ Top.at # "nothing"
            /\ Top.at \in {"first", "term"} => ~Served(t)
            /\ at = "join" => Top.at = "await"
    BY <2>1
  <2>3. at \in StopPcs /\ at \notin {"set", "drop"}
        /\ at \notin {"second", "first", "term", "kill"}
    BY DEF StopPcs, TerminatePcs
  <2>4. UNCHANGED <<superVars, blind, built, asked>>
    BY <1>7 DEF FindsGone, Awaits, Awaited, Exited
  <2> QED
    BY <1>1, <1>2, <1>4, <1>5, <2>2, <2>3, <2>4, LeavesAlone
<1>8. CASE Terminates(t) \/ Kills(t)
  <2>1. \E at \in {"term", "kill"} :
            /\ Move(PartFrame(at, t))
            /\ Top.at \in {"first", "term"}
            /\ child' = IF at = "term" THEN Terminated(t) ELSE Killed(t)
            /\ UNCHANGED <<named, terminating>>
    BY <1>8 DEF Terminates, Kills, In, At
  <2>2. PICK at \in {"term", "kill"} :
            /\ Move(PartFrame(at, t))
            /\ Top.at \in {"first", "term"}
            /\ child' = IF at = "term" THEN Terminated(t) ELSE Killed(t)
            /\ UNCHANGED <<named, terminating>>
    BY <2>1
  <2>3. at \in StopPcs /\ at \notin {"set", "drop", "nothing", "first", "second"}
    BY DEF StopPcs, TerminatePcs
  <2>4. /\ \A s \in Supervisors : Served(s)' => Served(s)
        /\ at = "kill" => ~Served(t)'
    BY <1>3, <2>2 DEF Terminated, Killed, Served
  <2>5. ASSUME NEW s \in Supervisors, LoopInv(s) PROVE Passes(PartFrame(at, t), s)
    <3>1. /\ s = t => asked[s] /\ loop[s] # "spawn"
          /\ terminating[s] => asked[s]
      BY <1>1, <1>2, <2>2, <2>5 DEF LoopInv, InFrame
    <3>2. PartFrame(at, t).at = at /\ PartFrame(at, t).of = t
      BY <1>4, <2>3
    <3>3. Past(PartFrame(at, t), s) => Past(Top, s)
      BY <1>5, <2>3
    <3> QED
      BY <1>1, <2>2, <2>3, <2>4, <3>1, <3>2, <3>3 DEF Passes
  <2> QED
    BY <1>1, <1>4, <2>2, <2>3, <2>5 DEF Climbs
<1>9. CASE Clears(t)
  <2>1. /\ Move(PartFrame("join", t)) /\ Top.at \in {"nothing", "clear"}
        /\ named' = [named EXCEPT ![t] = @ /\ Top.at = "nothing"]
        /\ terminating' = [terminating EXCEPT ![t] = FALSE]
        /\ child' = child
    BY <1>9 DEF Clears, In, At
  <2>2. "join" \in StopPcs /\ "join" \notin TerminatePcs
    BY DEF StopPcs, TerminatePcs
  <2>3. ASSUME NEW s \in Supervisors, LoopInv(s) PROVE Passes(PartFrame("join", t), s)
    <3>1. terminating[s] => asked[s]
      BY <2>3 DEF LoopInv
    <3>2. (named'[s] => named[s]) /\ (terminating'[s] => terminating[s] /\ s # t)
      BY <1>3, <2>1
    <3>3. PartFrame("join", t).at = "join" /\ PartFrame("join", t).of = t
      BY <1>4, <2>2
    <3>4. Past(PartFrame("join", t), s) => Past(Top, s)
      BY <1>5, <2>2
    <3> QED
      BY <1>1, <2>1, <2>2, <3>1, <3>2, <3>3, <3>4 DEF Passes, Served
  <2> QED
    BY <1>1, <1>4, <2>1, <2>2, <2>3 DEF Climbs
<1> QED
  BY <1>6, <1>7, <1>8, <1>9 DEF Terminate

(* Every step of stop() replaces the frame on top, leaves it or raises.    *)
LEMMA StopMoves ==
    ASSUME RunnerTypeOK, StackInv, Stop
    PROVE  /\ process = "up" /\ handling /\ Depth > 1 /\ Top.at \in StopPcs
           /\ \/ \E f \in Frames : Climbs(f)
              \/ StopReturns \/ SetStopped
              \/ Die("error")
<1>0. process = "up" /\ Top.at \in StopPcs
  BY DEF Stop, TakeLock, StopReturns, StopBegins, ShutDown, CloseServer, CloseRaises,
         StopPart, Drop, DropRaises, SetStopped, Terminate, Enter, FindsGone, Awaits,
         Awaited, Terminates, Kills, KillRaises, Exited, Clears, Join, In, At, Goto,
         NeedsLock, LockPcs, StopPcs, TerminatePcs
<1>1. /\ stack \in Seq(Frames) /\ stack # <<>> /\ handling /\ Depth > 1
      /\ Top \in Frames /\ Top \in Standing
  BY <1>0, TopPlace
<1> DEFINE Goal == \E f \in Frames : Climbs(f)
<1>2. CASE TakeLock
  <2>1. PICK f \in Frames : Move(f) /\ f.at = Top.at /\ f.of = Top.of
    BY <1>1, <1>2, LockFrame
  <2>2. UNCHANGED <<process, handling, stopped, asked, superVars, blind, built>>
        /\ Top.at \notin {"second", "first", "term", "kill"}
    BY <1>2 DEF TakeLock, OnlyStack, OnlyMain, lifeVars, flagVars, partVars, NeedsLock,
       LockPcs
  <2>3. \A s \in Supervisors : Past(f, s) => Past(Top, s)
    BY <2>1 DEF Past
  <2> QED
    BY <1>0, <1>1, <2>1, <2>2, <2>3, LeavesAlone
<1>3. CASE StopBegins \/ ShutDown \/ CloseServer
  <2>1. \E g \in {Frame("server"), Frame("close"), PartFrame("stop", "jobs")} :
            Move(g) /\ Top.at \in {"test", "server", "close"}
    BY <1>3 DEF StopBegins, ShutDown, CloseServer, Goto, At
  <2>2. \A g \in {Frame("server"), Frame("close"), PartFrame("stop", "jobs")} :
            /\ g \in Frames /\ g.of \in {"none", "jobs"}
            /\ g.at \in {"server", "close", "stop"} /\ g.at \in StopPcs
    BY FrameTyped, PartNames DEF StopPcs
  <2>3. PICK f \in Frames :
            /\ Move(f) /\ Top.at \in {"test", "server", "close"}
            /\ f.of \in {"none", "jobs"} /\ f.at \in {"server", "close", "stop"}
            /\ f.at \in StopPcs
    BY <2>1, <2>2
  <2>4. UNCHANGED <<process, handling, stopped, asked, superVars, blind, built>>
    BY <1>3 DEF StopBegins, ShutDown, CloseServer, OnlyStack, OnlyMain, lifeVars, flagVars,
       partVars
  <2>5. \A s \in Supervisors : ~Past(f, s) /\ f.of # s
    BY <2>3, PartNames DEF Past
  <2> QED
    BY <1>0, <1>1, <2>3, <2>4, <2>5, LeavesAlone
<1>4. ASSUME NEW p \in Parts, StopPart(p) PROVE Goal
  <2> DEFINE f == IF p \in Supervisors THEN PartFrame("enter", p) ELSE DropNext(p)
  <2>1. /\ Move(f) /\ Top.at = "stop" /\ Top.of = p /\ asked' = [asked EXCEPT ![p] = TRUE]
        /\ UNCHANGED <<process, handling, stopped, superVars, blind, built>>
    BY <1>4 DEF StopPart, At, OnlyMain, lifeVars, flagVars
  <2>2. /\ f \in Frames /\ f.at \in StopPcs
        /\ f.at \notin {"second", "first", "term", "kill"}
        /\ f.at \in TerminatePcs => f.of = p
        /\ \A s \in Supervisors : Past(f, s) => s \notin built \/ Earlier(s, p)
    <3>1. CASE p \in Supervisors
      <4>1. f = PartFrame("enter", p) /\ f \in Frames /\ f.at = "enter" /\ f.of = p
        BY <3>1, FrameTyped DEF StopPcs, TerminatePcs
      <4> HIDE DEF f
      <4> QED
        BY <4>1 DEF Past, StopPcs, TerminatePcs
    <3>2. CASE p \notin Supervisors
      <4>1. f = DropNext(p)
        BY <3>2
      <4> HIDE DEF f
      <4> QED
        BY <3>2, <4>1, DropNextPart DEF StopPcs, TerminatePcs
    <3> QED
      BY <3>1, <3>2
  <2> HIDE DEF f
  <2>3. \A s \in Supervisors : Past(f, s) => Past(Top, s) \/ Ended(s)
    BY <2>1, <2>2 DEF Past, Ended
  <2>4. asked'[p] /\ \A s \in Supervisors : asked[s] => asked'[s]
    BY <2>1, PartNames DEF RunnerTypeOK
  <2> QED
    BY <1>1, <2>1, <2>2, <2>3, <2>4, LeavesAlone
<1>5. ASSUME NEW p \in Parts, Drop(p) PROVE Goal
  <2>1. /\ Move(After(p)) /\ Top.at = "drop" /\ Top.of = p
        /\ UNCHANGED <<process, handling, stopped, asked, superVars, blind, built>>
    BY <1>5 DEF Drop, At, OnlyMain, lifeVars, flagVars
  <2>2. \A s \in Supervisors : Past(After(p), s) => Past(Top, s) \/ Ended(s)
    BY <2>1, AfterPart DEF Past, Ended
  <2>3. After(p) \in Frames /\ After(p).at \in StopPcs /\ After(p).at \notin TerminatePcs
        /\ After(p).at \notin {"second", "first", "term", "kill"}
    BY AfterPart DEF StopPcs, TerminatePcs
  <2> QED
    BY <1>1, <2>1, <2>2, <2>3, LeavesAlone
<1>6. ASSUME NEW s \in Supervisors, Join(s) PROVE Goal
  <2>1. /\ Move(DropNext(s)) /\ Top.at = "join" /\ Top.of = s /\ loop[s] \in {"kill", "over"}
        /\ UNCHANGED <<process, handling, stopped, asked, superVars, blind, built>>
    BY <1>6 DEF Join, In, At, OnlyStack, OnlyMain, lifeVars, flagVars, partVars
  <2>2. \A t \in Supervisors : Past(DropNext(s), t) => Past(Top, t) \/ Ended(t)
    BY <2>1, DropNextPart, PartNames DEF Past, Ended
  <2>3. /\ DropNext(s) \in Frames /\ DropNext(s).at \in StopPcs
        /\ DropNext(s).at \notin TerminatePcs
        /\ DropNext(s).at \notin {"second", "first", "term", "kill"}
    BY DropNextPart, PartNames DEF StopPcs, TerminatePcs
  <2> QED
    BY <1>1, <2>1, <2>2, <2>3, LeavesAlone
<1>7. CASE CloseRaises \/ (\E p \in Parts : DropRaises(p))
           \/ \E s \in Supervisors : KillRaises(s)
  BY <1>0, <1>1, <1>7 DEF CloseRaises, DropRaises, KillRaises, Raise
<1> QED
  BY <1>0, <1>1, <1>2, <1>3, <1>4, <1>5, <1>6, <1>7, TerminateClimbs DEF Stop

LEMMA ThreadsKeep ==
    ASSUME Threads
    PROVE  process = "up" /\ UNCHANGED <<lifeVars, stack, flagVars, partVars, blind>>
<1>1. CASE Requests
  BY <1>1 DEF Requests, PostArrives, PostChecked, PostSubmits, TakeJob, JobEnds, OnlyMain
<1>2. ASSUME NEW s \in Supervisors, Loop(s) \/ Exits(s)
      PROVE  process = "up" /\ UNCHANGED <<lifeVars, stack, flagVars, partVars, blind>>
  BY <1>2 DEF Loop, LoopTest, LoopSpawns, LoopSpawnFails, LoopRecords, LoopReaps,
     LoopTerminates, LoopAwaited, LoopKills, LoopRaises, LoopClears, LoopGoes, OnlyLoop,
     Exits
<1> QED
  BY <1>1, <1>2 DEF Threads, Supervision

Dying == \E how \in {"clean", "error", "killed"} : Die(how)

(* The steps that are neither of start() nor of stop().                    *)
LEMMA OtherSteps ==
    ASSUME RunnerTypeOK, StackInv, RunnerNext, ~Starting, ~Stop
    PROVE  \/ StartProcess
           \/ process = "up" /\ handling /\ Signal
           \/ Dying
           \/ Threads
           \/ process = "up" /\ ~handling /\ ~stopped /\ Depth = 1 /\ InstallHandlers
           \/ process = "up" /\ handling /\ Depth = 1 /\ WaitBlocks
<1>1. CASE InstallHandlers
  BY <1>1, TopPlace DEF InstallHandlers, At, StartPcs, StackInv
<1>2. CASE WaitBlocks
  BY <1>2, TopPlace DEF WaitBlocks, At
<1>3. CASE SignalKills \/ BindFails \/ BuildRaises \/ MissingRaises \/ WaitReturns
  BY <1>3 DEF SignalKills, BindFails, BuildRaises, MissingRaises, WaitReturns, Raise, Dying
<1> QED
  BY <1>1, <1>2, <1>3 DEF RunnerNext, Main, Starting, StartUp, Signal

(* The two steps around the installation of the handlers.                  *)
LEMMA WaitMoves ==
    ASSUME InstallHandlers \/ WaitBlocks
    PROVE  /\ \E f \in Frames : Move(f) /\ f.at = "wait" /\ f.of = "none"
           /\ UNCHANGED <<lifeVars, config, stopped, httpVars, jobVars, partVars,
                          superVars, blind>>
           /\ handling' \in {handling, TRUE}
           /\ Top.at \in {"handlers", "wait"}
           /\ InstallHandlers => handling'
           /\ WaitBlocks => handling' = handling
<1> DEFINE f == [Frame("wait") EXCEPT !.locked = TRUE]
<1>1. Frame("wait") \in Frames /\ Frame("wait").at = "wait" /\ Frame("wait").of = "none"
  BY FrameTyped
<1>2. f \in Frames /\ f.at = "wait" /\ f.of = "none"
  BY <1>1, LockedFrame
<1>3. InstallHandlers => Move(f)
  BY DEF InstallHandlers
<1> HIDE DEF f
<1>4. WaitBlocks => Move(Frame("wait"))
  BY DEF WaitBlocks
<1> QED
  BY <1>1, <1>2, <1>3, <1>4 DEF InstallHandlers, WaitBlocks, OnlyStack, OnlyMain, At,
     flagVars

LEMMA OneFrame ==
    ASSUME NEW f \in Frames
    PROVE  <<f>> \in Seq(Frames) /\ <<f>> # <<>> /\ Len(<<f>>) = 1 /\ <<f>>[1] = f
  OBVIOUS

LEMMA StackStep ==
    ASSUME RunnerTypeOK, StackInv, RunnerNext
    PROVE  stack' \in Seq(Frames) /\ StackInv'
<1> DEFINE Goal == stack' \in Seq(Frames) /\ StackInv'
<1>0. stack \in Seq(Frames)
  BY DEF RunnerTypeOK
<1>1. CASE StartProcess
  <2>1. stack' = <<Frame("load")>> /\ process' = "up" /\ ~handling' /\ ~stopped'
    BY <1>1 DEF StartProcess
  <2>2. Frame("load") \in Frames /\ Frame("load").at \in StartPcs
    BY FrameTyped DEF StartPcs
  <2>3. stack' \in Seq(Frames) /\ stack' # <<>> /\ Depth' = 1 /\ stack'[1].at \in StartPcs
    BY <2>1, <2>2, OneFrame DEF Depth
  <2> QED
    BY <2>1, <2>3 DEF StackInv
<1>2. CASE Dying
  BY <1>2, EmptySeq DEF Dying, Die, StackInv
<1>3. CASE Threads
  BY <1>0, <1>3, ThreadsKeep DEF StackInv, lifeVars, flagVars, Depth
<1>4. ASSUME NEW f \in Frames, Move(f), process = "up", UNCHANGED <<process, stopped>>,
             \/ handling' = handling /\ Top.at \in StopPcs /\ f.at \in StopPcs
             \/ Depth = 1 /\ (~handling' => ~stopped)
                  /\ f.at \in (IF handling' THEN {"wait"} ELSE StartPcs)
      PROVE  Goal
  <2>1. stack # <<>> /\ Depth \in Nat \ {0}
    BY <1>4, TopPlace
  <2>2. /\ stack' \in Seq(Frames) /\ stack' # <<>> /\ Depth' = Depth
        /\ \A i \in 1 .. Depth : stack'[i] = IF i = Depth THEN f ELSE stack[i]
    BY <1>0, <1>4, <2>1, MoveFrame
  <2>3. CASE handling' = handling /\ Top.at \in StopPcs /\ f.at \in StopPcs
    <3>1. Depth > 1 /\ handling
      BY <1>4, <2>3, TopPlace
    <3>2. 1 \in 1 .. Depth /\ Depth # 1 /\ \A i \in 2 .. Depth : i \in 1 .. Depth
      BY <2>1, <3>1
    <3>3. stack'[1] = stack[1]
      BY <2>2, <3>2
    <3>4. \A i \in 2 .. Depth : stack'[i].at \in StopPcs
      BY <1>4, <2>2, <2>3, <3>2 DEF StackInv
    <3> QED
      BY <1>4, <2>2, <2>3, <3>1, <3>3, <3>4 DEF StackInv
  <2>4. CASE Depth = 1 /\ (~handling' => ~stopped)
             /\ f.at \in (IF handling' THEN {"wait"} ELSE StartPcs)
    <3>1. 1 \in 1 .. Depth /\ stack'[1] = f
      BY <2>2, <2>4
    <3>2. \A i \in 2 .. Depth : FALSE
      BY <2>4
    <3> QED
      BY <1>4, <2>2, <2>4, <3>1, <3>2 DEF StackInv
  <2> QED
    BY <1>4, <2>3, <2>4
<1>5. CASE Starting
  <2>1. PICK to \in StartPcs : Move(Frame(to))
    BY <1>5, StartingMoves
  <2>2. Frame(to) \in Frames /\ Frame(to).at \in StartPcs
    BY FrameTyped
  <2> QED
    BY <1>4, <1>5, <2>1, <2>2, StartingMoves
<1>6. CASE process = "up" /\ Depth = 1 /\ (InstallHandlers \/ (WaitBlocks /\ handling))
  <2>1. PICK f \in Frames : Move(f) /\ f.at = "wait"
    BY <1>6, WaitMoves
  <2>2. UNCHANGED <<process, stopped>> /\ handling'
    BY <1>6, WaitMoves DEF lifeVars
  <2> QED
    BY <1>4, <1>6, <2>1, <2>2
<1>7. CASE process = "up" /\ handling /\ Signal
  <2>1. /\ stack' = Append(stack, Frame("test")) /\ UNCHANGED <<process, handling, stopped>>
        /\ Frame("test") \in Frames /\ Frame("test").at \in StopPcs
    BY <1>7, FrameTyped DEF Signal, flagVars, StopPcs
  <2>2. /\ stack' \in Seq(Frames) /\ stack' # <<>> /\ Depth' = Depth + 1
        /\ stack'[Depth + 1] = Frame("test")
        /\ \A i \in 1 .. Depth : stack'[i] = stack[i]
    BY <1>0, <2>1, PushFrame
  <2>3. Depth \in Nat \ {0}
    BY <1>7, TopPlace
  <2>4. /\ 1 \in 1 .. Depth
        /\ \A i \in 2 .. Depth + 1 :
              i = Depth + 1 \/ (i \in 1 .. Depth /\ i \in 2 .. Depth)
    BY <2>3
  <2>5. stack'[1] = stack[1] /\ \A i \in 2 .. Depth + 1 : stack'[i].at \in StopPcs
    BY <1>7, <2>1, <2>2, <2>4 DEF StackInv
  <2> QED
    BY <1>7, <2>1, <2>2, <2>5 DEF StackInv
<1>8. CASE Stop
  <2>0. process = "up" /\ handling /\ Depth > 1 /\ Top.at \in StopPcs
    BY <1>8, StopMoves
  <2>1. ASSUME NEW f \in Frames, Climbs(f) PROVE Goal
    BY <1>4, <2>0, <2>1 DEF Climbs
  <2>2. CASE StopReturns \/ SetStopped
    <3>1. Return /\ process' = process /\ handling' = handling
      BY <2>2 DEF StopReturns, SetStopped, OnlyStack, lifeVars, flagVars
    <3>2. Depth \in Nat
      BY <2>0, TopPlace
    <3>3. /\ stack' \in Seq(Frames) /\ stack' # <<>> /\ Depth' = Depth - 1
          /\ \A i \in 1 .. Depth - 1 : stack'[i] = stack[i]
      BY <1>0, <2>0, <3>1, <3>2, PopFrame
    <3>4. /\ 1 \in 1 .. Depth - 1
          /\ \A i \in 2 .. Depth - 1 : i \in 1 .. Depth - 1 /\ i \in 2 .. Depth
      BY <2>0, <3>2
    <3>5. stack'[1] = stack[1] /\ \A i \in 2 .. Depth - 1 : stack'[i].at \in StopPcs
      BY <2>0, <3>3, <3>4 DEF StackInv
    <3> QED
      BY <2>0, <3>1, <3>3, <3>5 DEF StackInv
  <2>3. CASE Die("error")
    BY <1>2, <2>3 DEF Dying
  <2> QED
    BY <1>8, <2>1, <2>2, <2>3, StopMoves
<1> QED
  BY <1>1, <1>2, <1>3, <1>5, <1>6, <1>7, <1>8, OtherSteps

-----------------------------------------------------------------------------
(* The supervisors, step by step.                                          *)

(* A new process has none yet.                                             *)
LEMMA NewSupervised ==
    ASSUME StartProcess, NEW s \in Supervisors
    PROVE  Supervised(s)'
<1>1. /\ built' = {} /\ ~stopped' /\ child'[s] = "none" /\ loop'[s] = "off"
      /\ ~named'[s] /\ ~terminating'[s]
  BY DEF StartProcess
<1>2. Depth' = 1 /\ stack'[1] = Frame("load") /\ Frame("load").of = "none"
  <2>1. stack' = <<Frame("load")>>
    BY DEF StartProcess
  <2> QED
    BY <2>1, FrameTyped DEF Depth, StartPcs
<1>3. Standing' = {Frame("load")}
  BY <1>2 DEF Standing
<1>4. \A pcs : ~InFrame(s, pcs)'
  BY <1>2, <1>3, PartNames DEF InFrame
<1> QED
  BY <1>1, <1>4 DEF Supervised, LoopInv, EndsInv, TurnInv, DownInv, Served, Ended

(* A step of the main thread that replaces its frame and passes s.         *)
LEMMA PassingStep ==
    ASSUME stack \in Seq(Frames), stack # <<>>, process' = "up",
           NEW s \in Supervisors, Supervised(s),
           NEW f \in Frames, Move(f), Passes(f, s),
           loop'[s] = loop[s], s \in built' <=> s \in built,
           UNCHANGED <<blind, stopped>>
    PROVE  Supervised(s)'
<1>0. /\ Standing' \subseteq Standing \cup {f} /\ Standing \subseteq Standing' \cup {Top}
      /\ Top' = f /\ f \in Standing' /\ Top \in Standing
  BY MoveFrame, TopTyped
<1>1. LoopInv(s)'
  <2>1. InFrame(s, TerminatePcs)' =>
            InFrame(s, TerminatePcs) \/ (f.of = s /\ f.at \in TerminatePcs)
    BY <1>0 DEF InFrame
  <2>2. InFrame(s, {"second", "first", "term", "kill"})' =>
            \/ InFrame(s, {"second", "first", "term", "kill"})
            \/ f.of = s /\ f.at \in {"second", "first", "term", "kill"}
    BY <1>0 DEF InFrame
  <2> QED
    BY <2>1, <2>2 DEF Supervised, LoopInv, Passes
<1>2. /\ Served(s)' /\ InFrame(s, {"first", "term"}) => InFrame(s, {"first", "term"})'
      /\ loop[s] = "spawn" => ~InFrame(s, {"first", "term"})
  BY <1>0 DEF InFrame, Passes, Supervised, LoopInv
<1>3. EndsInv(s)'
  BY <1>2 DEF Supervised, EndsInv, Passes
<1>4. TurnInv(s)'
  <2> SUFFICES ASSUME s \notin blind', terminating'[s], Served(s)' \/ loop'[s] = "spawn"
               PROVE  loop'[s] = "term" \/ InFrame(s, {"first", "term"})' \/ In(s, {"nothing"})'
    BY DEF TurnInv
  <2>1. CASE f.of = s /\ f.at \in {"first", "nothing"}
    BY <1>0, <2>1 DEF InFrame, In, At
  <2>2. CASE terminating[s] /\ ~(Top.of = s /\ Top.at = "nothing")
    <3>1. loop[s] = "term" \/ InFrame(s, {"first", "term"})
      BY <2>2 DEF Supervised, TurnInv, Passes, In, At
    <3> QED
      BY <1>2, <3>1
  <2> QED
    BY <2>1, <2>2 DEF Passes
<1>5. DownInv(s)'
  <2>1. Ended(s)' <=> Ended(s)
    BY DEF Ended
  <2>2. (\E g \in Standing' : Past(g, s)) => (\E g \in Standing : Past(g, s)) \/ Ended(s)
    BY <1>0 DEF Passes
  <2> QED
    BY <2>1, <2>2 DEF Supervised, DownInv, Past, Earlier
<1> QED
  BY <1>1, <1>3, <1>4, <1>5 DEF Supervised

(* While start() runs no frame has come to a supervisor.                   *)
LEMMA StartingStep ==
    ASSUME RunnerTypeOK, StackInv, Starting, process' = "up",
           NEW s \in Supervisors, NewInv(s), Supervised(s)
    PROVE  Supervised(s)'
<1>1. /\ process = "up" /\ ~handling /\ ~stopped /\ stopped' = stopped /\ Depth = 1
  BY StartingMoves
<1>2. PICK to \in StartPcs : Move(Frame(to))
  BY StartingMoves
<1>3. Frame(to) \in Frames /\ Frame(to).at = to /\ Frame(to).of = "none"
  BY FrameTyped
<1>4. stack \in Seq(Frames) /\ stack # <<>> /\ Top.at \in StartPcs
  BY <1>1, TopPlace DEF Starting, LoadConfig, Bind, Serve, Gate, BackfillMissing, Build,
     BuildSupervisor, Goto, At, StartPcs
<1>5. UNCHANGED <<asked, child, named, terminating, blind>>
  BY DEF Starting, LoadConfig, Bind, Serve, Gate, BackfillMissing, Build, BuildSupervisor,
     OnlyStack, OnlyMain, partVars, superVars
<1>6. Passes(Frame(to), s)
  <2>1. to \notin TerminatePcs /\ to \notin {"set", "drop"} /\ Top.at \notin TerminatePcs
    BY <1>4 DEF StartPcs, TerminatePcs
  <2>2. ~Past(Frame(to), s)
    BY <1>3, <2>1, PartNames DEF Past
  <2>3. terminating[s] => asked[s]
    BY DEF Supervised, LoopInv
  <2> QED
    BY <1>3, <1>5, <2>1, <2>2, <2>3, PartNames DEF Passes, Served, TerminatePcs
<1>7. CASE loop'[s] = loop[s] /\ (s \in built' <=> s \in built)
  BY <1>1, <1>2, <1>3, <1>4, <1>5, <1>6, <1>7, PassingStep
<1>8. CASE ~(loop'[s] = loop[s] /\ (s \in built' <=> s \in built))
  <2>1. s \in built' /\ loop'[s] = "test" /\ Top.at = s
    <3>1. \/ \E t \in Supervisors : /\ built' = built \cup {t}
                                    /\ loop' = [loop EXCEPT ![t] = "test"]
                                    /\ Top.at = t
          \/ \E p \in {"jobs", "watch"} : built' \in {built, built \cup {p}} /\ loop' = loop
          \/ UNCHANGED <<built, loop>>
      BY PartNames DEF Starting, LoadConfig, Bind, Serve, Gate, BackfillMissing, Build,
         BuildSupervisor, OnlyStack, OnlyMain, partVars, superVars, Supervisors, Goto, At
    <3>2. loop \in [Supervisors -> LoopPcs] /\ s \notin {"jobs", "watch"}
      BY DEF RunnerTypeOK, Supervisors
    <3> QED
      BY <1>8, <3>1, <3>2
  <2>2. Standing' = {Frame(to)}
    <3>1. Depth' = 1 /\ stack'[1] = Frame(to)
      BY <1>1, <1>2, <1>3, <1>4, MoveFrame
    <3> QED
      BY <3>1 DEF Standing
  <2>3. \A pcs : ~InFrame(s, pcs)'
    BY <1>3, <2>2, PartNames DEF InFrame
  <2>4. ~\E g \in Standing' : Past(g, s)
    BY <1>3, <2>2, PartNames DEF Past, StartPcs
  <2>5. stack[1] = Top /\ Standing = {Top}
    BY <1>1 DEF Standing, Top, Depth
  <2>6. s \notin built
    BY <1>1, <2>1, <2>5 DEF NewInv, Before, Supervisors
  <2>7. ~InFrame(s, {"first", "term"})
    BY <1>4, <2>5 DEF InFrame, StartPcs
  <2>8. loop[s] = "off" /\ ~named[s] /\ (s \in blind \/ ~Served(s))
    BY <2>6, <2>7 DEF Supervised, LoopInv, EndsInv
  <2>9. LoopInv(s)'
    BY <1>5, <2>1, <2>3, <2>8 DEF Supervised, LoopInv
  <2>10. EndsInv(s)' /\ TurnInv(s)'
    BY <1>5, <2>1, <2>8 DEF EndsInv, TurnInv, Served
  <2>11. DownInv(s)'
    BY <1>1, <2>4 DEF DownInv, Past, Earlier
  <2> QED
    BY <2>9, <2>10, <2>11 DEF Supervised
<1> QED
  BY <1>7, <1>8

(* A part is built once.                                                   *)
LEMMA NewStep ==
    ASSUME RunnerTypeOK, StackInv, RunnerNext, process' = "up",
           NEW s \in Supervisors, process = "up" => NewInv(s)
    PROVE  NewInv(s)'
<1>1. CASE StartProcess
  BY <1>1 DEF StartProcess, NewInv
<1>2. CASE Dying
  BY <1>2 DEF Dying, Die
<1>3. CASE Threads
  BY <1>3, ThreadsKeep DEF NewInv, flagVars, partVars
<1>4. CASE Starting
  <2>1. /\ process = "up" /\ ~handling /\ ~handling' /\ Depth = 1
        /\ stack \in Seq(Frames) /\ stack # <<>>
    BY <1>4, StartingMoves, TopPlace
  <2>2. \E from, to \in StartPcs :
            /\ Goto(from, to)
            /\ built' \in {built, built \cup {from}}
            /\ to \in Before(s) => from \in Before(s) /\ from # s
    BY <1>4 DEF Starting, LoadConfig, Bind, Serve, Gate, BackfillMissing, Build,
       BuildSupervisor, OnlyStack, partVars, StartPcs, Before, Supervisors
  <2>3. PICK from, to \in StartPcs :
            /\ Goto(from, to)
            /\ built' \in {built, built \cup {from}}
            /\ to \in Before(s) => from \in Before(s) /\ from # s
    BY <2>2
  <2>4. stack[1].at = from /\ Move(Frame(to))
    BY <2>1, <2>3 DEF Goto, At, Top, Depth
  <2>5. stack'[1].at = to
    BY <2>1, <2>4, FrameTyped, MoveFrame
  <2> QED
    BY <2>1, <2>3, <2>4, <2>5 DEF NewInv, Before
<1>5. CASE InstallHandlers
  BY <1>5 DEF InstallHandlers, NewInv
<1>6. CASE process = "up" /\ handling /\ (Signal \/ WaitBlocks)
  BY <1>6 DEF Signal, WaitBlocks, OnlyStack, flagVars, NewInv
<1>7. CASE Stop
  <2>1. handling
    BY <1>7, StopMoves
  <2>2. CASE StopReturns \/ SetStopped
    BY <2>1, <2>2 DEF StopReturns, SetStopped, OnlyStack, flagVars, NewInv
  <2>3. ASSUME NEW f \in Frames, Climbs(f) PROVE handling'
    BY <2>1, <2>3 DEF Climbs
  <2> QED
    BY <1>2, <1>7, <2>2, <2>3, StopMoves DEF Dying, NewInv
<1> QED
  BY <1>1, <1>2, <1>3, <1>4, <1>5, <1>6, <1>7, OtherSteps

(* A step of the loop thread of s, or the exit of its child.               *)
LEMMA LoopStep ==
    ASSUME RunnerTypeOK, NEW s \in Supervisors, Supervised(s), Loop(s) \/ Exits(s)
    PROVE  Supervised(s)'
<1>1. /\ process = "up" /\ UNCHANGED <<process, stack, stopped, asked, built, blind>>
  <2>1. CASE Loop(s)
    BY <2>1 DEF Loop, LoopTest, LoopSpawns, LoopSpawnFails, LoopRecords, LoopReaps,
       LoopTerminates, LoopAwaited, LoopKills, LoopRaises, LoopClears, LoopGoes, OnlyLoop,
       lifeVars, flagVars, partVars
  <2>2. CASE Exits(s)
    BY <2>2 DEF Exits, OnlyLoop, lifeVars, flagVars, partVars
  <2> QED
    BY <2>1, <2>2
<1>2. UNCHANGED <<Standing, Top>>
  BY <1>1 DEF Standing, Depth, Top
<1>3. /\ \A pcs : InFrame(s, pcs)' <=> InFrame(s, pcs)
      /\ \A pcs : In(s, pcs)' <=> In(s, pcs)
      /\ (\E f \in Standing' : Past(f, s)) <=> (\E f \in Standing : Past(f, s))
  BY <1>1, <1>2 DEF InFrame, In, At, Past, Earlier
<1>4. /\ child \in [Supervisors -> ChildStates] /\ named \in [Supervisors -> BOOLEAN]
      /\ terminating \in [Supervisors -> BOOLEAN] /\ loop \in [Supervisors -> LoopPcs]
  BY DEF RunnerTypeOK
<1>5. InFrame(s, {"second", "first", "term", "kill"}) => InFrame(s, TerminatePcs)
  BY DEF InFrame, TerminatePcs
<1> USE DEF LoopGoes, Alive, Served
<1>6. LoopInv(s)'
  <2>1. /\ loop'[s] = "spawn" /\ loop[s] # "spawn" => ~asked[s]
        /\ loop'[s] = "off" => loop[s] = "off"
        /\ loop[s] = "off" => loop'[s] = "off"
        /\ named'[s] => loop'[s] \notin {"off", "test", "spawn", "record"}
        /\ terminating'[s] => terminating[s] \/ asked[s]
    <3>1. named[s] => loop[s] \notin {"off", "test", "spawn", "record"}
      BY DEF Supervised, LoopInv
    <3>2. CASE Exits(s)
      BY <3>1, <3>2 DEF Exits
    <3>3. CASE LoopTest(s) \/ LoopSpawns(s) \/ LoopSpawnFails(s) \/ LoopRecords(s)
      BY <1>4, <3>1, <3>3 DEF LoopTest, LoopSpawns, LoopSpawnFails, LoopRecords
    <3>4. CASE LoopReaps(s) \/ LoopTerminates(s) \/ LoopAwaited(s) \/ LoopKills(s)
               \/ LoopRaises(s) \/ LoopClears(s)
      BY <1>4, <3>1, <3>4 DEF LoopReaps, LoopTerminates, LoopAwaited, LoopKills,
         LoopRaises, LoopClears
    <3> QED
      BY <3>2, <3>3, <3>4 DEF Loop
  <2> QED
    BY <1>1, <1>3, <1>5, <2>1 DEF Supervised, LoopInv
<1>7. EndsInv(s)' /\ TurnInv(s)'
  <2> DEFINE Framed == InFrame(s, {"first", "term"})
  <2>1. /\ s \notin blind /\ Served(s) => loop[s] \in {"record", "watch", "term"} \/ Framed
        /\ s \notin blind /\ terminating[s] /\ (Served(s) \/ loop[s] = "spawn") =>
              loop[s] = "term" \/ Framed \/ In(s, {"nothing"})
        /\ terminating[s] => asked[s]
    BY DEF Supervised, LoopInv, EndsInv, TurnInv
  <2>2. SUFFICES
            ASSUME s \notin blind
            PROVE  /\ Served(s)' => loop'[s] \in {"record", "watch", "term"} \/ Framed
                   /\ terminating'[s] /\ (Served(s)' \/ loop'[s] = "spawn") =>
                         loop'[s] = "term" \/ Framed \/ In(s, {"nothing"})
    BY <1>1, <1>3 DEF EndsInv, TurnInv
  <2> HIDE DEF Framed
  <2>3. CASE Exits(s)
    BY <1>4, <2>1, <2>2, <2>3 DEF Exits
  <2>4. CASE LoopTest(s) \/ LoopSpawns(s) \/ LoopSpawnFails(s)
    BY <1>4, <2>1, <2>2, <2>4 DEF LoopTest, LoopSpawns, LoopSpawnFails
  <2>5. CASE LoopRecords(s) \/ LoopReaps(s) \/ LoopAwaited(s)
    BY <1>4, <2>1, <2>2, <2>5 DEF LoopRecords, LoopReaps, LoopAwaited
  <2>6. CASE LoopTerminates(s)
    BY <1>4, <2>1, <2>2, <2>6 DEF LoopTerminates, Terminated
  <2>7. CASE LoopKills(s) \/ LoopRaises(s) \/ LoopClears(s)
    BY <1>4, <2>1, <2>2, <2>7 DEF LoopKills, LoopRaises, LoopClears, Killed
  <2> QED
    BY <2>3, <2>4, <2>5, <2>6, <2>7 DEF Loop
<1>8. DownInv(s)'
  <2>1. loop[s] \in {"kill", "over"} => loop'[s] \in {"kill", "over"}
    <3>1. CASE Exits(s)
      BY <3>1 DEF Exits
    <3>2. CASE Loop(s)
      BY <1>4, <3>2 DEF Loop, LoopTest, LoopSpawns, LoopSpawnFails, LoopRecords, LoopReaps,
         LoopTerminates, LoopAwaited, LoopKills, LoopRaises, LoopClears
    <3> QED
      BY <3>1, <3>2
  <2> QED
    BY <1>1, <1>3, <2>1 DEF Supervised, DownInv, Ended
<1> QED
  BY <1>6, <1>7, <1>8 DEF Supervised

(* Nothing that concerns s has changed.                                    *)
LEMMA OtherLoop ==
    ASSUME NEW s \in Supervisors, Supervised(s),
           child'[s] = child[s], named'[s] = named[s], terminating'[s] = terminating[s],
           loop'[s] = loop[s], UNCHANGED <<process, stack, stopped, partVars, blind>>
    PROVE  Supervised(s)'
<1>1. UNCHANGED <<Standing, Top, asked, built>>
  BY DEF Standing, Depth, Top, partVars
<1>2. /\ \A pcs : InFrame(s, pcs)' <=> InFrame(s, pcs)
      /\ \A pcs : In(s, pcs)' <=> In(s, pcs)
      /\ (\E f \in Standing' : Past(f, s)) <=> (\E f \in Standing : Past(f, s))
  BY <1>1 DEF InFrame, In, At, Past, Earlier
<1> QED
  BY <1>1, <1>2 DEF Supervised, LoopInv, EndsInv, TurnInv, DownInv, Served, Ended

LEMMA ThreadsStep ==
    ASSUME RunnerTypeOK, NEW s \in Supervisors, Supervised(s), Threads
    PROVE  Supervised(s)'
<1>1. UNCHANGED <<process, stack, stopped, partVars, blind>>
  BY ThreadsKeep DEF lifeVars, flagVars
<1>2. CASE Requests
  BY <1>1, <1>2, OtherLoop DEF Requests, PostArrives, PostChecked, PostSubmits, TakeJob,
     JobEnds, OnlyMain, superVars
<1>3. ASSUME NEW t \in Supervisors, Loop(t) \/ Exits(t), t # s
      PROVE  Supervised(s)'
  <2>1. /\ child \in [Supervisors -> ChildStates] /\ named \in [Supervisors -> BOOLEAN]
        /\ terminating \in [Supervisors -> BOOLEAN] /\ loop \in [Supervisors -> LoopPcs]
    BY DEF RunnerTypeOK
  <2>2. /\ child'[s] = child[s] /\ named'[s] = named[s]
        /\ terminating'[s] = terminating[s] /\ loop'[s] = loop[s]
    <3>1. CASE Exits(t)
      BY <1>3, <2>1, <3>1 DEF Exits
    <3>2. CASE Loop(t)
      BY <1>3, <2>1, <3>2 DEF Loop, LoopTest, LoopSpawns, LoopSpawnFails, LoopRecords,
         LoopReaps, LoopTerminates, LoopAwaited, LoopKills, LoopRaises, LoopClears, LoopGoes,
         Terminated, Killed
    <3> QED
      BY <1>3, <3>1, <3>2
  <2> QED
    BY <1>1, <2>2, OtherLoop
<1> QED
  BY <1>2, <1>3, LoopStep DEF Threads, Supervision

(* A frame is put on top, which has not come to a supervisor.              *)
LEMMA SignalStep ==
    ASSUME RunnerTypeOK, process = "up", Signal, NEW s \in Supervisors, Supervised(s)
    PROVE  Supervised(s)'
<1>1. /\ stack \in Seq(Frames) /\ stack' = Append(stack, Frame("test"))
      /\ UNCHANGED <<process, stopped, built, asked, superVars>>
      /\ blind' = blind \cup {t \in Supervisors : Top.at = "nothing" /\ Top.of = t}
  BY DEF Signal, RunnerTypeOK, flagVars, partVars
<1>2. Frame("test") \in Frames /\ Frame("test").at = "test" /\ Frame("test").of = "none"
  BY FrameTyped DEF StopPcs
<1>3. Standing' = Standing \cup {Frame("test")} /\ Top' = Frame("test")
  BY <1>1, <1>2, PushFrame
<1>4. /\ \A pcs : InFrame(s, pcs)' <=> InFrame(s, pcs)
      /\ ~In(s, {"nothing"})'
      /\ (\E f \in Standing' : Past(f, s)) => (\E f \in Standing : Past(f, s))
  BY <1>2, <1>3, PartNames DEF InFrame, In, At, Past
<1>5. s \notin blind' => s \notin blind /\ ~In(s, {"nothing"})
  BY <1>1 DEF In, At
<1> QED
  BY <1>1, <1>4, <1>5
     DEF Supervised, LoopInv, EndsInv, TurnInv, DownInv, Served, Ended, superVars

(* A frame of stop() ends.                                                 *)
LEMMA ReturnStep ==
    ASSUME RunnerTypeOK, StackInv, process = "up", StopReturns \/ SetStopped,
           NEW s \in Supervisors, Supervised(s)
    PROVE  Supervised(s)'
<1>1. /\ Return
      /\ UNCHANGED <<process, built, asked, superVars, blind>>
      /\ \/ Top.at = "test" /\ stopped' = stopped
         \/ Top.at = "set"
  BY DEF StopReturns, SetStopped, OnlyStack, OnlyMain, At, lifeVars, flagVars, partVars
<1>2. stack \in Seq(Frames) /\ Depth \in Nat /\ Depth > 1 /\ Top \in Standing
  BY <1>1, TopPlace DEF StopPcs
<1>3. Standing' \subseteq Standing /\ Standing \subseteq Standing' \cup {Top}
  BY <1>1, <1>2, PopFrame
<1>4. Top.at \notin TerminatePcs
  BY <1>1 DEF TerminatePcs
<1>5. /\ InFrame(s, TerminatePcs)' => InFrame(s, TerminatePcs)
      /\ InFrame(s, {"second", "first", "term", "kill"})' =>
            InFrame(s, {"second", "first", "term", "kill"})
      /\ InFrame(s, {"first", "term"}) => InFrame(s, {"first", "term"})'
      /\ ~In(s, {"nothing"})
  BY <1>3, <1>4 DEF InFrame, In, At, TerminatePcs
<1>6. stopped' \/ (\E f \in Standing' : Past(f, s)) =>
          stopped \/ \E f \in Standing : Past(f, s)
  BY <1>1, <1>2, <1>3 DEF Past, Earlier
<1> QED
  BY <1>1, <1>5, <1>6
     DEF Supervised, LoopInv, EndsInv, TurnInv, DownInv, Served, Ended, superVars

LEMMA WaitStep ==
    ASSUME RunnerTypeOK, StackInv, process = "up", InstallHandlers \/ WaitBlocks,
           NEW s \in Supervisors, Supervised(s)
    PROVE  Supervised(s)'
<1>1. PICK f \in Frames : Move(f) /\ f.at = "wait" /\ f.of = "none"
  BY WaitMoves
<1>2. UNCHANGED <<process, stopped, asked, built, superVars, blind>>
      /\ Top.at \in {"handlers", "wait"}
  BY WaitMoves DEF lifeVars, partVars
<1>3. terminating[s] => asked[s]
  BY DEF Supervised, LoopInv
<1>4. Passes(f, s)
  BY <1>1, <1>2, <1>3, PartNames DEF Passes, Served, Past, superVars
<1> QED
  BY <1>1, <1>2, <1>4, PassingStep, TopPlace DEF superVars

LEMMA SupervisedStep ==
    ASSUME RunnerTypeOK, StackInv, RunnerNext, process' = "up", NEW s \in Supervisors,
           process = "up" => NewInv(s) /\ Supervised(s)
    PROVE  Supervised(s)'
<1>1. CASE StartProcess
  BY <1>1, NewSupervised
<1>2. CASE Dying
  BY <1>2 DEF Dying, Die
<1>3. CASE Threads
  BY <1>3, ThreadsKeep, ThreadsStep
<1>4. CASE Starting
  BY <1>4, StartingMoves, StartingStep
<1>5. CASE process = "up" /\ Signal
  BY <1>5, SignalStep
<1>6. CASE process = "up" /\ (InstallHandlers \/ WaitBlocks)
  BY <1>6, WaitStep
<1>7. CASE Stop
  <2>1. process = "up" /\ stack \in Seq(Frames) /\ stack # <<>>
    BY <1>7, StopMoves, TopPlace
  <2>2. ASSUME NEW f \in Frames, Climbs(f) PROVE Supervised(s)'
    <3>1. Passes(f, s)
      BY <2>1, <2>2 DEF Climbs, Supervised
    <3> QED
      BY <2>1, <2>2, <3>1, PassingStep DEF Climbs
  <2> QED
    BY <1>2, <1>7, <2>1, <2>2, ReturnStep, StopMoves DEF Dying
<1> QED
  BY <1>1, <1>2, <1>3, <1>4, <1>5, <1>6, <1>7, OtherSteps

(* The process exits cleanly by one step only: wait() returns.             *)
LEMMA ExitStep ==
    ASSUME RunnerTypeOK, RunnerInv, RunnerNext
    PROVE  CleanExitLeavesNothing'
<1> SUFFICES ASSUME process' = "clean", NEW s \in Supervisors, Served(s)'
             PROVE  s \in blind'
  BY DEF CleanExitLeavesNothing, Orphaned, Served
<1>0. StackInv
  BY DEF RunnerInv
<1>1. WaitReturns
  <2>1. CASE SignalKills \/ BindFails \/ BuildRaises \/ MissingRaises \/ Die("error")
    BY <2>1 DEF SignalKills, BindFails, BuildRaises, MissingRaises, Raise, Die
  <2>2. CASE StartProcess
    BY <2>2 DEF StartProcess
  <2>3. CASE Starting
    BY <1>0, <2>3, StartingMoves
  <2>4. CASE Threads
    BY <2>4, ThreadsKeep DEF lifeVars
  <2>5. CASE Signal \/ InstallHandlers \/ WaitBlocks
    BY <2>5, WaitMoves DEF Signal, WaitBlocks, InstallHandlers, At, lifeVars
  <2>6. CASE Stop
    <3>1. process = "up"
      BY <1>0, <2>6, StopMoves
    <3>2. CASE StopReturns \/ SetStopped
      BY <3>1, <3>2 DEF StopReturns, SetStopped, OnlyStack, lifeVars
    <3>3. ASSUME NEW f \in Frames, Climbs(f) PROVE process' = process
      BY <3>3 DEF Climbs
    <3> QED
      BY <1>0, <2>1, <2>6, <3>1, <3>2, <3>3, StopMoves
  <2> QED
    BY <2>1, <2>2, <2>3, <2>4, <2>5, <2>6 DEF RunnerNext, Main, Starting, StartUp
<1>2. process = "up" /\ Top.at = "wait" /\ stopped /\ UNCHANGED <<superVars, blind>>
  BY <1>1 DEF WaitReturns, At, Die
<1>3. Depth = 1
  BY <1>0, <1>2, TopPlace
<1>4. Standing = {Top}
  BY <1>3 DEF Standing, Top, Depth
<1>5. ~InFrame(s, {"first", "term"})
  BY <1>2, <1>4 DEF InFrame
<1>6. Ended(s) /\ Served(s)
  BY <1>2 DEF RunnerInv, Supervised, DownInv, Served, superVars
<1>7. s \in blind
  BY <1>2, <1>5, <1>6 DEF RunnerInv, Supervised, LoopInv, EndsInv, Ended
<1> QED
  BY <1>2, <1>7

-----------------------------------------------------------------------------
(* The types.                                                              *)

(* What the steps of stop() change.                                        *)
LEMMA StopKeeps ==
    ASSUME RunnerTypeOK, Stop, ~Dying
    PROVE  /\ UNCHANGED <<lifeVars, handling, config, handler, posts, jobVars, built,
                          loop, blind>>
           /\ stopped' \in {stopped, TRUE}
           /\ server' \in {server, "down", "none"}
           /\ asked' \in [Parts -> BOOLEAN] /\ dropped' \subseteq Parts
           /\ child' \in [Supervisors -> ChildStates]
           /\ named' \in [Supervisors -> BOOLEAN]
           /\ terminating' \in [Supervisors -> BOOLEAN]
<1> USE DEF OnlyStack, OnlyMain, OnlyLife, lifeVars, flagVars, httpVars, jobVars, partVars,
        superVars
<1>0. /\ asked \in [Parts -> BOOLEAN] /\ dropped \subseteq Parts
      /\ child \in [Supervisors -> ChildStates] /\ named \in [Supervisors -> BOOLEAN]
      /\ terminating \in [Supervisors -> BOOLEAN]
  BY DEF RunnerTypeOK
<1>1. CASE TakeLock \/ StopReturns \/ StopBegins \/ ShutDown \/ CloseServer \/ SetStopped
  BY <1>0, <1>1 DEF TakeLock, StopReturns, StopBegins, ShutDown, CloseServer, SetStopped
<1>2. CASE \E p \in Parts : StopPart(p) \/ Drop(p)
  <2>1. PICK p \in Parts : StopPart(p) \/ Drop(p)
    BY <1>2
  <2>2. asked' = asked \/ asked' = [asked EXCEPT ![p] = TRUE]
    BY <2>1 DEF StopPart, Drop
  <2>3. asked' \in [Parts -> BOOLEAN]
    BY <1>0, <2>2
  <2> QED
    BY <1>0, <2>1, <2>3 DEF StopPart, Drop
<1>3. CASE \E s \in Supervisors : Enter(s) \/ Clears(s)
  <2>1. PICK s \in Supervisors : Enter(s) \/ Clears(s)
    BY <1>3
  <2>2. \E b, c \in BOOLEAN : /\ named' = named \/ named' = [named EXCEPT ![s] = b]
                              /\ terminating' = [terminating EXCEPT ![s] = c]
    BY <1>0, <2>1 DEF Enter, Clears
  <2>3. named' \in [Supervisors -> BOOLEAN] /\ terminating' \in [Supervisors -> BOOLEAN]
    BY <1>0, <2>2
  <2> QED
    BY <1>0, <2>1, <2>3 DEF Enter, Clears
<1>4. CASE \E s \in Supervisors : Terminates(s) \/ Kills(s)
  <2>1. PICK s \in Supervisors : Terminates(s) \/ Kills(s)
    BY <1>4
  <2>2. child' \in [Supervisors -> ChildStates]
    BY <1>0, <2>1 DEF Terminates, Kills, Terminated, Killed, ChildStates
  <2> QED
    BY <1>0, <2>1, <2>2 DEF Terminates, Kills
<1>5. CASE \E s \in Supervisors : FindsGone(s) \/ Awaits(s) \/ Awaited(s) \/ Exited(s) \/ Join(s)
  BY <1>0, <1>5 DEF FindsGone, Awaits, Awaited, Exited, Join
<1>6. ~(CloseRaises \/ (\E p \in Parts : DropRaises(p)) \/ \E s \in Supervisors : KillRaises(s))
  BY DEF CloseRaises, DropRaises, KillRaises, Raise, Dying
<1> QED
  BY <1>1, <1>2, <1>3, <1>4, <1>5, <1>6 DEF Stop, Terminate

(* What the steps of start() change.                                       *)
LEMMA StartingKeeps ==
    ASSUME RunnerTypeOK, Starting
    PROVE  /\ UNCHANGED <<lifeVars, handling, stopped, handler, posts, inHand, asked, dropped,
                          child, named, terminating, blind>>
           /\ config' \in {config, "in", "out"}
           /\ server' \in {server, "bound", "serving"}
           /\ queue' = queue \/ queue' = Append(queue, "backfill")
           /\ built' \subseteq Parts /\ loop' \in [Supervisors -> LoopPcs]
<1> USE DEF OnlyStack, OnlyMain, lifeVars, flagVars, httpVars, jobVars, partVars, superVars
<1>0. built \subseteq Parts /\ loop \in [Supervisors -> LoopPcs]
  BY DEF RunnerTypeOK
<1>1. CASE LoadConfig \/ Bind \/ Serve \/ Gate \/ BackfillMissing
  BY <1>0, <1>1 DEF LoadConfig, Bind, Serve, Gate, BackfillMissing
<1>2. CASE Build("jobs", "serve") \/ Build("watch", "missing")
  BY <1>0, <1>2 DEF Build, Parts
<1>3. CASE BuildSupervisor("llama", "newt") \/ BuildSupervisor("newt", "watch")
  <2>1. loop' \in [Supervisors -> LoopPcs]
    BY <1>0, <1>3 DEF BuildSupervisor, LoopPcs
  <2> QED
    BY <1>0, <1>3, <2>1 DEF BuildSupervisor, Parts, Supervisors
<1> QED
  BY <1>1, <1>2, <1>3 DEF Starting

(* What the steps of a supervisor's loop change.                           *)
LEMMA LoopKeeps ==
    ASSUME RunnerTypeOK, NEW s \in Supervisors, Loop(s) \/ Exits(s)
    PROVE  /\ UNCHANGED <<lifeVars, stack, flagVars, httpVars, jobVars, partVars, blind>>
           /\ child' \in [Supervisors -> ChildStates]
           /\ named' \in [Supervisors -> BOOLEAN]
           /\ terminating' \in [Supervisors -> BOOLEAN]
           /\ loop' \in [Supervisors -> LoopPcs]
<1>1. /\ child \in [Supervisors -> ChildStates] /\ named \in [Supervisors -> BOOLEAN]
      /\ terminating \in [Supervisors -> BOOLEAN] /\ loop \in [Supervisors -> LoopPcs]
  BY DEF RunnerTypeOK
<1>2. /\ \/ child' = child
         \/ \E c \in ChildStates : child' = [child EXCEPT ![s] = c]
         \/ child' = Terminated(s)
      /\ named' = named \/ \E b \in BOOLEAN : named' = [named EXCEPT ![s] = b]
      /\ terminating' = terminating
            \/ \E b \in BOOLEAN : terminating' = [terminating EXCEPT ![s] = b]
      /\ loop' = loop \/ \E at \in LoopPcs : loop' = [loop EXCEPT ![s] = at]
      /\ UNCHANGED <<lifeVars, stack, flagVars, httpVars, jobVars, partVars, blind>>
  <2> USE DEF LoopGoes, OnlyLoop, LoopPcs, ChildStates
  <2>1. CASE Exits(s)
    BY <2>1 DEF Exits
  <2>2. CASE LoopTest(s) \/ LoopSpawns(s) \/ LoopSpawnFails(s) \/ LoopRecords(s)
    BY <2>2 DEF LoopTest, LoopSpawns, LoopSpawnFails, LoopRecords
  <2>3. CASE LoopReaps(s) \/ LoopTerminates(s) \/ LoopAwaited(s)
    BY <2>3 DEF LoopReaps, LoopTerminates, LoopAwaited
  <2>4. CASE LoopKills(s) \/ LoopRaises(s) \/ LoopClears(s)
    BY <2>4 DEF LoopKills, LoopRaises, LoopClears, Killed
  <2> QED
    BY <2>1, <2>2, <2>3, <2>4 DEF Loop
<1>3. Terminated(s) \in [Supervisors -> ChildStates]
  BY <1>1 DEF Terminated, ChildStates
<1> QED
  BY <1>1, <1>2, <1>3

LEMMA RunnerTypeStep == RunnerTypeOK /\ StackInv /\ [RunnerNext]_mainVars => RunnerTypeOK'
<1> SUFFICES ASSUME RunnerTypeOK, StackInv, RunnerNext PROVE RunnerTypeOK'
  BY DEF mainVars, lifeVars, flagVars, httpVars, jobVars, partVars, superVars, RunnerTypeOK
<1>0. stack' \in Seq(Frames)
  BY StackStep
<1> DEFINE Life == /\ process \in {"none", "up", "clean", "error", "killed"}
                   /\ signals \in 0 .. MaxSignals /\ starts \in 0 .. MaxStarts
           Flags == /\ handling \in BOOLEAN /\ stopped \in BOOLEAN
                    /\ config \in {"none", "in", "out"}
           Http == /\ server \in {"none", "bound", "serving", "down"}
                   /\ handler \in {"idle", "checking", "submitting"}
                   /\ posts \in 0 .. MaxPosts
           Jobs == queue \in Seq(Kinds) /\ inHand \in Kinds \cup {"none"}
           Units == /\ built \subseteq Parts /\ asked \in [Parts -> BOOLEAN]
                    /\ dropped \subseteq Parts
           Supers == /\ child \in [Supervisors -> ChildStates]
                     /\ named \in [Supervisors -> BOOLEAN]
                     /\ terminating \in [Supervisors -> BOOLEAN]
                     /\ loop \in [Supervisors -> LoopPcs]
                     /\ blind \subseteq Supervisors
<1>1. Life /\ Flags /\ Http /\ Jobs /\ Units /\ Supers
  BY DEF RunnerTypeOK
<1> USE DEF lifeVars, flagVars, httpVars, jobVars, partVars, superVars
<1>2. CASE StartProcess
  <2>1. Life'
    <3>1. process' = "up" /\ starts < MaxStarts /\ starts' = starts + 1 /\ signals' = 0
      BY <1>2 DEF StartProcess
    <3> QED
      BY <1>1, <3>1
  <2>2. Flags' /\ Http'
    <3>1. /\ handling' = FALSE /\ config' = "none" /\ stopped' = FALSE
          /\ server' = "none" /\ handler' = "idle" /\ posts' = 0
      BY <1>2 DEF StartProcess
    <3>2. 0 \in 0 .. MaxPosts
      OBVIOUS
    <3> QED
      BY <3>1, <3>2
  <2>3. Jobs'
    <3>1. queue' = <<>> /\ inHand' = "none"
      BY <1>2 DEF StartProcess
    <3> QED
      BY <3>1, EmptySeq
  <2>4. Units' /\ Supers'
    <3>1. /\ built' = {} /\ dropped' = {} /\ blind' = {}
          /\ asked' = [p \in Parts |-> FALSE]
          /\ child' = [s \in Supervisors |-> "none"]
          /\ named' = [s \in Supervisors |-> FALSE]
          /\ terminating' = [s \in Supervisors |-> FALSE]
          /\ loop' = [s \in Supervisors |-> "off"]
      BY <1>2 DEF StartProcess
    <3>2. "none" \in ChildStates /\ "off" \in LoopPcs
      BY DEF ChildStates, LoopPcs
    <3> QED
      BY <3>1, <3>2
  <2> QED
    BY <1>0, <2>1, <2>2, <2>3, <2>4 DEF RunnerTypeOK
<1>3. CASE Dying
  <2>1. process' \in {"none", "up", "clean", "error", "killed"}
        /\ UNCHANGED <<starts, signals, flagVars, httpVars, jobVars, partVars, superVars,
                       blind>>
    BY <1>3 DEF Dying, Die
  <2> QED
    BY <1>0, <1>1, <2>1 DEF RunnerTypeOK
<1>4. CASE Starting
  <2>1. queue' \in Seq(Kinds)
    <3>1. Append(queue, "backfill") \in Seq(Kinds)
      BY <1>1, AppendProperties DEF Kinds
    <3> QED
      BY <1>1, <1>4, <3>1, StartingKeeps
  <2>2. Life' /\ Flags' /\ Http'
    BY <1>1, <1>4, StartingKeeps
  <2>3. Jobs' /\ Units' /\ Supers'
    BY <1>1, <1>4, <2>1, StartingKeeps
  <2> QED
    BY <1>0, <2>2, <2>3 DEF RunnerTypeOK
<1>5. CASE InstallHandlers \/ WaitBlocks
  <2>1. UNCHANGED <<lifeVars, config, stopped, httpVars, jobVars, partVars, superVars, blind>>
        /\ handling' \in BOOLEAN
    BY <1>1, <1>5, WaitMoves
  <2> QED
    BY <1>0, <1>1, <2>1 DEF RunnerTypeOK
<1>6. CASE Signal
  <2>1. UNCHANGED <<process, starts, flagVars, httpVars, jobVars, partVars, superVars>>
        /\ signals' \in 0 .. MaxSignals /\ blind' \subseteq Supervisors
    BY <1>1, <1>6 DEF Signal
  <2> QED
    BY <1>0, <1>1, <2>1 DEF RunnerTypeOK
<1>7. CASE Stop
  <2>1. CASE ~Dying
    <3>1. Life' /\ Flags' /\ Http' /\ Jobs'
      BY <1>1, <1>7, <2>1, StopKeeps
    <3>2. Units' /\ Supers'
      BY <1>1, <1>7, <2>1, StopKeeps
    <3> QED
      BY <1>0, <3>1, <3>2 DEF RunnerTypeOK
  <2> QED
    BY <1>3, <2>1
<1>8. CASE Requests
  <2>1. UNCHANGED <<lifeVars, flagVars, server, partVars, superVars, blind>>
    BY <1>8 DEF Requests, PostArrives, PostChecked, PostSubmits, TakeJob, JobEnds, OnlyMain
  <2>2. Http'
    BY <1>1, <1>8 DEF Requests, PostArrives, PostChecked, PostSubmits, TakeJob, JobEnds
  <2>3. Append(queue, "post") \in Seq(Kinds)
    BY <1>1, AppendProperties DEF Kinds
  <2>4. queue # <<>> => Head(queue) \in Kinds /\ Tail(queue) \in Seq(Kinds)
    BY <1>1, HeadTailProperties
  <2>5. Jobs'
    BY <1>1, <1>8, <2>3, <2>4 DEF Requests, PostArrives, PostChecked, PostSubmits, TakeJob,
       JobEnds
  <2> QED
    BY <1>0, <1>1, <2>1, <2>2, <2>5 DEF RunnerTypeOK
<1>9. ASSUME NEW s \in Supervisors, Loop(s) \/ Exits(s) PROVE RunnerTypeOK'
  BY <1>0, <1>1, <1>9, LoopKeeps DEF RunnerTypeOK
<1> QED
  BY <1>2, <1>3, <1>4, <1>5, <1>6, <1>7, <1>8, <1>9, OtherSteps DEF Threads, Supervision

LEMMA RunnerStarts == RunnerInit => RunnerTypeOK /\ RunnerInv
<1> SUFFICES ASSUME RunnerInit PROVE RunnerTypeOK /\ RunnerInv
  OBVIOUS
<1>1. stack \in Seq(Frames) /\ queue \in Seq(Kinds)
  BY EmptySeq DEF RunnerInit
<1>2. 0 \in 0 .. MaxSignals /\ 0 \in 0 .. MaxStarts /\ 0 \in 0 .. MaxPosts
  OBVIOUS
<1>3. /\ asked \in [Parts -> BOOLEAN] /\ built \subseteq Parts /\ dropped \subseteq Parts
      /\ child \in [Supervisors -> ChildStates] /\ named \in [Supervisors -> BOOLEAN]
      /\ terminating \in [Supervisors -> BOOLEAN] /\ loop \in [Supervisors -> LoopPcs]
      /\ blind \subseteq Supervisors
  BY DEF RunnerInit, ChildStates, LoopPcs
<1>4. RunnerTypeOK
  BY <1>1, <1>2, <1>3 DEF RunnerInit, RunnerTypeOK
<1>5. StackInv /\ CleanExitLeavesNothing
  BY DEF RunnerInit, StackInv, CleanExitLeavesNothing, Orphaned
<1> QED
  BY <1>4, <1>5 DEF RunnerInv, RunnerInit

LEMMA RunnerStep ==
    RunnerTypeOK /\ RunnerInv /\ [RunnerNext]_mainVars => RunnerTypeOK' /\ RunnerInv'
<1> SUFFICES ASSUME RunnerTypeOK, RunnerInv, [RunnerNext]_mainVars
             PROVE RunnerTypeOK' /\ RunnerInv'
  OBVIOUS
<1>1. RunnerTypeOK'
  BY RunnerTypeStep DEF RunnerInv
<1>2. CASE RunnerNext
  <2>1. StackInv /\ StackInv' /\ CleanExitLeavesNothing'
    BY <1>2, StackStep, ExitStep DEF RunnerInv
  <2>2. ASSUME process' = "up", NEW s \in Supervisors PROVE NewInv(s)' /\ Supervised(s)'
    <3>1. process = "up" => NewInv(s) /\ Supervised(s)
      BY DEF RunnerInv
    <3> QED
      BY <1>2, <2>1, <2>2, <3>1, NewStep, SupervisedStep
  <2> QED
    BY <1>1, <2>1, <2>2 DEF RunnerInv
<1>3. CASE UNCHANGED mainVars
  <2>1. StackInv' /\ CleanExitLeavesNothing'
    BY <1>3 DEF mainVars, lifeVars, flagVars, superVars, RunnerInv, StackInv, Depth,
       CleanExitLeavesNothing, Orphaned
  <2>2. ASSUME process' = "up", NEW s \in Supervisors PROVE NewInv(s)' /\ Supervised(s)'
    <3>1. NewInv(s) /\ Supervised(s)
      BY <1>3, <2>2 DEF RunnerInv, mainVars, lifeVars
    <3> QED
      BY <1>3, <3>1, OtherLoop DEF NewInv, mainVars, lifeVars, flagVars, partVars, superVars
  <2> QED
    BY <1>1, <2>1, <2>2 DEF RunnerInv
<1> QED
  BY <1>1, <1>2, <1>3

LEMMA RunnerInvariant ==
    RunnerSpec => [](RunnerTypeOK /\ RunnerInv)
<1>1. RunnerInit => RunnerTypeOK /\ RunnerInv
  BY RunnerStarts
<1> QED
  BY <1>1, RunnerStep, PTL DEF RunnerSpec

(* The frames of the main thread, the queue and the supervisors keep their *)
(* shapes, however many signals arrive.                                    *)
THEOREM RunnerTypeCorrect ==
    RunnerSpec => []RunnerTypeOK
  BY RunnerInvariant, PTL

(* A service process that ends cleanly leaves no llama-server and no newt  *)
(* that was not at least sent SIGKILL, however many signals arrived and    *)
(* whichever handler called stop() to the end, unless one of them          *)
(* interrupted a _terminate_process that had found nothing to terminate.   *)
THEOREM CleanExitsAreClean ==
    RunnerSpec => []CleanExitLeavesNothing
<1>1. RunnerInv => CleanExitLeavesNothing
  BY DEF RunnerInv
<1> QED
  BY <1>1, RunnerInvariant, PTL
=============================================================================
