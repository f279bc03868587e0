---------------------------- MODULE ModelOps_proofs ----------------------------
(***************************************************************************)
(* Proofs about ModelOps for any set of models and of actors, and any      *)
(* number of builds and crashes.                                           *)
(***************************************************************************)
EXTENDS ModelOps, TLAPS

USE OpsAssumption, NoOpsModelAssumption DEF OpsAssumption, NoOpsModelAssumption

(* The part of TypeOK that speaks of the actors.                           *)
Resting == {"idle", "next"}
ActivityOK(a, r) ==
    /\ r \in Activity
    /\ r.model = NoModel <=> r.pc \in Resting
    /\ a = Job => r.op # "remove"
    /\ a # Job => r.op # "backfill"
ActorsOK ==
    /\ at \in [Actors -> Activity]
    /\ \A a \in Actors : ActivityOK(a, at[a])

LEMMA ActorsOKInTypeOK == TypeOK => ActorsOK
  BY DEF TypeOK, ActorsOK, ActivityOK, Resting

LEMMA ActorsOKBack ==
    ASSUME ActorsOK
    PROVE  /\ at \in [Actors -> Activity]
           /\ \A a \in Actors : at[a].model = NoModel <=> at[a].pc \in {"idle", "next"}
           /\ at[Job].op # "remove" /\ \A a \in Actors \ {Job} : at[a].op # "backfill"
  BY DEF ActorsOK, ActivityOK, Resting

LEMMA IdleOK ==
    ASSUME NEW a
    PROVE  ActivityOK(a, Idle)
  BY DEF ActivityOK, Idle, Activity, Ops, Pcs, Resting

LEMMA BecomesOK ==
    ASSUME ActorsOK, NEW a \in Actors, NEW r, ActivityOK(a, r), Becomes(a, r)
    PROVE  ActorsOK'
<1>1. r \in Activity
  BY DEF ActivityOK
<1>2. at' = [at EXCEPT ![a] = r]
  BY DEF Becomes
<1>3. at' \in [Actors -> Activity]
  BY <1>1, <1>2 DEF ActorsOK
<1>4. \A b \in Actors : at'[b] = IF b = a THEN r ELSE at[b]
  BY <1>2 DEF ActorsOK
<1> QED
  BY <1>3, <1>4 DEF ActorsOK, ActivityOK

(* An operation that goes on with its model.                               *)
LEMMA GotoOK ==
    ASSUME ActorsOK, NEW a \in Actors, at[a].pc \notin Resting,
           NEW p \in Pcs \ Resting, Goto(a, p)
    PROVE  ActorsOK'
<1>1. ActivityOK(a, [at[a] EXCEPT !.pc = p])
  BY DEF ActorsOK, ActivityOK, Activity
<1>2. Becomes(a, [at[a] EXCEPT !.pc = p])
  BY DEF Goto, Becomes
<1> QED
  BY <1>1, <1>2, BecomesOK

LEMMA DoneOK ==
    ASSUME ActorsOK, NEW a \in Actors, DoneWith(a)
    PROVE  ActorsOK'
<1>1. ActivityOK(a, Idle)
  BY IdleOK
<1>2. ActivityOK(a, [at[a] EXCEPT !.pc = "next", !.model = NoModel])
  BY DEF ActorsOK, ActivityOK, Activity, Pcs, Resting
<1>3. CASE at[a].op \in {"pull", "remove"}
  BY <1>1, <1>3, BecomesOK DEF DoneWith
<1>4. CASE at[a].op \notin {"pull", "remove"}
  BY <1>2, <1>4, BecomesOK DEF DoneWith
<1> QED
  BY <1>3, <1>4

(* Who is at work has a model.                                             *)
LEMMA HasModel ==
    ASSUME ActorsOK, NEW a \in Actors, at[a].pc \notin Resting
    PROVE  at[a].model \in Models
  BY DEF ActorsOK, ActivityOK, Activity

(* A step of an operation keeps the types of the actors.                   *)
LEMMA WorkActors ==
    ASSUME ActorsOK, NEW a \in Actors, Work(a)
    PROVE  ActorsOK'
<1> USE DEF Resting, Pcs
<1>1. CASE NextTarget(a)
  <2>1. CASE at[a].left = {}
    BY <1>1, <2>1, IdleOK, BecomesOK DEF NextTarget
  <2>2. CASE at[a].left # {}
    <3>1. PICK m \in at[a].left :
              Becomes(a, [at[a] EXCEPT !.pc = "size", !.model = m, !.left = @ \ {m}])
      BY <1>1, <2>2 DEF NextTarget
    <3>2. m \in Models
      BY <3>1 DEF ActorsOK, Activity
    <3>3. ActivityOK(a, [at[a] EXCEPT !.pc = "size", !.model = m, !.left = @ \ {m}])
      BY <3>2 DEF ActorsOK, ActivityOK, Activity
    <3> QED
      BY <3>1, <3>3, BecomesOK
  <2> QED
    BY <2>1, <2>2
<1>2. CASE Download(a)
  BY <1>2, GotoOK, IdleOK, BecomesOK DEF Download
<1>3. CASE SkipSized(a)
  BY <1>3, DoneOK DEF SkipSized
<1>4. CASE SizeLoads(a)
  <2>1. ASSUME NEW viable \in BOOLEAN, Probes(a),
               Becomes(a, [at[a] EXCEPT !.pc = "forgive", !.viable = viable])
        PROVE  ActorsOK'
    <3>1. ActivityOK(a, [at[a] EXCEPT !.pc = "forgive", !.viable = viable])
      BY <2>1 DEF Probes, ActorsOK, ActivityOK, Activity
    <3> QED
      BY <2>1, <3>1, BecomesOK
  <2> QED
    BY <1>4, <2>1, GotoOK, DoneOK DEF SizeLoads, Probes
<1>5. CASE SizeWontLoad(a)
  BY <1>5, GotoOK, DoneOK DEF SizeWontLoad, Probes
<1>6. CASE SizeFails(a)
  BY <1>6, GotoOK, DoneOK DEF SizeFails, Probes
<1>7. CASE Forgive(a)
  BY <1>7, GotoOK, DoneOK DEF Forgive
<1>8. CASE Delete(a)
  BY <1>8, GotoOK, DoneOK DEF Delete
<1>9. CASE DropPreset(a)
  BY <1>9, GotoOK DEF DropPreset
<1>10. CASE DropGrade(a)
  BY <1>10, GotoOK DEF DropGrade
<1>11. CASE DropHealth(a)
  BY <1>11, DoneOK DEF DropHealth
<1>12. CASE Hold(a)
  BY <1>12, DoneOK DEF Hold
<1>13. CASE Measure(a)
  BY <1>13, GotoOK, DoneOK DEF Measure
<1>14. CASE Record(a)
  BY <1>14, DoneOK DEF Record
<1> QED
  BY <1>1, <1>2, <1>3, <1>4, <1>5, <1>6, <1>7, <1>8, <1>9, <1>10, <1>11,
     <1>12, <1>13, <1>14 DEF Work

LEMMA RequestActors ==
    ASSUME ActorsOK, TypeOK, NEW a \in Actors, Request(a)
    PROVE  ActorsOK'
<1>1. ASSUME NEW m \in Models, NEW keep \in BOOLEAN, StartPull(a, m, keep)
      PROVE  ActorsOK'
  <2>1. ActivityOK(a, [Idle EXCEPT !.op = "pull", !.pc = "download", !.model = m,
                                   !.keep = keep])
    BY DEF ActivityOK, Idle, Activity, Ops, Pcs, Resting
  <2> QED
    BY <1>1, <2>1, BecomesOK DEF StartPull
<1>2. ASSUME NEW targets \in SUBSET Models, StartBenchmark(a, targets)
      PROVE  ActorsOK'
  <2>1. ActivityOK(a, [Idle EXCEPT !.op = "benchmark", !.pc = "next", !.left = targets])
    BY DEF ActivityOK, Idle, Activity, Ops, Pcs, Resting
  <2> QED
    BY <1>2, <2>1, BecomesOK DEF StartBenchmark
<1>3. ASSUME NEW m \in Models, StartRemove(a, m) PROVE ActorsOK'
  <2>1. ActivityOK(a, [Idle EXCEPT !.op = "remove", !.pc = "delete", !.model = m])
    BY <1>3 DEF StartRemove, ActivityOK, Idle, Activity, Ops, Pcs, Resting
  <2> QED
    BY <1>3, <2>1, BecomesOK DEF StartRemove
<1> QED
  BY <1>1, <1>2, <1>3 DEF Request

(* What a step of an actor does to everything but the actors.              *)
StoresOK ==
    /\ disk \subseteq Models
    /\ sized \subseteq Models
    /\ grade \in [Models -> 0 .. MaxBuild]
    /\ device \in 0 .. MaxBuild
    /\ held \subseteq Models
    /\ build \in 1 .. MaxBuild
    /\ pending \subseteq Models
    /\ crashes \in 0 .. MaxCrashes

LEMMA WorkStores ==
    ASSUME ActorsOK, StoresOK, NEW a \in Actors, Work(a)
    PROVE  StoresOK'
<1> USE DEF StoresOK, stores
<1>1. at[a].pc \notin Resting => at[a].model \in Models
  BY HasModel
<1>2. CASE NextTarget(a) \/ SkipSized(a) \/ SizeWontLoad(a) \/ SizeFails(a) \/ Measure(a)
  BY <1>2 DEF NextTarget, SkipSized, SizeWontLoad, SizeFails, Measure
<1>3. CASE Download(a) \/ SizeLoads(a) \/ Hold(a)
  BY <1>1, <1>3 DEF Download, SizeLoads, Probes, Hold, Resting
<1>4. CASE Forgive(a) \/ Delete(a) \/ DropPreset(a) \/ DropHealth(a)
  BY <1>4 DEF Forgive, Delete, DropPreset, DropHealth
<1>5. CASE DropGrade(a)
  BY <1>1, <1>5 DEF DropGrade, NoGrade, Resting
<1>6. CASE Record(a)
  <2>1. at[a].model \in Models /\ build \in 0 .. MaxBuild
    BY <1>1, <1>6 DEF Record, Resting
  <2> QED
    BY <1>6, <2>1 DEF Record
<1> QED
  BY <1>2, <1>3, <1>4, <1>5, <1>6 DEF Work

HistoryOK == disturbed \subseteq Models /\ skipped \subseteq Models

LEMMA HistoryStep ==
    ASSUME ActorsOK, StoresOK, HistoryOK, NEW a \in Actors, Goes(a) \/ Breaks(a)
    PROVE  HistoryOK'
<1>1. Confuses(a) \subseteq Models /\ Interrupts(a) \subseteq Models
  BY DEF Confuses, Overlapped, Interrupts
<1>2. PassesOver(a) \subseteq Models
  <2>1. at[a] \in Activity
    BY DEF ActorsOK
  <2>2. at[a].left \subseteq Models /\ at[a].model \in Models \cup {NoModel}
    BY <2>1 DEF Activity
  <2> QED
    BY <2>2 DEF PassesOver
<1>3. Crash(a) => skipped' \subseteq Models
  BY DEF Crash, Starts, Missing, StoresOK, HistoryOK
<1>4. disturbed' \subseteq Models
  BY <1>1 DEF Goes, Breaks, HistoryOK
<1>5. skipped' \subseteq Models
  BY <1>2, <1>3 DEF Goes, Breaks, HistoryOK
<1> QED
  BY <1>4, <1>5 DEF HistoryOK

LEMMA TypeStep ==
    ASSUME TypeOK, [Next]_vars
    PROVE  TypeOK'
<1>1. ActorsOK /\ StoresOK /\ HistoryOK
  BY ActorsOKInTypeOK DEF TypeOK, StoresOK, HistoryOK
<1>2. ASSUME ActorsOK', StoresOK', HistoryOK' PROVE TypeOK'
  BY <1>2 DEF ActorsOK, ActivityOK, Resting, StoresOK, HistoryOK, TypeOK
<1>3. ASSUME NEW a \in Actors, Goes(a) \/ Breaks(a) PROVE HistoryOK'
  BY <1>1, <1>3, HistoryStep
<1>4. ASSUME NEW a \in Actors, Request(a), Goes(a) PROVE TypeOK'
  <2>1. ActorsOK'
    BY <1>1, <1>4, RequestActors
  <2>2. StoresOK'
    BY <1>1, <1>3, <1>4 DEF Request, StartPull, StartBenchmark, StartRemove, StoresOK, stores
  <2> QED
    BY <1>2, <1>3, <1>4, <2>1, <2>2
<1>5. ASSUME NEW a \in Actors, Work(a), Goes(a) PROVE TypeOK'
  BY <1>1, <1>2, <1>3, <1>5, WorkActors, WorkStores
<1>6. ASSUME NEW a \in Actors, Breaks(a) PROVE TypeOK'
  <2>1. CASE Crash(a)
    <3>1. ActorsOK'
      BY <1>1, <2>1, IdleOK, BecomesOK DEF Crash
    <3>2. crashes' \in 0 .. MaxCrashes
      BY <1>1, <2>1 DEF Crash, StoresOK
    <3>3. StoresOK'
      BY <1>1, <2>1, <3>2 DEF Crash, Starts, Missing, StoresOK, stores
    <3> QED
      BY <1>2, <1>3, <1>6, <3>1, <3>3
  <2>2. CASE Raises(a)
    <3>1. ActorsOK'
      BY <1>1, <2>2, IdleOK, BecomesOK DEF Raises
    <3>2. StoresOK'
      BY <1>1, <2>2 DEF Raises, StoresOK, stores
    <3> QED
      BY <1>2, <1>3, <1>6, <3>1, <3>2
  <2>3. CASE DeleteUnheard(a)
    <3>1. ActorsOK'
      BY <1>1, <2>3, DoneOK DEF DeleteUnheard
    <3>2. StoresOK'
      BY <1>1, <2>3 DEF DeleteUnheard, StoresOK
    <3> QED
      BY <1>2, <1>3, <1>6, <3>1, <3>2
  <2> QED
    BY <1>6, <2>1, <2>2, <2>3 DEF Breaks
<1>7. CASE StartBackfill
  <2>1. ActivityOK(Job, [Idle EXCEPT !.op = "backfill", !.pc = "next", !.left = Missing])
    BY <1>1 DEF StoresOK, Missing, ActivityOK, Idle, Activity, Ops, Pcs, Resting
  <2>2. ActorsOK'
    <3>1. CASE UNCHANGED at
      BY <1>1, <3>1 DEF ActorsOK, ActivityOK
    <3> QED
      BY <1>1, <1>7, <2>1, <3>1, BecomesOK DEF StartBackfill
  <2>3. StoresOK' /\ HistoryOK'
    BY <1>1, <1>7 DEF StartBackfill, Missing, StoresOK, stores, HistoryOK
  <2> QED
    BY <1>2, <2>2, <2>3
<1>8. CASE Upgrade
  <2>1. ActorsOK'
    BY <1>1, <1>8 DEF Upgrade, ActorsOK, ActivityOK
  <2>2. build' \in 1 .. MaxBuild
    BY <1>1, <1>8 DEF Upgrade, StoresOK
  <2>3. StoresOK' /\ HistoryOK'
    BY <1>1, <1>8, <2>2 DEF Upgrade, Starts, Missing, StoresOK, stores, HistoryOK
  <2> QED
    BY <1>2, <2>1, <2>3
<1>9. CASE UNCHANGED vars
  BY <1>9 DEF vars, stores, TypeOK
<1> QED
  BY <1>4, <1>5, <1>6, <1>7, <1>8, <1>9 DEF Next, Goes

LEMMA TypeInit == Init => TypeOK
<1> SUFFICES ASSUME Init PROVE TypeOK
  OBVIOUS
<1>1. \A a \in Actors : ActivityOK(a, Idle)
  BY IdleOK
<1>2. ActorsOK
  BY <1>1 DEF Init, ActorsOK, ActivityOK
<1>3. pending \subseteq Models /\ skipped \subseteq Models
  BY DEF Init
<1> QED
  BY <1>2, <1>3, ActorsOKBack DEF Init, TypeOK, NoGrade

(* Every variable keeps its type; who is at work has a model, a removal    *)
(* never runs on the job queue and the backfill nowhere else.              *)
THEOREM TypeCorrect == Spec => []TypeOK
<1>1. TypeOK /\ [Next]_vars => TypeOK'
  BY TypeStep
<1> QED
  BY <1>1, TypeInit, PTL DEF Spec

-----------------------------------------------------------------------------
(* Weights are deleted by a removal or by a pull that was not to keep them,*)
(* whoever else is at work (model_ops.py:152, 454, 472, 588).              *)

(* A pull that keeps its model does not come to the deletion; nor does any *)
(* other operation that does not delete.                                   *)
DeleterOK(a) ==
    at[a].pc = "delete" => at[a].op = "remove" \/ (at[a].op = "pull" /\ ~at[a].keep)
DeletersOK == \A a \in Actors : DeleterOK(a)
ForgiverOK(a) == at[a].pc = "forgive" => at[a].op = "pull"
ForgiversOK == \A a \in Actors : ForgiverOK(a)
DeleteInv == ActorsOK /\ DeletersOK /\ ForgiversOK

LEMMA OthersUnmoved ==
    ASSUME ActorsOK, NEW a \in Actors, Goes(a) \/ Breaks(a)
    PROVE  \A b \in Actors \ {a} : at'[b] = at[b]
  BY DEF ActorsOK, Request, StartPull, StartBenchmark, StartRemove, Work, NextTarget,
     Download, SkipSized, SizeLoads, SizeWontLoad, SizeFails, Forgive, Delete,
     DropPreset, DropGrade, DropHealth, Hold, Measure, Record, Crash, Raises,
     DeleteUnheard, Goes, Breaks, Becomes, Goto, DoneWith

LEMMA DeleteStep ==
    ASSUME DeleteInv, TypeOK', [Next]_vars
    PROVE  DeleteInv'
<1>0. ActorsOK'
  BY ActorsOKInTypeOK DEF TypeOK, ActorsOK, ActivityOK, Resting
<1>1. ASSUME NEW a \in Actors, Goes(a) \/ Breaks(a),
             (DeleterOK(a) /\ ForgiverOK(a))'
      PROVE  DeleteInv'
  BY <1>0, <1>1, OthersUnmoved DEF DeleteInv, DeletersOK, ForgiversOK, DeleterOK, ForgiverOK
<1>2. ASSUME NEW a \in Actors, Request(a) PROVE (DeleterOK(a) /\ ForgiverOK(a))'
  BY <1>2 DEF Request, StartPull, StartBenchmark, StartRemove, Becomes, Idle, DeleteInv,
     ActorsOK, DeleterOK, ForgiverOK
<1>3. ASSUME NEW a \in Actors, Crash(a) \/ Raises(a) PROVE (DeleterOK(a) /\ ForgiverOK(a))'
  BY <1>3 DEF Crash, Raises, Becomes, Idle, DeleteInv, ActorsOK, DeleterOK, ForgiverOK
<1>4. ASSUME NEW a \in Actors, DoneWith(a) PROVE (DeleterOK(a) /\ ForgiverOK(a))'
  BY <1>4 DEF DoneWith, Becomes, Idle, DeleteInv, ActorsOK, Activity, DeleterOK, ForgiverOK
<1>5. ASSUME NEW a \in Actors, NEW p, Goto(a, p)
      PROVE  at'[a].pc = p /\ at'[a].op = at[a].op /\ at'[a].keep = at[a].keep
  BY <1>5 DEF Goto, DeleteInv, ActorsOK, Activity
<1>6. ASSUME NEW a \in Actors, Work(a) PROVE (DeleterOK(a) /\ ForgiverOK(a))'
  <2> USE DEF DeleterOK, ForgiverOK
  <2>1. CASE NextTarget(a)
    <3>1. at \in [Actors -> Activity]
      BY DEF DeleteInv, ActorsOK
    <3>2. ASSUME NEW r, r.pc \notin {"delete", "forgive"}, Becomes(a, r)
          PROVE  at'[a].pc \notin {"delete", "forgive"}
      BY <3>1, <3>2 DEF Becomes
    <3>3. CASE at[a].left = {}
      BY <2>1, <3>2, <3>3 DEF NextTarget, Idle
    <3>4. CASE at[a].left # {}
      <4>1. PICK m \in at[a].left :
                Becomes(a, [at[a] EXCEPT !.pc = "size", !.model = m, !.left = @ \ {m}])
        BY <2>1, <3>4 DEF NextTarget
      <4>2. [at[a] EXCEPT !.pc = "size", !.model = m, !.left = @ \ {m}].pc = "size"
        BY <3>1 DEF Activity
      <4> QED
        BY <3>2, <4>1, <4>2
    <3> QED
      BY <3>3, <3>4
  <2>2. CASE Download(a)
    BY <1>5, <2>2 DEF Download, Becomes, Idle, DeleteInv, ActorsOK
  <2>3. CASE SizeLoads(a)
    <3>1. ASSUME NEW viable, at[a].op = "pull",
                 Becomes(a, [at[a] EXCEPT !.pc = "forgive", !.viable = viable])
          PROVE  at'[a].pc = "forgive" /\ at'[a].op = "pull"
      BY <3>1 DEF Becomes, DeleteInv, ActorsOK, Activity
    <3> QED
      <4>1. CASE at[a].op = "pull" /\ \E viable \in BOOLEAN :
                    Becomes(a, [at[a] EXCEPT !.pc = "forgive", !.viable = viable])
        BY <3>1, <4>1
      <4>2. CASE Goto(a, "measure")
        BY <1>5, <4>2
      <4>3. CASE DoneWith(a)
        BY <1>4, <4>3
      <4> QED
        BY <2>3, <4>1, <4>2, <4>3 DEF SizeLoads
  <2>4. CASE SizeWontLoad(a) \/ SizeFails(a)
    BY <1>4, <1>5, <2>4 DEF SizeWontLoad, SizeFails
  <2>5. CASE Forgive(a)
    BY <1>4, <1>5, <2>5 DEF Forgive, DeleteInv, ForgiversOK
  <2>6. CASE Delete(a) \/ DropPreset(a) \/ DropGrade(a) \/ Measure(a)
    BY <1>4, <1>5, <2>6 DEF Delete, DropPreset, DropGrade, Measure
  <2>7. CASE SkipSized(a) \/ DropHealth(a) \/ Hold(a) \/ Record(a)
    BY <1>4, <2>7 DEF SkipSized, DropHealth, Hold, Record
  <2> QED
    BY <1>6, <2>1, <2>2, <2>3, <2>4, <2>5, <2>6, <2>7 DEF Work
<1>7. ASSUME NEW a \in Actors, DeleteUnheard(a) PROVE (DeleterOK(a) /\ ForgiverOK(a))'
  BY <1>4, <1>7 DEF DeleteUnheard
<1>8. CASE StartBackfill
  BY <1>0, <1>8 DEF StartBackfill, Becomes, Idle, DeleteInv, ActorsOK, DeletersOK,
     ForgiversOK, DeleterOK, ForgiverOK
<1>9. CASE Upgrade \/ UNCHANGED vars
  BY <1>0, <1>9 DEF Upgrade, vars, DeleteInv, DeletersOK, ForgiversOK, DeleterOK, ForgiverOK
<1> QED
  BY <1>1, <1>2, <1>3, <1>6, <1>7, <1>8, <1>9 DEF Next, Goes, Breaks

DeletedAsAsked ==
    \A m \in disk \ disk' : \E a \in Actors :
        /\ at[a].model = m
        /\ at[a].op = "remove" \/ (at[a].op = "pull" /\ ~at[a].keep)

LEMMA DeleteOnlyStep ==
    ASSUME DeleteInv, [Next]_vars
    PROVE  DeletedAsAsked
<1>1. ASSUME NEW a \in Actors, Delete(a) \/ DeleteUnheard(a) PROVE DeletedAsAsked
  BY <1>1 DEF Delete, DeleteUnheard, DeletedAsAsked, DeleteInv, DeletersOK, DeleterOK
<1>2. ASSUME NEW a \in Actors, Work(a), ~Delete(a) PROVE disk \subseteq disk'
  BY <1>2 DEF Work, NextTarget, Download, SkipSized, SizeLoads, SizeWontLoad, SizeFails,
     Forgive, DropPreset, DropGrade, DropHealth, Hold, Measure, Record, stores
<1>3. ASSUME NEW a \in Actors, Request(a) \/ Crash(a) \/ Raises(a) PROVE disk' = disk
  BY <1>3 DEF Request, StartPull, StartBenchmark, StartRemove, Crash, Raises, stores
<1>4. CASE StartBackfill \/ Upgrade \/ UNCHANGED vars
  BY <1>4 DEF StartBackfill, Upgrade, vars, stores, DeletedAsAsked
<1> QED
  BY <1>1, <1>2, <1>3, <1>4 DEF Next, Goes, Breaks, DeletedAsAsked

(* No benchmark, backfill or pull with keep_rejected deletes weights.      *)
THEOREM DeletionIsAskedFor == Spec => DeletedOnlyWhenAsked
<1>1. Init => DeleteInv
  BY TypeInit, ActorsOKInTypeOK DEF Init, Idle, DeleteInv, DeletersOK, ForgiversOK,
     DeleterOK, ForgiverOK
<1>2. DeleteInv /\ TypeOK' /\ [Next]_vars => DeleteInv'
  BY DeleteStep
<1>3. DeleteInv /\ [Next]_vars => [DeletedAsAsked]_vars
  BY DeleteOnlyStep
<1>4. Spec => [][DeletedAsAsked]_vars
  BY <1>1, <1>2, <1>3, TypeCorrect, PTL DEF Spec
<1> QED
  BY <1>4 DEF DeletedOnlyWhenAsked, DeletedAsAsked

-----------------------------------------------------------------------------
(* What is left of a model that is not in the cache.                       *)

Forgets(a, m, pcs) == at[a].model = m /\ at[a].pc \in pcs

(* While somebody forgets m, the rest of _forget_model is ahead of it.     *)
TraceOK(m) ==
    /\ m \in sized => \E a \in Actors : Forgets(a, m, {"dropPreset"})
    /\ grade[m] # NoGrade => \E a \in Actors : Forgets(a, m, {"dropPreset", "dropGrade"})
    /\ m \in held => \E a \in Actors : Forgets(a, m, Forgetting)

(* A score is about to be written only for a model that is in the cache.   *)
RecorderOK(a) == at[a].pc = "record" => at[a].model \in disk \cup disturbed

RemnantInv ==
    /\ Overlapped \subseteq disturbed
    /\ \A m \in Models \ (disk \cup disturbed) : TraceOK(m)
    /\ \A a \in Actors : RecorderOK(a)

LEMMA RemnantsFollow == RemnantInv => RemnantsExplained
  BY DEF RemnantInv, TraceOK, Forgets, RemnantsExplained, Remembered

(* If one actor works on a model that nothing has disturbed, no other does.*)
LEMMA Alone ==
    ASSUME RemnantInv, NEW a \in Actors, NEW b \in Actors, a # b,
           at[a].model \in Models \ disturbed
    PROVE  at[b].model # at[a].model
  BY DEF RemnantInv, Overlapped

(* How one step of actor a moves it.                                       *)
LEMMA StepsOf ==
    ASSUME ActorsOK, NEW a \in Actors
    PROVE  /\ \A p : Goto(a, p) => at'[a].pc = p /\ at'[a].model = at[a].model
           /\ DoneWith(a) => at'[a].pc \in Resting
           /\ \A r : Becomes(a, r) => at'[a] = r
<1>1. \A p : Goto(a, p) => at'[a].pc = p /\ at'[a].model = at[a].model
  BY DEF Goto, ActorsOK, Activity
<1>2. \A r : Becomes(a, r) => at'[a] = r
  BY DEF Becomes, ActorsOK
<1>3. DoneWith(a) => at'[a].pc \in Resting
  <2>1. [at[a] EXCEPT !.pc = "next", !.model = NoModel].pc = "next" /\ Idle.pc = "idle"
    BY DEF ActorsOK, Activity, Idle
  <2> QED
    BY <1>2, <2>1 DEF DoneWith, Resting
<1> QED
  BY <1>1, <1>2, <1>3

(* The stores as one step of an actor may change them, and what follows.   *)
LEMMA KeepsTraces ==
    ASSUME TypeOK, RemnantInv, NEW a \in Actors,
           Goes(a) \/ Breaks(a),
           disk \subseteq disk',
           \A m \in Models \ (disk' \cup disturbed') :
               /\ m \in sized' => m \in sized /\ ~Forgets(a, m, {"dropPreset"})
               /\ grade'[m] # NoGrade =>
                     grade[m] # NoGrade /\ (Forgets(a, m, {"dropPreset", "dropGrade"})
                                             => Forgets(a, m, {"dropPreset", "dropGrade"})')
               /\ m \in held' => m \in held /\ (Forgets(a, m, Forgetting)
                                                  => Forgets(a, m, Forgetting)'),
           RecorderOK(a)'
    PROVE  RemnantInv'
<1>1. \A b \in Actors \ {a} : at'[b] = at[b]
  BY ActorsOKInTypeOK, OthersUnmoved
<1>2. disturbed \subseteq disturbed' /\ Overlapped' \subseteq disturbed'
  BY DEF Goes, Breaks, Confuses
<1>3. \A b \in Actors \ {a} : RecorderOK(b)'
  BY <1>1, <1>2 DEF RemnantInv, RecorderOK
<1>4. ASSUME NEW m \in Models \ (disk' \cup disturbed') PROVE TraceOK(m)'
  <2>1. TraceOK(m)
    BY <1>2, <1>4 DEF RemnantInv
  <2>2. \A b \in Actors \ {a} : \A pcs : Forgets(b, m, pcs) => Forgets(b, m, pcs)'
    BY <1>1 DEF Forgets
  <2>3. m \in sized' => \E b \in Actors : Forgets(b, m, {"dropPreset"})'
    BY <1>4, <2>1, <2>2 DEF TraceOK
  <2>4. grade'[m] # NoGrade => \E b \in Actors : Forgets(b, m, {"dropPreset", "dropGrade"})'
    BY <1>4, <2>1, <2>2 DEF TraceOK
  <2>5. m \in held' => \E b \in Actors : Forgets(b, m, Forgetting)'
    BY <1>4, <2>1, <2>2 DEF TraceOK
  <2> QED
    BY <2>3, <2>4, <2>5 DEF TraceOK, Forgetting, NoGrade
<1> QED
  BY <1>2, <1>3, <1>4 DEF RemnantInv

LEMMA RemnantWork ==
    ASSUME TypeOK, RemnantInv, NEW a \in Actors, Work(a), Goes(a)
    PROVE  RemnantInv'
<1> DEFINE M == at[a].model
<1>0. ActorsOK
  BY ActorsOKInTypeOK
<1>1. at[a].pc \notin Resting => M \in Models
  BY <1>0, HasModel
<1>2. disturbed \subseteq disturbed'
  BY DEF Goes
<1> USE DEF Forgets, Forgetting, Resting, RecorderOK
<1>3. CASE NextTarget(a)
  <2>1. disk' = disk /\ sized' = sized /\ grade' = grade /\ held' = held
    BY <1>3 DEF NextTarget, stores
  <2>2. at'[a].pc \in {"idle", "size"}
    <3>1. CASE at[a].left = {}
      BY <1>0, <1>3, <3>1, StepsOf DEF NextTarget, Idle
    <3>2. CASE at[a].left # {}
      <4>1. PICK m \in at[a].left :
                Becomes(a, [at[a] EXCEPT !.pc = "size", !.model = m, !.left = @ \ {m}])
        BY <1>3, <3>2 DEF NextTarget
      <4>2. [at[a] EXCEPT !.pc = "size", !.model = m, !.left = @ \ {m}].pc = "size"
        BY <1>0 DEF ActorsOK, Activity
      <4> QED
        BY <1>0, <4>1, <4>2, StepsOf
    <3> QED
      BY <3>1, <3>2
  <2> QED
    BY <1>3, <2>1, <2>2, KeepsTraces DEF NextTarget
<1>4. CASE Download(a)
  <2>1. disk \subseteq disk' /\ sized' = sized /\ grade' = grade /\ held' = held
    BY <1>4 DEF Download
  <2>2. at'[a].pc # "record"
    BY <1>0, <1>4, StepsOf DEF Download, Idle
  <2> QED
    BY <1>4, <2>1, <2>2, KeepsTraces DEF Download
<1>5. CASE SkipSized(a) \/ SizeWontLoad(a) \/ SizeFails(a)
  <2>1. disk' = disk /\ sized' = sized /\ grade' = grade /\ held' = held
    BY <1>5 DEF SkipSized, SizeWontLoad, SizeFails, stores
  <2>2. at'[a].pc # "record" /\ at[a].pc = "size"
    BY <1>0, <1>5, StepsOf DEF SkipSized, SizeWontLoad, SizeFails, Probes
  <2> QED
    BY <2>1, <2>2, KeepsTraces
<1>6. CASE SizeLoads(a)
  <2>1. /\ disk' = disk \cup {M} /\ sized' = sized \cup {M}
        /\ grade' = grade /\ held' = held /\ at[a].pc = "size"
    BY <1>6 DEF SizeLoads, Probes
  <2>2. at'[a].pc # "record"
    <3>1. ASSUME NEW viable \in BOOLEAN,
                 Becomes(a, [at[a] EXCEPT !.pc = "forgive", !.viable = viable])
          PROVE  at'[a].pc = "forgive"
      <4>1. [at[a] EXCEPT !.pc = "forgive", !.viable = viable].pc = "forgive"
        BY <1>0 DEF ActorsOK, Activity
      <4> QED
        BY <1>0, <3>1, <4>1, StepsOf
    <3>2. CASE \E viable \in BOOLEAN :
                   Becomes(a, [at[a] EXCEPT !.pc = "forgive", !.viable = viable])
      BY <3>1, <3>2
    <3>3. CASE Goto(a, "measure") \/ DoneWith(a)
      BY <1>0, <3>3, StepsOf
    <3> QED
      BY <1>6, <3>2, <3>3 DEF SizeLoads
  <2> QED
    BY <2>1, <2>2, KeepsTraces
<1>7. CASE Forgive(a)
  <2>1. disk' = disk /\ sized' = sized /\ grade' = grade /\ held' \subseteq held
    BY <1>7 DEF Forgive
  <2>2. at'[a].pc # "record" /\ at[a].pc = "forgive"
    BY <1>0, <1>7, StepsOf DEF Forgive
  <2> QED
    BY <2>1, <2>2, KeepsTraces
<1>8. CASE Measure(a)
  <2>1. disk' = disk /\ sized' = sized /\ grade' = grade /\ held' = held
    BY <1>8 DEF Measure, stores
  <2>2. at[a].pc = "measure"
    BY <1>8 DEF Measure
  <2>3. RecorderOK(a)'
    <3>1. CASE DoneWith(a)
      BY <1>0, <3>1, StepsOf
    <3>2. CASE M \in sized /\ Goto(a, "record")
      <4>1. M \in Models
        BY <1>1, <2>2
      <4>2. M \in disk \cup disturbed
        <5> SUFFICES ASSUME M \notin disk \cup disturbed PROVE FALSE
          OBVIOUS
        <5>1. PICK b \in Actors : Forgets(b, M, {"dropPreset"})
          BY <3>2, <4>1 DEF RemnantInv, TraceOK
        <5> QED
          BY <2>2, <4>1, <5>1, Alone
      <4> QED
        BY <1>0, <1>2, <2>1, <3>2, <4>2, StepsOf
    <3> QED
      BY <1>8, <3>1, <3>2 DEF Measure
  <2> QED
    BY <2>1, <2>2, <2>3, KeepsTraces
<1>9. CASE DropPreset(a)
  <2>1. disk' = disk /\ sized' = sized \ {M} /\ grade' = grade /\ held' = held
    BY <1>9 DEF DropPreset
  <2>2. at'[a].pc = "dropGrade" /\ at'[a].model = M /\ at[a].pc = "dropPreset"
    BY <1>0, <1>9, StepsOf DEF DropPreset
  <2> QED
    BY <2>1, <2>2, KeepsTraces
<1>10. CASE DropGrade(a)
  <2>1. disk' = disk /\ sized' = sized /\ held' = held
    BY <1>10 DEF DropGrade
  <2>2. at'[a].pc = "dropHealth" /\ at'[a].model = M /\ at[a].pc = "dropGrade"
    BY <1>0, <1>10, StepsOf DEF DropGrade
  <2>3. \A m \in Models : grade'[m] # NoGrade => grade[m] # NoGrade /\ m # M
    BY <1>10 DEF DropGrade, TypeOK
  <2> QED
    BY <2>1, <2>2, <2>3, KeepsTraces
<1>11. CASE DropHealth(a)
  <2>1. disk' = disk /\ sized' = sized /\ grade' = grade /\ held' = held \ {M}
    BY <1>11 DEF DropHealth
  <2>2. at'[a].pc # "record" /\ at[a].pc = "dropHealth"
    BY <1>0, <1>11, StepsOf DEF DropHealth
  <2> QED
    BY <2>1, <2>2, KeepsTraces
<1>12. CASE Hold(a)
  <2>1. disk' = disk /\ sized' = sized /\ grade' = grade /\ held' = held \cup {M}
    BY <1>12 DEF Hold
  <2>2. at'[a].pc # "record" /\ at[a].pc = "hold"
    BY <1>0, <1>12, StepsOf DEF Hold
  <2>3. M \in disk \cup disturbed'
    BY <1>1, <2>2 DEF Goes, Confuses
  <2> QED
    BY <2>1, <2>2, <2>3, KeepsTraces
<1>13. CASE Record(a)
  <2>1. /\ disk' = disk /\ sized' = sized /\ held' = held
        /\ grade' = [grade EXCEPT ![M] = build]
    BY <1>13 DEF Record
  <2>2. at'[a].pc # "record" /\ at[a].pc = "record"
    BY <1>0, <1>13, StepsOf DEF Record
  <2>3. M \in disk \cup disturbed
    BY <2>2 DEF RemnantInv
  <2>4. \A m \in Models \ {M} : grade'[m] = grade[m]
    BY <2>1 DEF TypeOK
  <2> QED
    BY <1>2, <2>1, <2>2, <2>3, <2>4, KeepsTraces
<1>14. CASE Delete(a)
  <2>1. sized' = sized /\ grade' = grade /\ held' = held /\ at[a].pc = "delete"
    BY <1>14 DEF Delete
  <2>2. CASE DoneWith(a) /\ UNCHANGED disk
    <3>1. at'[a].pc # "record"
      BY <1>0, <2>2, StepsOf
    <3> QED
      BY <1>14, <2>1, <2>2, <3>1, KeepsTraces
  <2>3. CASE disk' = disk \ {M} /\ Goto(a, "dropPreset")
    <3>1. at'[a].pc = "dropPreset" /\ at'[a].model = M
      BY <1>0, <2>3, StepsOf
    <3>2. \A b \in Actors \ {a} : at'[b] = at[b]
      BY <1>0, OthersUnmoved
    <3>3. \A b \in Actors : RecorderOK(b)'
      <4>1. ASSUME NEW b \in Actors \ {a}, at[b].pc = "record"
            PROVE  at[b].model \in disk' \cup disturbed'
        <5>1. at[b].model \in disk \cup disturbed
          BY <4>1 DEF RemnantInv
        <5>2. at[b].model = M => M \in disturbed
          BY <1>1, <2>1, Alone
        <5> QED
          BY <1>2, <2>3, <5>1, <5>2
      <4> QED
        BY <3>1, <3>2, <4>1
    <3>4. ASSUME NEW m \in Models \ (disk' \cup disturbed') PROVE TraceOK(m)'
      <4>1. CASE m = M
        BY <3>1, <4>1 DEF TraceOK
      <4>2. CASE m # M
        <5>1. TraceOK(m)
          BY <1>2, <2>3, <3>4, <4>2 DEF RemnantInv
        <5>2. \A b \in Actors : \A pcs : Forgets(b, m, pcs) => Forgets(b, m, pcs)'
          BY <3>2, <4>2
        <5> QED
          BY <2>1, <5>1, <5>2 DEF TraceOK, NoGrade
      <4> QED
        BY <4>1, <4>2
    <3>5. Overlapped' \subseteq disturbed'
      BY DEF Goes, Confuses
    <3> QED
      BY <3>3, <3>4, <3>5 DEF RemnantInv
  <2> QED
    BY <1>14, <2>2, <2>3 DEF Delete
<1> QED
  BY <1>3, <1>4, <1>5, <1>6, <1>7, <1>8, <1>9, <1>10, <1>11, <1>12, <1>13,
     <1>14 DEF Work

LEMMA RemnantStep ==
    ASSUME TypeOK, TypeOK', RemnantInv, [Next]_vars
    PROVE  RemnantInv'
<1>0. ActorsOK /\ ActorsOK'
  BY ActorsOKInTypeOK DEF TypeOK, ActorsOK, ActivityOK, Resting
<1> USE DEF Forgets, Forgetting, Resting, RecorderOK
<1>1. ASSUME NEW a \in Actors, Request(a), Goes(a) PROVE RemnantInv'
  <2>1. at'[a].pc \in {"download", "next", "delete"} /\ at[a].pc = "idle"
    <3>1. at[a].pc = "idle"
      <4>1. at[a] = Idle
        BY <1>1 DEF Request, StartPull, StartBenchmark, StartRemove
      <4> QED
        BY <4>1 DEF Idle
    <3>2. ASSUME NEW m \in Models, NEW keep \in BOOLEAN, StartPull(a, m, keep)
          PROVE  at'[a].pc = "download"
      BY <1>0, <3>2, StepsOf DEF StartPull, Idle
    <3>3. ASSUME NEW targets \in SUBSET Models, StartBenchmark(a, targets)
          PROVE  at'[a].pc = "next"
      BY <1>0, <3>3, StepsOf DEF StartBenchmark, Idle
    <3>4. ASSUME NEW m \in Models, StartRemove(a, m) PROVE at'[a].pc = "delete"
      BY <1>0, <3>4, StepsOf DEF StartRemove, Idle
    <3> QED
      BY <1>1, <3>1, <3>2, <3>3, <3>4 DEF Request
  <2>2. disk' = disk /\ sized' = sized /\ grade' = grade /\ held' = held
    BY <1>1 DEF Request, StartPull, StartBenchmark, StartRemove, stores
  <2> QED
    BY <1>1, <2>1, <2>2, KeepsTraces
<1>2. ASSUME NEW a \in Actors, Breaks(a), Crash(a) \/ Raises(a) PROVE RemnantInv'
  <2>1. at'[a].pc = "idle"
    BY <1>0, <1>2 DEF Crash, Raises, Becomes, Idle, ActorsOK
  <2>2. disk' = disk /\ sized' = sized /\ grade' = grade /\ held' = held
    BY <1>2 DEF Crash, Raises, stores
  <2>3. ASSUME NEW m \in Models, Forgets(a, m, Forgetting) PROVE m \in disturbed'
    BY <1>2, <2>3 DEF Breaks, Interrupts
  <2> QED
    BY <1>2, <2>1, <2>2, <2>3, KeepsTraces
<1>3. ASSUME \A b \in Actors : at'[b] = at[b] \/ (at[b].pc \in Resting /\ at'[b].pc \in Resting),
             UNCHANGED <<stores, disturbed>>
      PROVE  RemnantInv'
  <2>1. \A b \in Actors, m \in Models : at'[b].model = m => at[b].model = m
    BY <1>0, <1>3, NoOpsModelAssumption DEF ActorsOK, ActivityOK
  <2>2. Overlapped' \subseteq Overlapped
    BY <2>1 DEF Overlapped
  <2>3. \A b \in Actors : \A m : \A pcs \in SUBSET Forgetting :
            Forgets(b, m, pcs) => Forgets(b, m, pcs)'
    BY <1>3
  <2>4. \A m \in Models : TraceOK(m) => TraceOK(m)'
    BY <1>3, <2>3 DEF TraceOK, stores, NoGrade
  <2>5. \A b \in Actors : RecorderOK(b)'
    BY <1>3 DEF RemnantInv, stores
  <2> QED
    BY <1>3, <2>2, <2>4, <2>5 DEF RemnantInv, stores
<1>4. CASE StartBackfill
  <2>1. \A b \in Actors \ {Job} : at'[b] = at[b]
    BY <1>0, <1>4 DEF StartBackfill, Becomes, ActorsOK
  <2>2. at[Job].pc = "idle" /\ at'[Job].pc \in Resting
    <3>1. at[Job] = Idle /\ Idle.pc = "idle"
      BY <1>4 DEF StartBackfill, Idle
    <3>2. CASE UNCHANGED at
      BY <3>1, <3>2
    <3>3. CASE Becomes(Job, [Idle EXCEPT !.op = "backfill", !.pc = "next", !.left = Missing])
      <4>1. [Idle EXCEPT !.op = "backfill", !.pc = "next", !.left = Missing].pc = "next"
        BY DEF Idle
      <4> QED
        BY <1>0, <3>1, <3>3, <4>1, StepsOf
    <3> QED
      BY <1>4, <3>2, <3>3 DEF StartBackfill
  <2>3. UNCHANGED <<stores, disturbed>>
    BY <1>4 DEF StartBackfill
  <2> QED
    BY <1>3, <2>1, <2>2, <2>3
<1>5. CASE Upgrade
  BY <1>3, <1>5 DEF Upgrade
<1>6. CASE UNCHANGED vars
  BY <1>3, <1>6 DEF vars
<1>7. ASSUME NEW a \in Actors, Breaks(a), DeleteUnheard(a) PROVE RemnantInv'
  <2> DEFINE M == at[a].model
  <2>1. /\ sized' = sized /\ grade' = grade /\ held' = held /\ at[a].pc = "delete"
        /\ disk' = disk \ {M} /\ M \in disk /\ DoneWith(a)
    BY <1>7 DEF DeleteUnheard
  <2>2. M \in Models /\ at'[a].pc \in Resting
    BY <1>0, <2>1, HasModel, StepsOf
  <2>3. /\ M \in disturbed' /\ disturbed \subseteq disturbed'
        /\ Overlapped' \subseteq disturbed'
    BY <1>7, <2>1, <2>2 DEF Breaks, Interrupts, Confuses
  <2>4. \A b \in Actors \ {a} : at'[b] = at[b]
    BY <1>0, <1>7, OthersUnmoved
  <2>5. \A b \in Actors : RecorderOK(b)'
    BY <2>1, <2>2, <2>3, <2>4 DEF RemnantInv
  <2>6. ASSUME NEW m \in Models \ (disk' \cup disturbed') PROVE TraceOK(m)'
    <3>1. m # M /\ TraceOK(m)
      BY <2>1, <2>3, <2>6 DEF RemnantInv
    <3>2. \A b \in Actors : \A pcs : Forgets(b, m, pcs) => Forgets(b, m, pcs)'
      BY <2>4, <3>1
    <3> QED
      BY <2>1, <3>1, <3>2 DEF TraceOK, NoGrade
  <2> QED
    BY <2>3, <2>5, <2>6 DEF RemnantInv
<1> QED
  BY <1>1, <1>2, <1>4, <1>5, <1>6, <1>7, RemnantWork DEF Next, Goes, Breaks

(* A trace of a model that is gone has one of the causes that              *)
(* RemnantsExplained names.                                                *)
THEOREM TracesHaveACause == Spec => []RemnantsExplained
<1>1. Init => RemnantInv
  <2> SUFFICES ASSUME Init PROVE RemnantInv
    OBVIOUS
  <2>1. \A a \in Actors : at[a] = Idle
    BY DEF Init
  <2>2. \A a \in Actors, m \in Models : at[a].model # m
    BY <2>1, NoOpsModelAssumption DEF Idle
  <2> QED
    BY <2>1, <2>2 DEF Init, RemnantInv, Overlapped, TraceOK, RecorderOK, Idle
<1>2. TypeOK /\ TypeOK' /\ RemnantInv /\ [Next]_vars => RemnantInv'
  BY RemnantStep
<1> QED
  BY <1>1, <1>2, TypeCorrect, RemnantsFollow, PTL DEF Spec

================================================================================
