--------------------------- MODULE Artifacts_proofs ---------------------------
(***************************************************************************)
(* Proofs about Artifacts for any pins and any number of runs and kills;   *)
(* and about ScratchRouter, which downloads models.                        *)
(***************************************************************************)
EXTENDS Artifacts, ScratchRouter, SequenceTheorems, TLAPS

(* The step a run is at tells what it has found or left on the disk.       *)
RunInv ==
    /\ run.pc \in {"download", "fetch", "extract", "unpack", "mark"} => run.pin \notin Source
    /\ run.pc \in {"checkout", "link", "linked"} => run.pin \in Source
    /\ run.pc \in {"extract", "unpack", "mark"} => archives[File] = run.pin
    /\ run.pc \in {"unpack", "mark"} =>
          /\ ~dirs[UnpackDir].marked
          /\ UnpackDir \in {run.pin, CustomDir} \cup misfiled
    /\ run.pc = "mark" => dirs[UnpackDir].content = run.pin
    /\ run.pc \in {"find", "write"} =>
          IF run.pin \in Source THEN build.fingerprint = run.tag
          ELSE dirs[UnpackDir].marked

(* A marker and a fingerprint tell the truth, but for misfiled directories *)
(* and a stained build.                                                    *)
DiskInv ==
    /\ \A d \in Upstream \ misfiled : dirs[d].marked => dirs[d].content = d
    /\ build.content # Absent /\ ~build.stained => build.fingerprint = build.content

(* What runtime.json names has its marker: no run touches it.              *)
NamedInv ==
    Installed /\ runtime.where \in Dirs =>
        /\ dirs[runtime.where].marked
        /\ dirs[runtime.where].content = runtime.has

IInv == TypeOK /\ RunInv /\ DiskInv /\ NamedInv /\ InstalledIsWhole

USE PinsAssumption, BoundsAssumption
    DEF Pins, Dirs, Files, Absent, Partial, CustomDir, BuildDir

LEMMA InitOK == Init => IInv
  BY DEF Init, IInv, TypeOK, RunInv, DiskInv, NamedInv, InstalledIsWhole, Installed,
         Dir, Build, Run, Pcs, None

(* Where a run looks is one of the places there are.                       *)
LEMMA PlacesOK ==
  ASSUME run \in Run
  PROVE  /\ UnpackDir \in Dirs
         /\ run.pin \notin Source => File \in Files
         /\ run.pin \in Upstream => File = run.pin /\ UnpackDir = run.tag
         /\ run.pin \in Custom => File = CustomDir /\ UnpackDir = CustomDir
  BY DEF Run, UnpackDir, File, FileOf

(* A section that is there is a section.                                   *)
LEMMA InstalledOK == TypeOK => (Installed <=> runtime \in Section)
  BY DEF TypeOK, Installed, Section, None

LEMMA TypeStep == IInv /\ [Next]_vars => TypeOK'
<1> SUFFICES ASSUME IInv, [Next]_vars PROVE TypeOK'
  OBVIOUS
<1> USE DEF TypeOK, disk, vars, Goto, Fails
<1>0. TypeOK /\ RunInv
  BY DEF IInv
<1>p. run \in Run
  BY <1>0
<1>1. ASSUME NEW p \in Pins, Repin(p) PROVE TypeOK'
  BY <1>0, <1>1 DEF Repin
<1>2. ASSUME NEW p \in Pins, Install(p) PROVE TypeOK'
  BY <1>0, <1>2 DEF Install, Run, Pcs
<1>3. CASE Download
  BY <1>0, <1>3, <1>p, PlacesOK DEF Download, Run, Pcs, RunInv
<1>4. CASE Fetch
  <2>1. /\ run' \in Run
        /\ archives' \in [Files -> Upstream \cup Custom \cup {Absent}]
        /\ \A f \in Files : archives'[f] # Absent => FileOf(archives'[f]) = f
    BY <1>0, <1>4, <1>p, PlacesOK DEF Fetch, Run, Pcs, RunInv, File
  <2> QED
    BY <1>0, <1>4, <2>1 DEF Fetch
<1>5. CASE Extract
  <2>1. /\ run' \in Run /\ dirs' \in [Dirs -> Dir] /\ misfiled' \subseteq Dirs
        /\ \A d \in Dirs : dirs'[d].marked => dirs'[d].content \in Pins
    BY <1>0, <1>5, <1>p, PlacesOK DEF Extract, Run, Pcs, Dir
  <2> QED
    BY <1>0, <1>5, <2>1 DEF Extract
<1>6. CASE Unpack
  <2>1. /\ run' \in Run /\ dirs' \in [Dirs -> Dir]
        /\ \A d \in Dirs : dirs'[d].marked => dirs'[d].content \in Pins
    BY <1>0, <1>6, <1>p, PlacesOK DEF Unpack, Run, Pcs, Dir, RunInv
  <2> QED
    BY <1>0, <1>6, <2>1 DEF Unpack
<1>7. CASE Mark
  <2>1. run' \in Run /\ UnpackDir \in Dirs
    BY <1>0, <1>7, <1>p, PlacesOK DEF Mark, Run, Pcs
  <2>2. dirs[UnpackDir].content = run.pin /\ run.pin \in Pins
    BY <1>0, <1>7, <1>p DEF Mark, RunInv, Run
  <2>3. ASSUME NEW d \in Dirs
        PROVE  dirs'[d] \in Dir /\ (dirs'[d].marked => dirs'[d].content \in Pins)
    <3>1. dirs[d] \in Dir /\ (dirs[d].marked => dirs[d].content \in Pins)
      BY <1>0
    <3>2. CASE d = UnpackDir
      <4>1. dirs'[d] = [dirs[d] EXCEPT !.marked = TRUE]
        BY <1>0, <1>7, <3>2, <2>1 DEF Mark
      <4> QED
        BY <2>2, <3>1, <3>2, <4>1 DEF Dir
    <3>3. CASE d # UnpackDir
      BY <1>0, <1>7, <3>1, <3>3 DEF Mark
    <3> QED
      BY <3>2, <3>3
  <2>4. dirs' = [d \in Dirs |-> dirs'[d]]
    BY <1>0, <1>7 DEF Mark
  <2>5. dirs' \in [Dirs -> Dir]
    BY <2>3, <2>4
  <2> QED
    BY <1>0, <1>7, <2>1, <2>3, <2>5 DEF Mark
<1>8. CASE Checkout
  BY <1>0, <1>8 DEF Checkout, Run, Pcs
<1>9. CASE Link
  BY <1>0, <1>9 DEF Link, Run, Pcs, Build
<1>10. CASE Finish
  <2>1. run' \in Run /\ run.tag \in Pins /\ run.tag # Absent
    BY <1>0, <1>10 DEF Finish, Run, Pcs
  <2>2. build' \in Build /\ (build'.fingerprint # Absent => build'.content # Absent)
    <3>1. CASE UNCHANGED build
      BY <1>0, <3>1
    <3>2. CASE build' = [content |-> run.tag, fingerprint |-> run.tag, stained |-> FALSE]
      BY <2>1, <3>2 DEF Build
    <3> QED
      BY <1>10, <3>1, <3>2 DEF Finish
  <2> QED
    BY <1>0, <1>10, <2>1, <2>2 DEF Finish
<1>11. CASE Find
  BY <1>0, <1>11 DEF Find, Run, Pcs
<1>12. CASE Write
  <2>1. run' \in Run
    BY <1>0, <1>12 DEF Write, Run, Pcs
  <2>2. runtime' \in Section
    <3>1. CASE run.pin \in Source
      BY <1>0, <1>12, <3>1 DEF Write, Section, Where, Content, RunInv, Run, Build
    <3>2. CASE run.pin \notin Source
      BY <1>0, <1>12, <3>2, <1>p, PlacesOK DEF Write, Section, Where, Content, RunInv, Run, Dir
    <3> QED
      BY <3>1, <3>2
  <2> QED
    BY <1>0, <1>12, <2>1, <2>2 DEF Write
<1>13. CASE Killed
  BY <1>0, <1>13 DEF Killed, Run, Pcs
<1>14. CASE UNCHANGED vars
  BY <1>0, <1>14
<1> QED
  BY <1>1, <1>2, <1>3, <1>4, <1>5, <1>6, <1>7, <1>8, <1>9, <1>10, <1>11, <1>12, <1>13, <1>14
     DEF Next

LEMMA RunStep == IInv /\ [Next]_vars => RunInv'
<1> SUFFICES ASSUME IInv, [Next]_vars PROVE RunInv'
  OBVIOUS
<1> USE DEF disk, vars, Goto, Fails
<1>0. TypeOK /\ RunInv
  BY DEF IInv
<1>p. run \in Run
  BY <1>0 DEF TypeOK
<1> USE DEF RunInv, File, UnpackDir
<1>1. ASSUME NEW p \in Pins, Repin(p) PROVE RunInv'
  BY <1>0, <1>1 DEF Repin
<1>2. ASSUME NEW p \in Pins, Install(p) PROVE RunInv'
  BY <1>0, <1>2 DEF Install, TypeOK
<1>3. CASE Download
  BY <1>0, <1>3, <1>p DEF Download, Run
<1>4. CASE Fetch
  BY <1>0, <1>4, <1>p, PlacesOK DEF Fetch, Run, TypeOK
<1>5. CASE Extract
  BY <1>0, <1>5, <1>p, PlacesOK DEF Extract, Run, TypeOK, Dir
<1>6. CASE Unpack
  BY <1>0, <1>6, <1>p, PlacesOK DEF Unpack, Run, TypeOK, Dir
<1>7. CASE Mark
  BY <1>0, <1>7, <1>p, PlacesOK DEF Mark, Run, TypeOK, Dir
<1>8. CASE Checkout
  BY <1>0, <1>8, <1>p DEF Checkout, Run
<1>9. CASE Link
  BY <1>0, <1>9, <1>p DEF Link, Run
<1>10. CASE Finish
  BY <1>0, <1>10, <1>p DEF Finish, Run
<1>11. CASE Find
  BY <1>0, <1>11, <1>p DEF Find, Run
<1>12. CASE Write
  BY <1>0, <1>12, <1>p DEF Write, Run
<1>13. CASE Killed
  BY <1>0, <1>13, <1>p DEF Killed, Run
<1>14. CASE UNCHANGED vars
  BY <1>0, <1>14
<1> QED
  BY <1>1, <1>2, <1>3, <1>4, <1>5, <1>6, <1>7, <1>8, <1>9, <1>10, <1>11, <1>12, <1>13, <1>14
     DEF Next

LEMMA DiskStep == IInv /\ [Next]_vars => DiskInv'
<1> SUFFICES ASSUME IInv, [Next]_vars PROVE DiskInv'
  OBVIOUS
<1> USE DEF disk, vars, Goto, Fails
<1>0. TypeOK /\ RunInv /\ DiskInv
  BY DEF IInv
<1>p. run \in Run
  BY <1>0 DEF TypeOK
<1>1. ASSUME UNCHANGED <<dirs, build, misfiled>> PROVE DiskInv'
  BY <1>0, <1>1 DEF DiskInv
<1>2. CASE Extract
  BY <1>0, <1>2, <1>p, PlacesOK DEF Extract, DiskInv, TypeOK, Dir
<1>3. CASE Unpack
  BY <1>0, <1>3, <1>p, PlacesOK DEF Unpack, DiskInv, TypeOK, Dir, RunInv
<1>4. CASE Mark
  BY <1>0, <1>4, <1>p, PlacesOK DEF Mark, DiskInv, TypeOK, Dir, RunInv
<1>5. CASE Link
  BY <1>0, <1>5 DEF Link, DiskInv, TypeOK, Build
<1>6. CASE Finish
  BY <1>0, <1>6 DEF Finish, DiskInv, TypeOK, Build
<1>7. ASSUME NEW p \in Pins, Repin(p) \/ Install(p) PROVE DiskInv'
  BY <1>1, <1>7 DEF Repin, Install
<1>8. CASE Download \/ Fetch \/ Checkout \/ Find \/ Write \/ Killed \/ UNCHANGED vars
  BY <1>1, <1>8 DEF Download, Fetch, Checkout, Find, Write, Killed
<1> QED
  BY <1>2, <1>3, <1>4, <1>5, <1>6, <1>7, <1>8 DEF Next

(* No step of a run changes a directory that has its marker.               *)
LEMMA MarkedIsLeftAlone ==
  ASSUME IInv, [Next]_vars, NEW d \in Dirs, dirs[d].marked
  PROVE  dirs'[d] = dirs[d]
<1> USE DEF disk, vars
<1>0. TypeOK /\ RunInv
  BY DEF IInv
<1>p. run \in Run
  BY <1>0 DEF TypeOK
<1>1. CASE Extract
  BY <1>0, <1>1, <1>p, PlacesOK DEF Extract, TypeOK, Dir
<1>2. CASE Unpack
  BY <1>0, <1>2, <1>p, PlacesOK DEF Unpack, TypeOK, Dir, RunInv
<1>3. CASE Mark
  BY <1>0, <1>3, <1>p, PlacesOK DEF Mark, TypeOK, Dir, RunInv
<1>4. ASSUME NEW p \in Pins, Repin(p) \/ Install(p) PROVE dirs' = dirs
  BY <1>4 DEF Repin, Install
<1>5. CASE Download \/ Fetch \/ Checkout \/ Link \/ Finish \/ Find \/ Write \/ Killed \/ UNCHANGED vars
  BY <1>5 DEF Download, Fetch, Checkout, Link, Finish, Find, Write, Killed
<1> QED
  BY <1>1, <1>2, <1>3, <1>4, <1>5 DEF Next

LEMMA NamedStep == IInv /\ [Next]_vars => NamedInv' /\ InstalledIsWhole'
<1> SUFFICES ASSUME IInv, [Next]_vars PROVE NamedInv' /\ InstalledIsWhole'
  OBVIOUS
<1>0. TypeOK /\ RunInv /\ DiskInv /\ NamedInv /\ InstalledIsWhole
  BY DEF IInv
<1>p. run \in Run
  BY <1>0 DEF TypeOK
<1>1. misfiled \subseteq misfiled'
  BY DEF Next, vars, disk, Repin, Install, Download, Fetch, Extract, Unpack, Mark, Checkout,
         Link, Finish, Find, Write, Killed
<1>2. CASE UNCHANGED runtime
  <2>1. NamedInv'
    BY <1>0, <1>2, MarkedIsLeftAlone DEF NamedInv, Installed
  <2>2. InstalledIsWhole'
    BY <1>0, <1>1, <1>2 DEF InstalledIsWhole, Installed
  <2> QED
    BY <2>1, <2>2
<1>3. CASE Write
  <2>1. CASE run.pin \in Source
    <3>1. runtime'.where = BuildDir /\ runtime'.where \notin Dirs
      BY <1>3, <2>1 DEF Write, Where
    <3>2. runtime'.has = build.content /\ runtime'.tag = run.tag
          /\ (runtime'.stained <=> build.stained)
      BY <1>3, <2>1 DEF Write, Where, Content
    <3>3. build.fingerprint = run.tag /\ run.tag # Absent
      BY <1>0, <1>3, <2>1, <1>p DEF Write, RunInv, Run
    <3>4. ~build.stained => build.content = run.tag
      BY <1>0, <3>3 DEF DiskInv, TypeOK
    <3> QED
      BY <3>1, <3>2, <3>4 DEF NamedInv, InstalledIsWhole
  <2>2. CASE run.pin \notin Source
    <3> DEFINE d == UnpackDir
    <3>1. d \in Dirs /\ dirs[d].marked /\ dirs[d].content \in Pins
      BY <1>0, <1>3, <2>2, <1>p, PlacesOK DEF Write, RunInv, TypeOK
    <3>2. /\ runtime'.where = d /\ runtime'.tag = run.tag /\ runtime'.has = dirs[d].content
          /\ UNCHANGED <<dirs, misfiled>>
      BY <1>3, <2>2, <3>1 DEF Write, Where, Content, disk
    <3>3. d \in Upstream \ misfiled => d = run.tag /\ dirs[d].content = d
      BY <1>0, <1>p, <2>2, <3>1, PlacesOK DEF DiskInv, Run
    <3> HIDE DEF d
    <3> QED
      BY <3>1, <3>2, <3>3 DEF NamedInv, InstalledIsWhole
  <2> QED
    BY <2>1, <2>2
<1>4. ~Write => UNCHANGED runtime
  BY DEF Next, vars, disk, Repin, Install, Download, Fetch, Extract, Unpack, Mark, Checkout,
         Link, Finish, Find, Killed
<1> QED
  BY <1>2, <1>3, <1>4

THEOREM Inductive == Spec => []IInv
<1>1. IInv /\ [Next]_vars => IInv'
  BY TypeStep, RunStep, DiskStep, NamedStep DEF IInv
<1> QED
  BY InitOK, <1>1, PTL DEF Spec

(* Every variable keeps its type: what is marked as unpacked is a whole    *)
(* archive, however the runs before it ended.                              *)
THEOREM TypeCorrect == Spec => []TypeOK
<1>1. IInv => TypeOK
  BY DEF IInv
<1> QED
  BY Inductive, <1>1, PTL

(* An installation names a whole binary of the release it states, where    *)
(* nothing unmarked could have come before it.                             *)
THEOREM InstallsWhole == Spec => []InstalledIsWhole
<1>1. IInv => InstalledIsWhole
  BY DEF IInv
<1> QED
  BY Inductive, <1>1, PTL

(* No run, finished or not, changes the installation runtime.json names.   *)
THEOREM Survives == Spec => []InstallationSurvives
<1>1. IInv => InstallationSurvives
  BY DEF IInv, NamedInv, InstallationSurvives
<1> QED
  BY Inductive, <1>1, PTL

-----------------------------------------------------------------------------
(***************************************************************************)
(* Models are downloaded as well, through a llama-server of their own:     *)
(* proofs about ScratchRouter for any callers and ports and any number of  *)
(* calls and faults.                                                       *)
(***************************************************************************)
USE RouterAssumption DEF RouterAssumption

(* What a call knows of its process by where it is.                        *)
ProcInv ==
    \A c \in Clients :
        /\ pc[c] = "idle" => proc[c] \in {"none", "exited", "dying"}
        /\ pc[c] = "spawn" => proc[c] \in {"none", "exited"}
        /\ pc[c] = "kill" => proc[c] \in {"dying", "exited"}

(* What a router has in its list, or will fold in it, was there when it    *)
(* learned of it; "ok" is said on the word of such a list.                 *)
ListInv == \A s \in Clients : knows[s] \/ fetched[s] => cached \/ stale[s]

(* A call says "ok" as the last thing it does.                             *)
AskingInv ==
    \A c \in Clients : pc[c] \in {"spawn", "startup", "list"} => result[c] # "ok"

HonestInv ==
    /\ ListInv
    /\ AskingInv
    /\ \A c \in Clients :
          op[c] = "download" /\ result[c] = "ok" => cached \/ deleted[c]

(* One router answers at a port, and a thread is subscribed to the one     *)
(* that answered at the port of its call, for as long as that one lives.   *)
PortInv ==
    \A s, t \in Clients :
        proc[s] = "up" /\ proc[t] = "up" /\ port[s] = port[t] => s = t

SourceInv ==
    \A c \in Clients :
        /\ thread[c] = "open" <=> source[c] # Nobody
        /\ source[c] # Nobody =>
              /\ source[c] \in Bound(port[c])
              /\ \A s \in Clients : proc[s] = "up" /\ port[s] = port[c] => s = source[c]

(* The thread is started once per call, and the download is not asked for  *)
(* before it has subscribed or given up.                                   *)
ThreadInv ==
    \A c \in Clients :
        /\ pc[c] \in {"spawn", "startup", "list"} => thread[c] = "none"
        /\ pc[c] = "connect" => thread[c] # "none"
        /\ pc[c] \in {"post", "events"} => thread[c] \in {"open", "ended"}

Following(c) == pc[c] \in {"connect", "post", "events"}
HasEnd(q) == \E i \in 1 .. Len(q) : q[i] \in Terminal

(* A thread that ended has said so, and an open one has brought the end of *)
(* the download if it is no longer going on.                               *)
QueueInv ==
    \A c \in Clients :
        /\ Following(c) /\ thread[c] = "ended" => HasEnd(queue[c])
        /\ pc[c] = "events" /\ thread[c] = "open" =>
              loading[source[c]] \/ HasEnd(queue[c])

RouterInv == ProcInv /\ HonestInv /\ PortInv /\ SourceInv /\ ThreadInv /\ QueueInv

Events == Terminal \cup {"progress"}

LEMMA AppendKeepsEnd ==
    ASSUME NEW q \in Seq(Events), NEW e \in Events
    PROVE  /\ Append(q, e) \in Seq(Events)
           /\ HasEnd(q) \/ e \in Terminal => HasEnd(Append(q, e))
<1>1. /\ Append(q, e) \in Seq(Events) /\ Len(Append(q, e)) = Len(q) + 1 /\ Len(q) \in Nat
      /\ \A i \in 1 .. Len(q) : Append(q, e)[i] = q[i]
      /\ Append(q, e)[Len(q) + 1] = e
  BY AppendProperties
<1> QED
  BY <1>1 DEF HasEnd

LEMMA TailKeepsEnd ==
    ASSUME NEW q \in Seq(Events), q # <<>>
    PROVE  /\ Head(q) \in Events
           /\ Tail(q) \in Seq(Events)
           /\ HasEnd(q) /\ Head(q) \notin Terminal => HasEnd(Tail(q))
<1>1. /\ Head(q) \in Events /\ Head(q) = q[1] /\ Tail(q) \in Seq(Events)
      /\ Len(q) \in Nat /\ Len(Tail(q)) = Len(q) - 1
      /\ \A i \in 1 .. Len(Tail(q)) : Tail(q)[i] = q[i + 1]
  BY HeadTailProperties
<1>2. ASSUME NEW i \in 1 .. Len(q), q[i] \in Terminal, q[1] \notin Terminal
      PROVE HasEnd(Tail(q))
  <2>1. i # 1 /\ i - 1 \in 1 .. Len(Tail(q)) /\ Tail(q)[i - 1] = q[i]
    BY <1>1, <1>2
  <2> QED
    BY <1>2, <2>1 DEF HasEnd
<1> QED
  BY <1>1, <1>2 DEF HasEnd

(* What a router sends reaches the threads subscribed to it.               *)
LEMMA SendsTyped ==
    ASSUME PullTypeOK, NEW s \in Clients, NEW e \in Events, Sends(s, e)
    PROVE  /\ queue' \in [Clients -> Seq(Events)]
           /\ \A c \in Clients :
                 /\ HasEnd(queue[c]) => HasEnd(queue[c])'
                 /\ source[c] = s /\ Following(c) /\ e \in Terminal => HasEnd(queue[c])'
<1>1. queue \in [Clients -> Seq(Events)]
  BY DEF PullTypeOK, Events
<1> QED
  BY <1>1, AppendKeepsEnd DEF Sends, Following

LEMMA GoneTyped ==
    ASSUME PullTypeOK, NEW s \in Clients, Gone(s)
    PROVE  /\ proc' \in [Clients -> Alive \cup {"none", "exited"}]
           /\ loading' \in [Clients -> BOOLEAN]
           /\ thread' \in [Clients -> {"none", "starting", "open", "ended"}]
           /\ source' \in [Clients -> Clients \cup {Nobody}]
           /\ queue' \in [Clients -> Seq(Events)]
<1> USE DEF PullTypeOK, Gone
<1>1. /\ proc' \in [Clients -> Alive \cup {"none", "exited"}]
      /\ loading' \in [Clients -> BOOLEAN]
  BY DEF Alive
<1>2. thread' \in [Clients -> {"none", "starting", "open", "ended"}]
  OBVIOUS
<1>3. source' \in [Clients -> Clients \cup {Nobody}]
  OBVIOUS
<1>4. queue' \in [Clients -> Seq(Events)]
  BY SendsTyped DEF Terminal, Events
<1> QED
  BY <1>1, <1>2, <1>3, <1>4

(* Only a router that starts looks at the cache.                           *)
LEMMA BindsLearns ==
    ASSUME PullTypeOK, NEW s \in Clients, Binds(s)
    PROVE  /\ UNCHANGED <<cached, loading, callVars>>
           /\ \/ UNCHANGED listVars
              \/ /\ knows' = [knows EXCEPT ![s] = cached]
                 /\ fetched' = [fetched EXCEPT ![s] = FALSE]
                 /\ stale' = [stale EXCEPT ![s] = FALSE]
           /\ knows' \in [Clients -> BOOLEAN]
           /\ fetched' \in [Clients -> BOOLEAN]
           /\ stale' \in [Clients -> BOOLEAN]
<1>1. \/ UNCHANGED listVars
      \/ /\ knows' = [knows EXCEPT ![s] = cached]
         /\ fetched' = [fetched EXCEPT ![s] = FALSE]
         /\ stale' = [stale EXCEPT ![s] = FALSE]
  BY DEF Binds
<1>2. UNCHANGED <<cached, loading, callVars>>
  BY DEF Binds
<1>3. /\ knows \in [Clients -> BOOLEAN] /\ fetched \in [Clients -> BOOLEAN]
      /\ stale \in [Clients -> BOOLEAN] /\ cached \in BOOLEAN
  BY DEF PullTypeOK
<1> QED
  BY <1>1, <1>2, <1>3 DEF listVars

LEMMA RouterTypeStep ==
    ASSUME PullTypeOK, NEW s \in Clients, Router(s)
    PROVE  PullTypeOK'
<1> USE DEF PullTypeOK, Alive, callVars, routerVars, listVars, streamVars
<1>0. {"finished", "failed", "end"} \subseteq Terminal /\ Terminal \subseteq Events
      /\ "progress" \in Events
  BY DEF Terminal, Events
<1>1. CASE Binds(s)
  <2>1. proc' \in [Clients -> Alive \cup {"none", "exited"}]
    <3>1. \E to \in {"up", "exited"} : proc' = [proc EXCEPT ![s] = to]
      BY <1>1 DEF Binds
    <3> QED
      BY <3>1
  <2>2. /\ knows' \in [Clients -> BOOLEAN]
        /\ fetched' \in [Clients -> BOOLEAN]
        /\ stale' \in [Clients -> BOOLEAN]
    BY <1>1, BindsLearns
  <2> QED
    BY <1>1, <2>1, <2>2 DEF Binds
<1>2. CASE Progress(s)
  <2>1. queue' \in [Clients -> Seq(Events)]
    BY <1>0, <1>2, SendsTyped DEF Progress
  <2> QED
    BY <1>2, <2>1 DEF Progress, Events
<1>3. ASSUME NEW e \in {"failed", "finished"}, NEW landed \in BOOLEAN, Ends(s, e, landed)
      PROVE  PullTypeOK'
  <2>1. queue' \in [Clients -> Seq(Events)]
    BY <1>0, <1>3, SendsTyped DEF Ends
  <2> QED
    BY <1>3, <2>1 DEF Ends, Events
<1>4. CASE Crashes(s) \/ Dies(s)
  <2>1. Gone(s) /\ UNCHANGED <<callVars, listVars, cached, calls, deleted>>
    BY <1>4 DEF Crashes, Dies, Gone
  <2>2. faults' \in 0 .. MaxFaults
    BY <1>4 DEF Crashes, Dies
  <2> QED
    BY <2>1, <2>2, GoneTyped DEF Events
<1>5. CASE Hangs(s)
  BY <1>5 DEF Hangs
<1> QED
  BY <1>1, <1>2, <1>3, <1>4, <1>5 DEF Router

LEMMA CallTypeStep ==
    ASSUME PullTypeOK, NEW c \in Clients,
           \/ Step(c) \/ Expire(c)
           \/ \E o \in {"download", "delete"}, p \in Ports : Begin(c, o, p)
    PROVE  PullTypeOK'
<1> USE DEF PullTypeOK, Alive, callVars, routerVars, listVars, streamVars,
            quiet, Moves, Leave
<1>0. <<>> \in Seq(Events) /\ queue \in [Clients -> Seq(Events)] /\ "end" \in Events
  BY DEF Events, Terminal
<1>1. ASSUME NEW o \in {"download", "delete"}, NEW p \in Ports, Begin(c, o, p)
      PROVE PullTypeOK'
  BY <1>0, <1>1 DEF Begin, Events
<1>2. CASE Spawn(c)
  BY <1>2 DEF Spawn
<1>3. CASE CameUp(c) \/ NotUp(c) \/ Connect(c) \/ Post(c) \/ Stop(c)
  BY <1>3 DEF CameUp, NotUp, Connect, Post, Stop, NoAnswer
<1>4. CASE Waited(c) \/ Kill(c) \/ NotReaped(c)
  BY <1>4 DEF Waited, Kill, NotReaped
<1>5. ASSUME NEW from \in {"list", "verify"}, CutShort(c, from) PROVE PullTypeOK'
  <2>1. PICK s \in Clients : Gone(s)
    BY <1>5 DEF CutShort
  <2>2. /\ proc' \in [Clients -> Alive \cup {"none", "exited"}]
        /\ loading' \in [Clients -> BOOLEAN]
        /\ thread' \in [Clients -> {"none", "starting", "open", "ended"}]
        /\ source' \in [Clients -> Clients \cup {Nobody}]
        /\ queue' \in [Clients -> Seq(Events)] /\ UNCHANGED listVars
    BY <2>1, GoneTyped DEF Gone
  <2>3. /\ pc' = [pc EXCEPT ![c] = "stop"] /\ result' = [result EXCEPT ![c] = "other"]
        /\ faults' \in 0 .. MaxFaults
        /\ UNCHANGED <<op, port, cached, calls, deleted>>
    BY <1>5 DEF CutShort
  <2> QED
    BY <2>2, <2>3 DEF Events
<1>6. ASSUME NEW s \in Clients, Listed(c, s)
      PROVE  /\ knows' \in [Clients -> BOOLEAN] /\ deleted' \in [Clients -> BOOLEAN]
             /\ fetched' \in [Clients -> BOOLEAN]
             /\ UNCHANGED <<proc, loading, stale, cached, calls, faults>>
  BY <1>6 DEF Listed
<1>7. CASE NoAnswer(c, "list") \/ NoAnswer(c, "verify")
  BY <1>7 DEF NoAnswer
<1>8. CASE List(c) \/ Verify(c)
  <2>1. ASSUME NEW s \in Clients, Listed(c, s), List(c) PROVE PullTypeOK'
    BY <1>5, <1>6, <1>7, <2>1 DEF List
  <2>2. ASSUME NEW s \in Clients, Listed(c, s), Verify(c) PROVE PullTypeOK'
    BY <1>5, <1>6, <1>7, <2>2 DEF Verify
  <2> QED
    BY <1>5, <1>7, <1>8, <2>1, <2>2 DEF List, Verify
<1>9. CASE Subscribe(c)
  <2>1. queue' \in [Clients -> Seq(Events)]
    <3>1. Append(queue[c], "end") \in Seq(Events)
      BY <1>0, AppendKeepsEnd
    <3> QED
      BY <1>0, <1>9, <3>1 DEF Subscribe
  <2>2. source' \in [Clients -> Clients \cup {Nobody}]
        /\ thread' \in [Clients -> {"none", "starting", "open", "ended"}]
    <3>1. \/ source' = source
          \/ \E s \in Clients : source' = [source EXCEPT ![c] = s]
      BY <1>9 DEF Subscribe
    <3>2. \E t \in {"open", "ended"} : thread' = [thread EXCEPT ![c] = t]
      BY <1>9 DEF Subscribe
    <3>3. source' \in [Clients -> Clients \cup {Nobody}]
      BY <3>1
    <3>4. thread' \in [Clients -> {"none", "starting", "open", "ended"}]
      BY <3>2
    <3> QED
      BY <3>3, <3>4
  <2>3. UNCHANGED <<callVars, routerVars, cached, calls, faults, deleted>>
    BY <1>9 DEF Subscribe
  <2> QED
    BY <2>1, <2>2, <2>3 DEF Events
<1>10. CASE Take(c) \/ Expire(c)
  <2>1. queue' \in [Clients -> Seq(Events)]
    <3>1. queue[c] # <<>> => Tail(queue[c]) \in Seq(Events)
      BY <1>0, TailKeepsEnd
    <3>2. \/ queue[c] # <<>> /\ queue' = [queue EXCEPT ![c] = Tail(@)]
          \/ queue' = [queue EXCEPT ![c] = <<>>]
      BY <1>10 DEF Take, Expire
    <3> QED
      BY <1>0, <3>1, <3>2
  <2> QED
    BY <1>10, <2>1 DEF Take, Expire, Events
<1>11. CASE Delete(c)
  <2>1. /\ knows' \in [Clients -> BOOLEAN] /\ deleted' \in [Clients -> BOOLEAN]
        /\ stale' \in [Clients -> BOOLEAN] /\ cached' \in BOOLEAN
    <3>1. CASE UNCHANGED <<routerVars, deleted, cached>>
      BY <3>1
    <3>2. CASE /\ \E s \in Clients : knows' = [knows EXCEPT ![s] = FALSE]
               /\ stale' = [s \in Clients |-> TRUE] /\ deleted' = [d \in Clients |-> TRUE]
               /\ cached' = FALSE
      BY <3>2
    <3> QED
      BY <1>11, <3>1, <3>2 DEF Delete
  <2>2. /\ pc' \in [Clients -> {"idle", "spawn", "startup", "list", "connect",
                                "post", "events", "verify", "delete", "stop",
                                "wait", "kill"}]
        /\ result' \in [Clients -> {"none", "ok", "CacheRouterError", "other"}]
        /\ UNCHANGED <<op, port>>
    <3>1. \E r \in {"ok", "CacheRouterError"} : Leave(c, "delete", r)
      BY <1>11 DEF Delete
    <3> QED
      BY <3>1
  <2>3. UNCHANGED <<proc, loading, fetched, streamVars, calls, faults>>
    <3>1. CASE UNCHANGED quiet
      BY <3>1
    <3>2. CASE ~UNCHANGED quiet
      BY <1>11, <3>2 DEF Delete
    <3> QED
      BY <3>1, <3>2
  <2> QED
    BY <2>1, <2>2, <2>3
<1> QED
  BY <1>1, <1>2, <1>3, <1>4, <1>8, <1>9, <1>10, <1>11 DEF Step

(* Type correctness, for any callers and ports.                            *)
THEOREM RouterTyped == PullSpec => []PullTypeOK
<1>1. PullInit => PullTypeOK
  BY EmptySeq DEF PullInit, PullTypeOK
<1>2. PullTypeOK /\ [PullNext]_pullVars => PullTypeOK'
  <2> SUFFICES ASSUME PullTypeOK, [PullNext]_pullVars PROVE PullTypeOK'
    BY DEF PullTypeOK
  <2>1. CASE PullNext
    BY <2>1, RouterTypeStep, CallTypeStep DEF PullNext
  <2>2. CASE UNCHANGED pullVars
    BY <2>2 DEF pullVars, callVars, routerVars, listVars, streamVars, PullTypeOK
  <2> QED
    BY <2>1, <2>2
<1> QED
  BY <1>1, <1>2, PTL DEF PullSpec

LEMMA ProcStep == PullTypeOK /\ ProcInv /\ [PullNext]_pullVars => ProcInv'
<1> SUFFICES ASSUME PullTypeOK, ProcInv, [PullNext]_pullVars, NEW d \in Clients
             PROVE  /\ pc'[d] = "idle" => proc'[d] \in {"none", "exited", "dying"}
                    /\ pc'[d] = "spawn" => proc'[d] \in {"none", "exited"}
                    /\ pc'[d] = "kill" => proc'[d] \in {"dying", "exited"}
  BY DEF ProcInv
<1> USE DEF PullTypeOK, ProcInv, callVars, routerVars, quiet, Moves, Leave
<1>1. ASSUME NEW c \in Clients, Router(c)
      PROVE  pc' = pc /\ \/ proc'[d] = proc[d] \/ proc'[d] = "exited"
                         \/ proc[d] \in {"starting", "up"}
  BY <1>1 DEF Router, Binds, Progress, Ends, Crashes, Hangs, Dies, Gone
<1>2. ASSUME NEW c \in Clients,
             Spawn(c) \/ Stop(c) \/ Waited(c) \/ Kill(c) \/ NotReaped(c)
      PROVE  /\ pc'[d] = "idle" => proc'[d] \in {"none", "exited", "dying"}
             /\ pc'[d] = "spawn" => proc'[d] \in {"none", "exited"}
             /\ pc'[d] = "kill" => proc'[d] \in {"dying", "exited"}
  BY <1>2 DEF Spawn, Stop, Waited, Kill, NotReaped
<1>3. ASSUME NEW c \in Clients,
             \/ CameUp(c) \/ NotUp(c) \/ List(c) \/ Subscribe(c) \/ Connect(c) \/ Post(c)
             \/ Take(c) \/ Verify(c) \/ Delete(c) \/ Expire(c)
             \/ \E o \in {"download", "delete"}, p \in Ports : Begin(c, o, p)
      PROVE  /\ pc'[d] = "idle" => proc'[d] \in {"none", "exited", "dying"}
             /\ pc'[d] = "spawn" => proc'[d] \in {"none", "exited"}
             /\ pc'[d] = "kill" => proc'[d] \in {"dying", "exited"}
  <2>1. /\ \/ pc'[d] = pc[d]
           \/ pc'[d] \notin {"idle", "spawn", "kill"}
           \/ pc'[d] = "spawn" /\ proc[d] \in {"none", "exited"}
        /\ proc'[d] = proc[d] \/ proc'[d] = "exited"
    <3>1. CASE \/ CameUp(c) \/ NotUp(c) \/ Subscribe(c) \/ Connect(c) \/ Post(c)
               \/ Take(c) \/ Delete(c) \/ Expire(c)
      BY <3>1 DEF CameUp, NotUp, Subscribe, Connect, Post, Take, Delete, Expire, NoAnswer
    <3>2. CASE List(c) \/ Verify(c)
      BY <3>2 DEF List, Verify, Listed, CutShort, NoAnswer, Gone
    <3>3. CASE \E o \in {"download", "delete"}, p \in Ports : Begin(c, o, p)
      BY <3>3 DEF Begin
    <3> QED
      BY <1>3, <3>1, <3>2, <3>3
  <2> QED
    BY <2>1
<1>4. CASE UNCHANGED pullVars
  BY <1>4 DEF pullVars
<1> QED
  BY <1>1, <1>2, <1>3, <1>4 DEF PullNext, Step

LEMMA ListStep == PullTypeOK /\ ListInv /\ [PullNext]_pullVars => ListInv'
<1> SUFFICES ASSUME PullTypeOK, ListInv, [PullNext]_pullVars PROVE ListInv'
  OBVIOUS
<1> USE DEF PullTypeOK, ListInv, callVars, routerVars, listVars, quiet
<1>1. CASE UNCHANGED <<listVars, cached>>
  BY <1>1
<1>2. ASSUME NEW s \in Clients, Router(s) PROVE ListInv'
  <2>1. CASE Binds(s)
    <3>1. UNCHANGED cached
      BY <2>1, BindsLearns
    <3>2. CASE UNCHANGED listVars
      BY <3>1, <3>2
    <3>3. CASE /\ knows' = [knows EXCEPT ![s] = cached]
               /\ fetched' = [fetched EXCEPT ![s] = FALSE]
               /\ stale' = [stale EXCEPT ![s] = FALSE]
      BY <3>1, <3>3
    <3> QED
      BY <2>1, <3>2, <3>3, BindsLearns
  <2>2. ASSUME NEW e \in {"failed", "finished"}, NEW landed \in BOOLEAN, Ends(s, e, landed)
        PROVE  ListInv'
    BY <2>2 DEF Ends
  <2>3. CASE Progress(s) \/ Crashes(s) \/ Hangs(s) \/ Dies(s)
    BY <1>1, <2>3 DEF Progress, Crashes, Hangs, Dies, Gone
  <2> QED
    BY <1>2, <2>1, <2>2, <2>3 DEF Router
<1>3. ASSUME NEW c \in Clients, NEW s \in Clients, Listed(c, s) PROVE ListInv'
  BY <1>3 DEF Listed
<1>4. ASSUME NEW c \in Clients, List(c) \/ Verify(c) PROVE ListInv'
  BY <1>1, <1>3, <1>4 DEF List, Verify, CutShort, NoAnswer, Gone
<1>5. ASSUME NEW c \in Clients, Delete(c) PROVE ListInv'
  BY <1>1, <1>5 DEF Delete
<1>6. ASSUME NEW c \in Clients,
             \/ Spawn(c) \/ CameUp(c) \/ NotUp(c) \/ Subscribe(c) \/ Connect(c) \/ Post(c)
             \/ Take(c) \/ Stop(c) \/ Waited(c) \/ Kill(c) \/ NotReaped(c) \/ Expire(c)
             \/ \E o \in {"download", "delete"}, p \in Ports : Begin(c, o, p)
      PROVE  ListInv'
  BY <1>1, <1>6 DEF Spawn, CameUp, NotUp, Subscribe, Connect, Post, Take, Stop, Waited,
                    Kill, NotReaped, Expire, Begin, NoAnswer
<1>7. CASE UNCHANGED pullVars
  BY <1>1, <1>7 DEF pullVars
<1> QED
  BY <1>2, <1>4, <1>5, <1>6, <1>7 DEF PullNext, Step

LEMMA AskingStep == PullTypeOK /\ AskingInv /\ [PullNext]_pullVars => AskingInv'
<1> SUFFICES ASSUME PullTypeOK, AskingInv, [PullNext]_pullVars, NEW d \in Clients,
                    pc'[d] \in {"spawn", "startup", "list"}
             PROVE  result'[d] # "ok"
  BY DEF AskingInv
<1> USE DEF PullTypeOK, AskingInv, callVars, quiet, Moves, Leave
<1>1. CASE UNCHANGED callVars
  BY <1>1
<1>2. ASSUME NEW s \in Clients, Router(s) PROVE result'[d] # "ok"
  BY <1>1, <1>2 DEF Router, Binds, Progress, Ends, Crashes, Hangs, Dies
<1>3. ASSUME NEW c \in Clients, List(c) \/ Verify(c) PROVE result'[d] # "ok"
  BY <1>3 DEF List, Verify, CutShort, NoAnswer
<1>4. ASSUME NEW c \in Clients,
             \/ Spawn(c) \/ CameUp(c) \/ NotUp(c) \/ Subscribe(c) \/ Connect(c) \/ Post(c)
             \/ Take(c) \/ Stop(c) \/ Waited(c) \/ Kill(c) \/ NotReaped(c) \/ Expire(c)
             \/ Delete(c)
             \/ \E o \in {"download", "delete"}, p \in Ports : Begin(c, o, p)
      PROVE  result'[d] # "ok"
  BY <1>4 DEF Spawn, CameUp, NotUp, Subscribe, Connect, Post, Take, Stop, Waited, Kill,
              NotReaped, Expire, Begin, NoAnswer, Delete
<1>5. CASE UNCHANGED pullVars
  BY <1>5 DEF pullVars
<1> QED
  BY <1>2, <1>3, <1>4, <1>5 DEF PullNext, Step

LEMMA HonestStep == PullTypeOK /\ HonestInv /\ [PullNext]_pullVars => HonestInv'
<1> SUFFICES ASSUME PullTypeOK, HonestInv, [PullNext]_pullVars, NEW d \in Clients,
                    op'[d] = "download", result'[d] = "ok"
             PROVE  cached' \/ deleted'[d]
  BY ListStep, AskingStep DEF HonestInv
<1> USE DEF PullTypeOK, HonestInv, callVars, routerVars, quiet, Moves, Leave
<1>1. ASSUME NEW c \in Clients, Router(c) PROVE cached' \/ deleted'[d]
  BY <1>1 DEF Router, Binds, Progress, Ends, Crashes, Hangs, Dies
<1>2. ASSUME NEW c \in Clients, List(c) \/ Verify(c) PROVE cached' \/ deleted'[d]
  <2>1. ASSUME NEW s \in Clients, Listed(c, s)
        PROVE  /\ UNCHANGED <<cached, stale>>
               /\ knows'[s] => knows[s] \/ fetched[s]
               /\ deleted' = [deleted EXCEPT ![c] = stale[s]]
    BY <2>1 DEF Listed
  <2>2. CASE UNCHANGED <<cached, deleted>>
    BY <1>2, <2>2 DEF List, Verify, CutShort, NoAnswer, Listed, ListInv
  <2>3. ASSUME NEW s \in Clients, Listed(c, s), UNCHANGED op,
               \/ result' = result /\ pc[c] = "list"
               \/ /\ \E r \in {"ok", "CacheRouterError"} :
                        result' = [result EXCEPT ![c] = r]
                  /\ result'[c] = "ok" => knows'[s]
        PROVE  cached' \/ deleted'[d]
    <3>1. CASE d = c
      BY <2>1, <2>3, <3>1 DEF ListInv, AskingInv
    <3>2. CASE d # c
      BY <2>1, <2>3, <3>2
    <3> QED
      BY <3>1, <3>2
  <2> QED
    BY <1>2, <2>2, <2>3 DEF List, Verify, CutShort, NoAnswer
<1>3. ASSUME NEW c \in Clients, Delete(c) PROVE cached' \/ deleted'[d]
  BY <1>3 DEF Delete
<1>4. ASSUME NEW c \in Clients,
             \/ Spawn(c) \/ CameUp(c) \/ NotUp(c) \/ Subscribe(c) \/ Connect(c) \/ Post(c)
             \/ Take(c) \/ Stop(c) \/ Waited(c) \/ Kill(c) \/ NotReaped(c) \/ Expire(c)
             \/ \E o \in {"download", "delete"}, p \in Ports : Begin(c, o, p)
      PROVE  cached' \/ deleted'[d]
  <2>1. UNCHANGED <<cached, deleted>>
    BY <1>4 DEF Spawn, CameUp, NotUp, Subscribe, Connect, Post, Take, Stop, Waited, Kill,
                NotReaped, Expire, Begin, NoAnswer
  <2>2. \/ result'[d] \in {"none", "other", "CacheRouterError"}
        \/ result'[d] = result[d] /\ op'[d] = op[d]
    BY <1>4 DEF Spawn, CameUp, NotUp, Subscribe, Connect, Post, Take, Stop, Waited, Kill,
                NotReaped, Expire, Begin, NoAnswer
  <2> QED
    BY <2>1, <2>2
<1>5. CASE UNCHANGED pullVars
  BY <1>5 DEF pullVars
<1> QED
  BY <1>1, <1>2, <1>3, <1>4, <1>5 DEF PullNext, Step

(* A router that binds its port is alone there.                            *)
LEMMA BindsAlone ==
    ASSUME PullTypeOK, NEW s \in Clients, Binds(s)
    PROVE  /\ UNCHANGED <<port, thread, source>>
           /\ \A t \in Clients \ {s} : proc'[t] = proc[t]
           /\ proc[s] = "starting"
           /\ proc'[s] = "up" => \A t \in Clients :
                 port[t] = port[s] => proc[t] \notin {"up", "hung", "dying"}
  BY DEF PullTypeOK, Binds, Bound, callVars, streamVars

LEMMA PortStep == PullTypeOK /\ PortInv /\ [PullNext]_pullVars => PortInv'
<1> SUFFICES ASSUME PullTypeOK, PortInv, [PullNext]_pullVars PROVE PortInv'
  OBVIOUS
<1> USE DEF PullTypeOK, callVars, routerVars, quiet, Moves, Leave
<1>1. ASSUME NEW s \in Clients, Binds(s) PROVE PortInv'
  <2>1. /\ port' = port /\ \A t \in Clients \ {s} : proc'[t] = proc[t]
        /\ proc'[s] = "up" => \A t \in Clients :
              port[t] = port[s] => proc[t] # "up"
    BY <1>1, BindsAlone
  <2> QED
    BY <2>1 DEF PortInv
<1>2. ASSUME \A t \in Clients : proc'[t] = "up" => proc[t] = "up" /\ port'[t] = port[t]
      PROVE  PortInv'
  BY <1>2 DEF PortInv
<1>3. ASSUME NEW s \in Clients,
             \/ Progress(s) \/ Crashes(s) \/ Hangs(s) \/ Dies(s) \/ Ends(s, "failed", FALSE)
             \/ \E landed \in BOOLEAN : Ends(s, "finished", landed)
      PROVE  PortInv'
  BY <1>2, <1>3 DEF Progress, Crashes, Hangs, Dies, Ends, Gone
<1>4. ASSUME NEW c \in Clients, List(c) \/ Verify(c) PROVE PortInv'
  <2>1. port' = port /\ \A t \in Clients : proc'[t] = "up" => proc[t] = "up"
    BY <1>4 DEF List, Verify, Listed, CutShort, NoAnswer, Gone
  <2> QED
    BY <1>2, <2>1
<1>5. ASSUME NEW c \in Clients,
             \/ CameUp(c) \/ NotUp(c) \/ Subscribe(c) \/ Connect(c) \/ Post(c) \/ Take(c)
             \/ Stop(c) \/ Waited(c) \/ NotReaped(c) \/ Expire(c) \/ Delete(c)
      PROVE  PortInv'
  <2>1. UNCHANGED <<proc, port>>
    BY <1>5 DEF CameUp, NotUp, Subscribe, Connect, Post, Take, Stop, Waited, NotReaped,
                Expire, Delete, NoAnswer
  <2> QED
    BY <1>2, <2>1
<1>6. ASSUME NEW c \in Clients,
             \/ Spawn(c) \/ Kill(c)
             \/ \E o \in {"download", "delete"}, p \in Ports : Begin(c, o, p)
      PROVE  PortInv'
  BY <1>2, <1>6 DEF Spawn, Kill, Begin
<1>7. CASE UNCHANGED pullVars
  BY <1>2, <1>7 DEF pullVars
<1> QED
  BY <1>1, <1>3, <1>4, <1>5, <1>6, <1>7 DEF PullNext, Router, Step

LEMMA SourceStep ==
    /\ PullTypeOK /\ ProcInv /\ PortInv /\ SourceInv /\ ThreadInv
    /\ [PullNext]_pullVars
    => SourceInv'
<1> SUFFICES ASSUME PullTypeOK, ProcInv, PortInv, SourceInv, ThreadInv,
                    [PullNext]_pullVars
             PROVE  SourceInv'
  OBVIOUS
<1> USE DEF PullTypeOK, SourceInv, Bound, callVars, routerVars,
            streamVars, quiet, Moves, Leave
<1>1. ASSUME NEW s \in Clients, Binds(s) PROVE SourceInv'
  <2>1. /\ UNCHANGED <<port, thread, source>>
        /\ \A t \in Clients \ {s} : proc'[t] = proc[t]
        /\ proc[s] = "starting"
    BY <1>1, BindsAlone
  <2>2. proc'[s] = "up" =>
           \A t \in Clients : port[t] = port[s] => proc[t] \notin {"up", "hung", "dying"}
    BY <1>1, BindsAlone
  <2>3. ASSUME NEW c \in Clients, source[c] # Nobody
        PROVE  /\ source[c] \in Clients /\ source[c] # s
               /\ port[source[c]] = port[c] /\ proc[source[c]] \in {"up", "hung", "dying"}
    BY <2>1, <2>3
  <2>4. ASSUME NEW c \in Clients, source[c] # Nobody, NEW t \in Clients,
               proc'[t] = "up", port[t] = port[c]
        PROVE  t = source[c]
    BY <2>1, <2>2, <2>3, <2>4
  <2> QED
    BY <2>1, <2>3, <2>4
<1>2. ASSUME NEW s \in Clients, Gone(s), port' = port PROVE SourceInv'
  <2>1. \A c \in Clients : source[c] = s => source'[c] = Nobody /\ thread'[c] = "ended"
    BY <1>2 DEF Gone
  <2>2. \A c \in Clients \ {s} : proc'[c] = proc[c]
    BY <1>2 DEF Gone
  <2>3. \A c \in Clients : source[c] # s => source'[c] = source[c] /\ thread'[c] = thread[c]
    BY <1>2 DEF Gone
  <2>4. proc'[s] = "exited"
    BY <1>2 DEF Gone
  <2> QED
    BY <1>2, <2>1, <2>2, <2>3, <2>4
<1>3. ASSUME UNCHANGED <<port, thread, source>>,
             \A t \in Clients : /\ proc'[t] = "up" => proc[t] = "up"
                                /\ proc[t] \in {"up", "hung", "dying"} =>
                                      proc'[t] \in {"up", "hung", "dying"}
      PROVE  SourceInv'
  BY <1>3
<1>4. ASSUME NEW s \in Clients, Router(s) PROVE SourceInv'
  <2>1. CASE Crashes(s) \/ Dies(s)
    BY <1>2, <2>1 DEF Crashes, Dies
  <2>2. CASE \/ Progress(s) \/ Hangs(s) \/ Ends(s, "failed", FALSE)
             \/ \E landed \in BOOLEAN : Ends(s, "finished", landed)
    BY <1>3, <2>2 DEF Progress, Hangs, Ends
  <2> QED
    BY <1>1, <1>4, <2>1, <2>2 DEF Router
<1>5. ASSUME NEW c \in Clients, List(c) \/ Verify(c) PROVE SourceInv'
  <2>1. CASE CutShort(c, "list") \/ CutShort(c, "verify")
    BY <1>2, <2>1 DEF CutShort
  <2>2. CASE UNCHANGED <<port, proc, thread, source>>
    BY <2>2
  <2>3. CASE /\ UNCHANGED <<port, proc, source>> /\ pc[c] = "list"
             /\ thread' = [thread EXCEPT ![c] = "starting"]
    BY <2>3 DEF ThreadInv
  <2> QED
    BY <1>5, <2>1, <2>2, <2>3 DEF List, Verify, Listed, NoAnswer
<1>6. ASSUME NEW c \in Clients, Subscribe(c) PROVE SourceInv'
  <2>1. ASSUME NEW s \in Clients, Answers(c, s), UNCHANGED <<port, proc>>,
               thread' = [thread EXCEPT ![c] = "open"], source' = [source EXCEPT ![c] = s]
        PROVE  SourceInv'
    BY <2>1 DEF Answers, PortInv
  <2>2. CASE /\ thread' = [thread EXCEPT ![c] = "ended"]
             /\ UNCHANGED <<port, proc, source>>
    BY <1>6, <2>2 DEF Subscribe
  <2> QED
    BY <1>6, <2>1, <2>2 DEF Subscribe
<1>7. ASSUME NEW c \in Clients,
             \/ CameUp(c) \/ NotUp(c) \/ Connect(c) \/ Post(c) \/ Take(c)
             \/ Stop(c) \/ Waited(c) \/ NotReaped(c) \/ Expire(c) \/ Delete(c)
      PROVE  SourceInv'
  <2>1. UNCHANGED <<proc, port, thread, source>>
    BY <1>7 DEF CameUp, NotUp, Connect, Post, Take, Stop, Waited, NotReaped,
                Expire, Delete, NoAnswer
  <2> QED
    BY <1>3, <2>1
<1>8. ASSUME NEW c \in Clients, Spawn(c) \/ Kill(c) PROVE SourceInv'
  BY <1>3, <1>8 DEF Spawn, Kill, ProcInv
<1>9. ASSUME NEW c \in Clients, NEW o \in {"download", "delete"}, NEW p \in Ports,
             Begin(c, o, p)
      PROVE  SourceInv'
  BY <1>9 DEF Begin
<1>10. CASE UNCHANGED pullVars
  BY <1>3, <1>10 DEF pullVars
<1> QED
  BY <1>4, <1>5, <1>6, <1>7, <1>8, <1>9, <1>10 DEF PullNext, Step

LEMMA ThreadStep ==
    PullTypeOK /\ SourceInv /\ ThreadInv /\ [PullNext]_pullVars => ThreadInv'
<1> SUFFICES ASSUME PullTypeOK, SourceInv, ThreadInv, [PullNext]_pullVars,
                    NEW d \in Clients
             PROVE  /\ pc'[d] \in {"spawn", "startup", "list"} => thread'[d] = "none"
                    /\ pc'[d] = "connect" => thread'[d] # "none"
                    /\ pc'[d] \in {"post", "events"} => thread'[d] \in {"open", "ended"}
  BY DEF ThreadInv
<1> DEFINE Goal == /\ pc'[d] \in {"spawn", "startup", "list"} => thread'[d] = "none"
                   /\ pc'[d] = "connect" => thread'[d] # "none"
                   /\ pc'[d] \in {"post", "events"} => thread'[d] \in {"open", "ended"}
<1> SUFFICES Goal
  OBVIOUS
<1> USE DEF PullTypeOK, ThreadInv, callVars, routerVars, streamVars,
            quiet, Moves, Leave
<1>1. ASSUME NEW s \in Clients, Gone(s), pc'[d] = pc[d] \/ pc'[d] = "stop" PROVE Goal
  BY <1>1 DEF Gone, SourceInv
<1>2. ASSUME NEW s \in Clients, Router(s) PROVE Goal
  <2>1. pc' = pc /\ (thread' = thread \/ Gone(s))
    BY <1>2 DEF Router, Binds, Progress, Ends, Crashes, Hangs, Dies
  <2> QED
    BY <1>1, <2>1
<1>3. ASSUME NEW c \in Clients, List(c) \/ Verify(c) PROVE Goal
  <2>1. CASE CutShort(c, "list") \/ CutShort(c, "verify")
    BY <1>1, <2>1 DEF CutShort
  <2>2. CASE UNCHANGED thread /\ pc' = [pc EXCEPT ![c] = "stop"]
    BY <2>2
  <2>3. CASE /\ pc' = [pc EXCEPT ![c] = "connect"]
             /\ thread' = [thread EXCEPT ![c] = "starting"]
    BY <2>3
  <2> QED
    BY <1>3, <2>1, <2>2, <2>3 DEF List, Verify, Listed, NoAnswer
<1>4. ASSUME NEW c \in Clients, Subscribe(c) PROVE Goal
  BY <1>4 DEF Subscribe
<1>5. ASSUME NEW c \in Clients,
             \/ Spawn(c) \/ CameUp(c) \/ NotUp(c) \/ Connect(c) \/ Post(c) \/ Take(c)
             \/ Stop(c) \/ Waited(c) \/ Kill(c) \/ NotReaped(c) \/ Expire(c) \/ Delete(c)
      PROVE  Goal
  BY <1>5 DEF Spawn, CameUp, NotUp, Connect, Post, Take, Stop, Waited, Kill, NotReaped,
              Expire, Delete, NoAnswer
<1>6. ASSUME NEW c \in Clients, NEW o \in {"download", "delete"}, NEW p \in Ports,
             Begin(c, o, p)
      PROVE  Goal
  BY <1>6 DEF Begin
<1>7. CASE UNCHANGED pullVars
  BY <1>7 DEF pullVars
<1> QED
  BY <1>2, <1>3, <1>4, <1>5, <1>6, <1>7 DEF PullNext, Step

LEMMA QueueStep ==
    /\ PullTypeOK /\ SourceInv /\ ThreadInv /\ QueueInv
    /\ [PullNext]_pullVars
    => QueueInv'
<1> SUFFICES ASSUME PullTypeOK, SourceInv, ThreadInv, QueueInv, [PullNext]_pullVars,
                    NEW d \in Clients
             PROVE  /\ (Following(d) /\ thread[d] = "ended" => HasEnd(queue[d]))'
                    /\ (pc[d] = "events" /\ thread[d] = "open" =>
                           loading[source[d]] \/ HasEnd(queue[d]))'
  BY DEF QueueInv
<1> DEFINE Goal == /\ (Following(d) /\ thread[d] = "ended" => HasEnd(queue[d]))'
                   /\ (pc[d] = "events" /\ thread[d] = "open" =>
                          loading[source[d]] \/ HasEnd(queue[d]))'
<1> SUFFICES Goal
  OBVIOUS
<1>0. /\ queue \in [Clients -> Seq(Events)]
      /\ {"finished", "failed", "end"} \subseteq Terminal
      /\ Terminal \subseteq Events /\ "progress" \in Events
  BY DEF PullTypeOK, Terminal, Events
<1> USE DEF PullTypeOK, QueueInv, Following, callVars, routerVars,
            streamVars, quiet, Moves, Leave
<1>1. ASSUME NEW s \in Clients, Gone(s),
             pc'[d] = pc[d] \/ pc'[d] \notin {"connect", "post", "events"}
      PROVE  Goal
  <2>1. HasEnd(queue[d]) => HasEnd(queue[d])'
    BY <1>0, <1>1, SendsTyped DEF Gone
  <2>2. source[d] = s /\ Following(d) => HasEnd(queue[d])'
    BY <1>0, <1>1, SendsTyped DEF Gone
  <2>3. source[d] # s => /\ source'[d] = source[d] /\ thread'[d] = thread[d]
                         /\ thread[d] = "open" => loading'[source[d]] = loading[source[d]]
    BY <1>1 DEF Gone, SourceInv, Bound
  <2> QED
    BY <1>1, <2>1, <2>2, <2>3 DEF Gone
<1>2. ASSUME NEW s \in Clients, Router(s) PROVE Goal
  <2>1. CASE Crashes(s) \/ Dies(s)
    BY <1>1, <2>1 DEF Crashes, Dies
  <2>2. ASSUME NEW e \in {"failed", "finished"}, NEW landed \in BOOLEAN, Ends(s, e,
               landed)
        PROVE  Goal
    <3>1. /\ HasEnd(queue[d]) => HasEnd(queue[d])'
          /\ source[d] = s /\ Following(d) => HasEnd(queue[d])'
      BY <1>0, <2>2, SendsTyped DEF Ends
    <3>2. UNCHANGED <<pc, thread, source>> /\ loading' = [loading EXCEPT ![s] = FALSE]
      BY <2>2 DEF Ends
    <3> QED
      BY <3>1, <3>2 DEF SourceInv, Bound
  <2>3. CASE Progress(s)
    <3>1. HasEnd(queue[d]) => HasEnd(queue[d])'
      BY <1>0, <2>3, SendsTyped DEF Progress
    <3> QED
      BY <2>3, <3>1 DEF Progress
  <2>4. CASE Binds(s) \/ Hangs(s)
    BY <2>4 DEF Binds, Hangs
  <2> QED
    BY <1>2, <2>1, <2>2, <2>3, <2>4 DEF Router
<1>3. ASSUME NEW c \in Clients, List(c) \/ Verify(c) PROVE Goal
  <2>1. CASE CutShort(c, "list") \/ CutShort(c, "verify")
    BY <1>1, <2>1 DEF CutShort
  <2>2. CASE UNCHANGED <<thread, source, queue, loading>> /\ pc' = [pc EXCEPT ![c] = "stop"]
    BY <2>2
  <2>3. CASE /\ pc' = [pc EXCEPT ![c] = "connect"]
             /\ thread' = [thread EXCEPT ![c] = "starting"]
             /\ UNCHANGED <<source, queue, loading>>
    BY <2>3
  <2> QED
    BY <1>3, <2>1, <2>2, <2>3 DEF List, Verify, Listed, NoAnswer
<1>4. ASSUME NEW c \in Clients, Subscribe(c) PROVE Goal
  <2>1. CASE Unanswered(c) /\ queue' = [queue EXCEPT ![c] = Append(@, "end")]
    <3>1. HasEnd(Append(queue[c], "end"))
      BY <1>0, AppendKeepsEnd
    <3> QED
      BY <1>0, <1>4, <2>1, <3>1 DEF Subscribe, Unanswered
  <2>2. CASE queue' = queue /\ thread' = [thread EXCEPT ![c] = "open"] /\ pc[c] # "events"
    BY <1>4, <2>2 DEF Subscribe
  <2> QED
    BY <1>4, <2>1, <2>2 DEF Subscribe, ThreadInv
<1>5. ASSUME NEW c \in Clients, Post(c) PROVE Goal
  <2>1. ASSUME NEW s \in Clients, Answers(c, s), loading' = [loading EXCEPT ![s] = TRUE],
               pc[c] = "post", pc' = [pc EXCEPT ![c] = "events"],
               UNCHANGED <<thread, source, queue>>
        PROVE  Goal
    BY <2>1 DEF Answers, Bound, SourceInv, ThreadInv
  <2>2. CASE UNCHANGED quiet /\ pc' = [pc EXCEPT ![c] = "stop"]
    BY <2>2
  <2>3. CASE ~(UNCHANGED quiet /\ pc' = [pc EXCEPT ![c] = "stop"])
    <3>1. /\ \E s \in Clients :
                Answers(c, s) /\ loading' = [loading EXCEPT ![s] = TRUE]
          /\ pc[c] = "post" /\ pc' = [pc EXCEPT ![c] = "events"]
          /\ UNCHANGED streamVars
      BY <1>5, <2>3 DEF Post
    <3> QED
      BY <2>1, <3>1
  <2> QED
    BY <2>2, <2>3
<1>6. ASSUME NEW c \in Clients, Take(c) PROVE Goal
  <2>1. CASE /\ pc' = pc /\ Head(queue[c]) = "progress"
             /\ queue' = [queue EXCEPT ![c] = Tail(@)]
    <3>1. HasEnd(queue[c]) => HasEnd(Tail(queue[c]))
      BY <1>0, <1>6, <2>1, TailKeepsEnd DEF Take, Terminal
    <3> QED
      BY <1>0, <1>6, <2>1, <3>1 DEF Take
  <2>2. CASE \E to \in {"stop", "verify"} :
               pc' = [pc EXCEPT ![c] = to] /\ queue' = [queue EXCEPT ![c] = <<>>]
    BY <1>6, <2>2 DEF Take
  <2> QED
    BY <1>6, <2>1, <2>2 DEF Take
<1>7. ASSUME NEW c \in Clients,
             \/ Spawn(c) \/ CameUp(c) \/ NotUp(c) \/ Connect(c) \/ Stop(c) \/ Waited(c)
             \/ Kill(c) \/ NotReaped(c) \/ Expire(c) \/ Delete(c)
      PROVE  Goal
  BY <1>7 DEF Spawn, CameUp, NotUp, Connect, Stop, Waited, Kill, NotReaped, Expire,
     Delete,
              NoAnswer
<1>8. ASSUME NEW c \in Clients, NEW o \in {"download", "delete"}, NEW p \in Ports,
             Begin(c, o, p)
      PROVE  Goal
  BY <1>8 DEF Begin
<1>9. CASE UNCHANGED pullVars
  BY <1>9 DEF pullVars
<1> QED
  BY <1>2, <1>3, <1>4, <1>5, <1>6, <1>7, <1>8, <1>9 DEF PullNext, Step

LEMMA RouterInvariant == PullSpec => [](PullTypeOK /\ RouterInv)
<1>1. PullInit => RouterInv
  BY DEF PullInit, RouterInv, ProcInv, HonestInv, ListInv, AskingInv, PortInv, SourceInv, ThreadInv,
     QueueInv, Following
<1>2. PullTypeOK /\ RouterInv /\ [PullNext]_pullVars => RouterInv'
  BY ProcStep, HonestStep, PortStep, SourceStep, ThreadStep, QueueStep DEF RouterInv
<1> QED
  BY <1>1, <1>2, RouterTyped, PTL DEF PullSpec

(* When a call is over, its router is gone or has been sent a SIGKILL      *)
(* (the finally of cache_router.scratch_router).                           *)
THEOREM RoutersAreStopped == PullSpec => []NoRouterIsLeft
<1>1. RouterInv => NoRouterIsLeft
  BY DEF RouterInv, ProcInv, NoRouterIsLeft
<1> QED
  BY <1>1, RouterInvariant, PTL

(* A download that returned has the model in the cache, unless it was      *)
(* removed since the router that said so learned of it                     *)
(* (cache_router.download, _model_ids).                                    *)
THEOREM PullsAreHonest == PullSpec => []PullIsHonest
<1>1. RouterInv => PullIsHonest
  BY DEF RouterInv, HonestInv, PullIsHonest
<1> QED
  BY <1>1, RouterInvariant, PTL

(* A call that waits for the end of its download will be told of it, even  *)
(* by a router that another call started at its port.                      *)
THEOREM EndsAreHeard == PullSpec => []EndIsNotMissed
<1>1. PullTypeOK /\ RouterInv => EndIsNotMissed
  <2> SUFFICES ASSUME PullTypeOK, RouterInv, NEW c \in Clients, pc[c] = "events",
                      ~HasEnd(queue[c])
               PROVE  \E s \in Bound(port[c]) : loading[s]
    BY DEF EndIsNotMissed, HasEnd
  <2>1. thread[c] = "open" /\ loading[source[c]]
    BY DEF RouterInv, ThreadInv, QueueInv, Following
  <2>2. source[c] \in Bound(port[c])
    BY <2>1 DEF RouterInv, SourceInv
  <2> QED
    BY <2>1, <2>2
<1> QED
  BY <1>1, RouterInvariant, PTL
=============================================================================
