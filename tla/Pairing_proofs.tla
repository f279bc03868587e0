---------------------------- MODULE Pairing_proofs ----------------------------
(***************************************************************************)
(* Proofs about Pairing for any set of processes and credentials and any   *)
(* number of commands and kills.                                           *)
(***************************************************************************)
EXTENDS Pairing, TLAPS

USE PairingAssumption, UnpairedAssumption

Writing(c) == cmd[c].pc = "write"

(* A command from which another's writing was not hidden has the file to   *)
(* itself: it says what the command has read, or is torn by the command.   *)
CrossInv ==
    \A c \in Commands : Holding(c) =>
        /\ (\E d \in Commands \ {c} : Writing(d)) => c \in crossed
        /\ c \notin crossed /\ Writing(c) => file = Torn
        /\ c \notin crossed /\ cmd[c].op = "install" /\ ~Writing(c) =>
              cmd[c].cfg.pairing = file.cfg.pairing

(* What a command keeps of the file is what the others have asked for.     *)
Keeps(c) ==
    IF cmd[c].op = "install" THEN cmd[c].cfg.pairing = asked.pairing
    ELSE cmd[c].cfg.build = asked.build

LostInv ==
    /\ file = NoFile => asked = Nothing
    /\ ~lost =>
        /\ file = Torn => \E d \in Commands : Writing(d)
        /\ Readable => file.cfg = asked
        /\ \A c \in Commands : Holding(c) /\ c \notin crossed => Keeps(c)

(* A difference between the service and the file has somebody at work on   *)
(* it, who truncated the file or is about to stop the service.             *)
MissInv ==
    ~missed /\ service.state = "up" =>
        \/ \E d \in Commands : cmd[d].pc = "halt"
        \/ /\ \/ \E d \in Commands : Writing(d)
              \/ service.cfg.pairing = file.cfg.pairing
           /\ \A c \in Commands :
                Holding(c) /\ c \notin crossed /\ cmd[c].op = "install" =>
                    service.cfg.pairing = cmd[c].cfg.pairing

IInv == TypeOK /\ CrossInv /\ LostInv /\ MissInv

LEMMA InitOK == Init => IInv
<1> SUFFICES ASSUME Init PROVE IInv
  OBVIOUS
<1> USE DEF Init
<1>1. Nothing \in Config /\ Idle \in Activity /\ Idle.pc = "idle" /\ Idle.op = "none"
  BY DEF Nothing, Config, Pairings, Idle, Activity, Ops, Pcs
<1>2. TypeOK
  <2>1. /\ cmd \in [Commands -> Activity]
        /\ \A c \in Commands : cmd[c].pc = "idle" <=> cmd[c].op = "none"
    BY <1>1
  <2>2. /\ service \in [state : ServiceStates, cfg : Config]
        /\ service.state # "up" => service.cfg = Nothing
    BY <1>1 DEF ServiceStates
  <2>3. begun \in 0 .. MaxCommands /\ kills \in 0 .. MaxKills
    OBVIOUS
  <2> QED
    BY <1>1, <2>1, <2>2, <2>3 DEF TypeOK
<1>3. \A c \in Commands : ~Holding(c) /\ ~Writing(c)
  BY <1>1 DEF Holding, Writing
<1>4. file # Torn /\ ~Readable
  BY DEF NoFile, Torn, Readable
<1> QED
  BY <1>2, <1>3, <1>4 DEF IInv, CrossInv, LostInv, MissInv

(* The file, read or not, holds a configuration.                           *)
LEMMA FileOK == TypeOK => file.cfg \in Config /\ (file.state # "whole" => file.cfg = Nothing)
  BY DEF TypeOK, NoFile, Torn, Whole, Nothing, Config, Pairings

(* A command touches only its own record.                                  *)
LEMMA OthersStay ==
  ASSUME TypeOK, NEW c \in Commands, Command(c), NEW d \in Commands, d # c
  PROVE  cmd'[d] = cmd[d]
  BY DEF Command, Install, Login, Logout, Begin, CarryOver, LoginLoads, LogoutLoads,
         Prepare, PullModel, FetchNewt,
         Truncate, Write, Register, Halt, Launch, Killed, Goto, Ends, TypeOK

(* A command goes to another step, or ends.                                *)
LEMMA GotoOK ==
  ASSUME TypeOK, NEW c \in Commands
  PROVE  /\ Ends(c) => cmd' \in [Commands -> Activity]
                       /\ \A d \in Commands : cmd'[d].pc = "idle" <=> cmd'[d].op = "none"
         /\ cmd[c].pc # "idle" => \A p \in Pcs \ {"idle"} : Goto(c, p) =>
                cmd' \in [Commands -> Activity]
                /\ \A d \in Commands : cmd'[d].pc = "idle" <=> cmd'[d].op = "none"
<1>1. Idle \in Activity /\ Idle.pc = "idle" /\ Idle.op = "none"
  BY DEF Nothing, Config, Pairings, Idle, Activity, Ops, Pcs
<1>2. ASSUME NEW p \in Pcs \ {"idle"}
      PROVE  [cmd[c] EXCEPT !.pc = p] \in Activity
  BY DEF TypeOK, Activity
<1>3. ASSUME cmd[c].pc # "idle", NEW p \in Pcs \ {"idle"}, Goto(c, p)
      PROVE  /\ cmd' \in [Commands -> Activity]
             /\ \A d \in Commands : cmd'[d].pc = "idle" <=> cmd'[d].op = "none"
  <2>1. cmd' = [cmd EXCEPT ![c] = [cmd[c] EXCEPT !.pc = p]]
    BY <1>3 DEF Goto, TypeOK
  <2>2. cmd[c].op # "none" /\ [cmd[c] EXCEPT !.pc = p].op = cmd[c].op
        /\ [cmd[c] EXCEPT !.pc = p].pc = p
    BY <1>3 DEF TypeOK, Activity
  <2> DEFINE a == [cmd[c] EXCEPT !.pc = p]
  <2>3. a \in Activity /\ cmd' = [cmd EXCEPT ![c] = a] /\ a.pc # "idle" /\ a.op # "none"
    BY <1>2, <2>1, <2>2
  <2> HIDE DEF a
  <2> QED
    BY <2>3 DEF TypeOK
<1>4. ASSUME Ends(c)
      PROVE  /\ cmd' \in [Commands -> Activity]
             /\ \A d \in Commands : cmd'[d].pc = "idle" <=> cmd'[d].op = "none"
  BY <1>1, <1>4 DEF Ends, TypeOK
<1> QED
  BY <1>3, <1>4

(* A command reads or changes what its record says besides.                *)
LEMMA RecordOK ==
  ASSUME TypeOK, NEW c \in Commands, NEW a \in Activity, a.pc # "idle", a.op # "none",
         cmd' = [cmd EXCEPT ![c] = a]
  PROVE  /\ cmd' \in [Commands -> Activity]
         /\ \A d \in Commands : cmd'[d].pc = "idle" <=> cmd'[d].op = "none"
  BY DEF TypeOK

LEMMA TypeStep == TypeOK /\ [Next]_vars => TypeOK'
<1> SUFFICES ASSUME TypeOK, [Next]_vars PROVE TypeOK'
  OBVIOUS
<1> USE DEF historyVars
<1>f. file.cfg \in Config
  BY FileOK
<1>1. ASSUME NEW c \in Commands, Command(c), Observed PROVE TypeOK'
  <2> DEFINE CmdOK == /\ cmd \in [Commands -> Activity]
                      /\ \A d \in Commands : cmd[d].pc = "idle" <=> cmd[d].op = "none"
  <2>1. crossed' \subseteq Commands
    BY <1>1 DEF Observed, Crossing, TypeOK
  <2>2. cmd[c] \in Activity /\ (cmd[c].pc # "idle" => cmd[c].op # "none")
    BY DEF TypeOK
  <2>b. ASSUME NEW op \in {"install", "login", "logout"}, NEW cfg \in Config, Begin(c, op, cfg)
        PROVE  TypeOK'
    <3> DEFINE a == [Idle EXCEPT !.op = op, !.pc = "read", !.cfg = cfg]
    <3>1. Idle \in Activity
      BY DEF Idle, Activity, Ops, Pcs, Nothing, Config, Pairings
    <3>2. a \in Activity /\ a.pc = "read" /\ a.op = op
      BY <3>1 DEF Activity, Ops, Pcs
    <3>3. cmd' = [cmd EXCEPT ![c] = a]
      BY <2>b DEF Begin
    <3>4. CmdOK'
      BY <3>2, <3>3, RecordOK
    <3> QED
      BY <2>1, <2>b, <3>4 DEF Begin, TypeOK
  <2>3. ASSUME NEW b \in 1 .. MaxBuild, Install(c, b) PROVE TypeOK'
    BY <2>b, <2>3 DEF Install, Config, Pairings
  <2>4. ASSUME NEW k \in Creds, Login(c, k) PROVE TypeOK'
    BY <2>b, <2>4 DEF Login, Config, Pairings
  <2>5. CASE Logout(c)
    BY <2>b, <2>5 DEF Logout, Nothing, Config, Pairings
  <2>6. CASE CarryOver(c)
    <3> DEFINE a == [cmd[c] EXCEPT !.pc = "prepare", !.cfg.pairing = file.cfg.pairing]
    <3>1. a \in Activity /\ a.pc = "prepare" /\ a.op = cmd[c].op
      BY <2>2, <1>f DEF Activity, Pcs, Config
    <3>2. cmd' = [cmd EXCEPT ![c] = a]
      BY <2>6 DEF CarryOver, TypeOK
    <3>3. CmdOK'
      BY <2>2, <2>6, <3>1, <3>2, RecordOK DEF CarryOver
    <3> QED
      BY <2>1, <2>6, <3>3 DEF CarryOver, TypeOK
  <2>7. CASE LoginLoads(c)
    <3> DEFINE a == [cmd[c] EXCEPT !.pc = "prepare", !.cfg.build = file.cfg.build]
    <3>1. a \in Activity /\ a.pc = "prepare" /\ a.op = cmd[c].op
      BY <2>2, <1>f DEF Activity, Pcs, Config
    <3>2. cmd' = [cmd EXCEPT ![c] = a] \/ Ends(c)
      BY <2>7 DEF LoginLoads, TypeOK
    <3>3. CmdOK'
      BY <2>2, <2>7, <3>1, <3>2, RecordOK, GotoOK DEF LoginLoads
    <3> QED
      BY <2>1, <2>7, <3>3 DEF LoginLoads, TypeOK
  <2>8. CASE LogoutLoads(c)
    <3> DEFINE a == [cmd[c] EXCEPT !.pc = "truncate", !.cfg.build = file.cfg.build]
    <3>1. a \in Activity /\ a.pc = "truncate" /\ a.op = cmd[c].op
      BY <2>2, <1>f DEF Activity, Pcs, Config
    <3>2. cmd' = [cmd EXCEPT ![c] = a] \/ Ends(c)
      BY <2>8 DEF LogoutLoads, TypeOK
    <3>3. CmdOK'
      BY <2>2, <2>8, <3>1, <3>2, RecordOK, GotoOK DEF LogoutLoads
    <3> QED
      BY <2>1, <2>8, <3>3 DEF LogoutLoads, TypeOK
  <2>9. CASE Prepare(c)
    <3>1. CmdOK'
      BY <2>9, GotoOK DEF Prepare, PullModel, FetchNewt, Pcs
    <3> QED
      BY <2>1, <2>9, <3>1 DEF Prepare, PullModel, FetchNewt, TypeOK
  <2>10. CASE Truncate(c)
    <3>1. CmdOK'
      BY <2>10, GotoOK DEF Truncate, Pcs
    <3> QED
      BY <2>1, <2>10, <3>1 DEF Truncate, TypeOK
  <2>11. CASE Write(c)
    <3>1. CmdOK'
      BY <2>11, GotoOK DEF Write, Pcs
    <3>2. asked' \in Config
      BY <2>2, <2>11 DEF Write, Meant, TypeOK, Activity, Config
    <3>3. file' = Torn \/ \E cfg \in Config : file' = Whole(cfg)
      BY <2>2, <2>11 DEF Write, Activity
    <3> QED
      BY <2>1, <2>11, <3>1, <3>2, <3>3 DEF Write, TypeOK
  <2>12. CASE Register(c)
    <3>1. CmdOK'
      BY <2>12, GotoOK DEF Register, Pcs
    <3>2. /\ service' \in [state : ServiceStates, cfg : Config]
          /\ service'.state # "up" => service'.cfg = Nothing
      BY <2>12 DEF Register, TypeOK, ServiceStates
    <3> QED
      BY <2>1, <2>12, <3>1, <3>2 DEF Register, TypeOK
  <2>13. ASSUME NEW works \in BOOLEAN, Halt(c, works) PROVE TypeOK'
    <3>3. CmdOK'
      BY <2>13, GotoOK DEF Halt, Pcs
    <3>4. /\ service' \in [state : ServiceStates, cfg : Config]
          /\ service'.state # "up" => service'.cfg = Nothing
      BY <2>13 DEF Halt, TypeOK, ServiceStates, Nothing, Config, Pairings
    <3> QED
      BY <2>1, <2>13, <3>3, <3>4 DEF Halt, TypeOK
  <2>14. ASSUME NEW works \in BOOLEAN, Launch(c, works) PROVE TypeOK'
    <3>1. CmdOK'
      BY <2>14, GotoOK DEF Launch, Pcs
    <3>2. /\ service' \in [state : ServiceStates, cfg : Config]
          /\ service'.state # "up" => service'.cfg = Nothing
      BY <2>14 DEF Launch, TypeOK, ServiceStates
    <3> QED
      BY <2>1, <2>14, <3>1, <3>2 DEF Launch, TypeOK
  <2>15. CASE Killed(c)
    <3>1. CmdOK'
      BY <2>15, GotoOK DEF Killed
    <3> QED
      BY <2>1, <2>15, <3>1 DEF Killed, TypeOK
  <2> QED
    BY <1>1, <2>3, <2>4, <2>5, <2>6, <2>7, <2>8, <2>9, <2>10, <2>11, <2>12, <2>13, <2>14, <2>15
       DEF Command
<1>2. ASSUME ServiceReads, UNCHANGED crossed PROVE TypeOK'
  BY <1>2, <1>f DEF ServiceReads, TypeOK, ServiceStates, Readable
<1>3. ASSUME ServiceDies, UNCHANGED crossed PROVE TypeOK'
  BY <1>3 DEF ServiceDies, TypeOK, ServiceStates, Nothing, Config, Pairings
<1>4. CASE UNCHANGED vars
  BY <1>4 DEF vars, TypeOK
<1> QED
  BY <1>1, <1>2, <1>3, <1>4 DEF Next

-----------------------------------------------------------------------------
(* What each step of a command does to its record, in one place.           *)
LEMMA RecordSteps ==
  ASSUME TypeOK, NEW c \in Commands, Command(c)
  PROVE  \/ /\ cmd[c].pc = "idle" /\ cmd'[c].pc = "read"
            /\ UNCHANGED <<file, service, asked, lost, missed>>
         \/ /\ cmd[c].pc = "read" /\ cmd'[c].pc = "prepare" /\ cmd'[c].op = cmd[c].op
            /\ cmd[c].op = "install" => cmd'[c].cfg.pairing = file.cfg.pairing
            /\ cmd[c].op # "install" => Readable /\ cmd'[c].cfg.build = file.cfg.build
            /\ UNCHANGED <<file, service, asked, lost, missed>>
         \/ /\ cmd[c].pc = "read" /\ cmd'[c].pc = "truncate" /\ cmd'[c].op = cmd[c].op
            /\ cmd[c].op # "install" /\ Readable /\ cmd'[c].cfg.build = file.cfg.build
            /\ UNCHANGED <<file, service, asked, lost, missed>>
         \/ /\ cmd[c].pc \in {"read", "prepare"} /\ cmd'[c].pc = "idle"
            /\ UNCHANGED <<file, service, asked, lost, missed>>
         \/ /\ cmd[c].pc = "prepare" /\ cmd'[c] = [cmd[c] EXCEPT !.pc = "truncate"]
            /\ UNCHANGED <<file, service, asked, lost, missed>>
         \/ Truncate(c) /\ cmd'[c] = [cmd[c] EXCEPT !.pc = "write"]
         \/ /\ Write(c) /\ cmd'[c].pc = IF cmd[c].op = "install" THEN "register" ELSE "halt"
         \/ /\ cmd[c].pc = "register" /\ cmd'[c].pc \in {"idle", "launch"}
            /\ service'.state = "up" => service' = service
            /\ UNCHANGED <<file, asked, lost, missed>>
         \/ /\ cmd[c].pc = "halt" /\ cmd'[c].pc = "launch"
            /\ missed' \/ service'.state = "down"
            /\ UNCHANGED <<file, asked, lost>>
         \/ /\ cmd[c].pc = "launch" /\ cmd'[c].pc = "idle"
            /\ service'.state = "up" => service' = service
            /\ UNCHANGED <<file, asked, lost, missed>>
         \/ Killed(c) /\ cmd'[c].pc = "idle"
<1> USE DEF historyVars
<1>1. Idle.pc = "idle"
  BY DEF Idle
<1>2. cmd \in [Commands -> Activity]
  BY DEF TypeOK
<1>3. ASSUME NEW op \in Ops, NEW cfg \in Config, Begin(c, op, cfg)
      PROVE  /\ cmd[c].pc = "idle" /\ cmd'[c].pc = "read"
             /\ UNCHANGED <<file, service, asked, lost, missed>>
  BY <1>1, <1>2, <1>3 DEF Begin, Idle
<1>4. ASSUME NEW b \in 1 .. MaxBuild, Install(c, b)
      PROVE  /\ cmd[c].pc = "idle" /\ cmd'[c].pc = "read"
             /\ UNCHANGED <<file, service, asked, lost, missed>>
  BY <1>3, <1>4 DEF Install, Ops, Config, Pairings
<1>5. ASSUME NEW k \in Creds, Login(c, k)
      PROVE  /\ cmd[c].pc = "idle" /\ cmd'[c].pc = "read"
             /\ UNCHANGED <<file, service, asked, lost, missed>>
  BY <1>3, <1>5 DEF Login, Ops, Config, Pairings
<1>6. ASSUME Logout(c)
      PROVE  /\ cmd[c].pc = "idle" /\ cmd'[c].pc = "read"
             /\ UNCHANGED <<file, service, asked, lost, missed>>
  BY <1>3, <1>6 DEF Logout, Ops, Config, Pairings, Nothing
<1>7. CASE CarryOver(c)
  BY <1>2, <1>7 DEF CarryOver, Activity
<1>8. CASE LoginLoads(c)
  <2>1. CASE cmd' = [cmd EXCEPT ![c].pc = "prepare", ![c].cfg.build = file.cfg.build]
    <3>1. /\ cmd'[c].pc = "prepare" /\ cmd'[c].op = cmd[c].op
          /\ cmd'[c].cfg.build = file.cfg.build
      BY <1>2, <2>1 DEF Activity, Config
    <3>2. CASE Ends(c)
      BY <1>1, <1>2, <1>8, <3>2 DEF LoginLoads, Ends
    <3>3. CASE ~Ends(c)
      BY <1>8, <3>1, <3>3 DEF LoginLoads
    <3> QED
      BY <3>2, <3>3
  <2>2. CASE Ends(c)
    BY <1>1, <1>2, <1>8, <2>2 DEF LoginLoads, Ends
  <2> QED
    BY <1>8, <2>1, <2>2 DEF LoginLoads
<1>9. CASE LogoutLoads(c)
  <2>1. CASE cmd' = [cmd EXCEPT ![c].pc = "truncate", ![c].cfg.build = file.cfg.build]
    <3>1. /\ cmd'[c].pc = "truncate" /\ cmd'[c].op = cmd[c].op
          /\ cmd'[c].cfg.build = file.cfg.build
      BY <1>2, <2>1 DEF Activity, Config
    <3>2. CASE Ends(c)
      BY <1>1, <1>2, <1>9, <3>2 DEF LogoutLoads, Ends
    <3>3. CASE ~Ends(c)
      BY <1>9, <3>1, <3>3 DEF LogoutLoads
    <3> QED
      BY <3>2, <3>3
  <2>2. CASE Ends(c)
    BY <1>1, <1>2, <1>9, <2>2 DEF LogoutLoads, Ends
  <2> QED
    BY <1>9, <2>1, <2>2 DEF LogoutLoads
<1>10. CASE Prepare(c)
  BY <1>1, <1>2, <1>10 DEF Prepare, PullModel, FetchNewt, Goto, Ends
<1>11. CASE Truncate(c)
  BY <1>2, <1>11 DEF Truncate, Goto
<1>12. CASE Write(c)
  BY <1>2, <1>12 DEF Write, Goto, Activity
<1>13. CASE Register(c)
  BY <1>1, <1>2, <1>13 DEF Register, Goto, Ends, Activity, TypeOK
<1>14. ASSUME NEW works \in BOOLEAN, Halt(c, works)
       PROVE  /\ cmd[c].pc = "halt" /\ cmd'[c].pc = "launch"
              /\ missed' \/ service'.state = "down"
              /\ UNCHANGED <<file, asked, lost>>
  BY <1>2, <1>14 DEF Halt, Goto, Activity
<1>15. ASSUME NEW works \in BOOLEAN, Launch(c, works)
       PROVE  /\ cmd[c].pc = "launch" /\ cmd'[c].pc = "idle"
              /\ service'.state = "up" => service' = service
              /\ UNCHANGED <<file, asked, lost, missed>>
  BY <1>1, <1>2, <1>15 DEF Launch, Ends, TypeOK
<1>16. CASE Killed(c)
  BY <1>1, <1>2, <1>16 DEF Killed, Ends
<1> QED
  BY <1>4, <1>5, <1>6, <1>7, <1>8, <1>9, <1>10, <1>11, <1>12, <1>13, <1>14, <1>15, <1>16
     DEF Command

(* Who holds a view of the file while another writes is remembered.        *)
LEMMA CrossedStays ==
  ASSUME Observed, NEW c \in Commands, Holding(c)'
  PROVE  /\ c \in crossed => c \in crossed'
         /\ (\E d \in Commands \ {c} : Writing(d)') => c \in crossed'
  BY DEF Observed, Crossing, Writing

LEMMA CrossStep == IInv /\ TypeOK' /\ [Next]_vars => CrossInv'
<1> SUFFICES ASSUME IInv, TypeOK', [Next]_vars PROVE CrossInv'
  OBVIOUS
<1>0. TypeOK /\ CrossInv
  BY DEF IInv
<1>1. ASSUME NEW c \in Commands, Command(c), Observed,
             NEW e \in Commands, Holding(e)',
             e \notin crossed'
      PROVE  /\ ~\E d \in Commands \ {e} : Writing(d)'
             /\ Writing(e)' => file' = Torn
             /\ cmd'[e].op = "install" /\ ~Writing(e)' => cmd'[e].cfg.pairing = file'.cfg.pairing
  <2>1. /\ e \notin crossed
        /\ ~\E d \in Commands \ {e} : Writing(d)'
    BY <1>1, CrossedStays
  <2>2. CASE e = c
    <3>1. CASE UNCHANGED file
      <4>1. CASE cmd[c].pc = "read"
        <5>1. cmd'[c].pc \in {"prepare", "truncate"}
          BY <1>0, <1>1, <2>2, <4>1, RecordSteps DEF Holding, Truncate, Write, Killed
        <5>2. cmd'[c].op = "install" => cmd'[c].cfg.pairing = file.cfg.pairing
          BY <1>0, <1>1, <4>1, <5>1, RecordSteps DEF Truncate, Write, Killed
        <5> QED
          BY <2>1, <2>2, <3>1, <5>1, <5>2 DEF Writing
      <4>2. CASE cmd'[c] = [cmd[c] EXCEPT !.pc = "truncate"] /\ cmd[c].pc = "prepare"
        BY <1>0, <2>1, <2>2, <3>1, <4>2 DEF CrossInv, Holding, Writing, TypeOK, Activity
      <4>3. CASE Truncate(c) /\ cmd'[c] = [cmd[c] EXCEPT !.pc = "write"]
        BY <1>0, <2>1, <2>2, <4>3 DEF Truncate, Writing, TypeOK, Activity
      <4> QED
        BY <1>0, <1>1, <2>2, <4>1, <4>2, <4>3, RecordSteps DEF Holding, Truncate, Write, Killed
    <3>2. CASE Truncate(c) /\ cmd'[c] = [cmd[c] EXCEPT !.pc = "write"]
      BY <1>0, <2>1, <2>2, <3>2 DEF Truncate, Writing, TypeOK, Activity
    <3>3. CASE Write(c) /\ cmd'[c].pc = IF cmd[c].op = "install" THEN "register" ELSE "halt"
      BY <1>1, <2>2, <3>3 DEF Holding
    <3>4. CASE Killed(c) /\ cmd'[c].pc = "idle"
      BY <1>1, <2>2, <3>4 DEF Holding
    <3> QED
      BY <1>0, <1>1, <3>1, <3>2, <3>3, <3>4, RecordSteps
  <2>3. CASE e # c
    <3>1. cmd'[e] = cmd[e] /\ Holding(e)
      BY <1>0, <1>1, <2>3, OthersStay DEF Holding
    <3>2. ~Writing(c) /\ ~Writing(c)'
      BY <1>0, <1>1, <2>1, <2>3, <3>1 DEF CrossInv
    <3>3. UNCHANGED file
      BY <1>0, <1>1, <3>2, RecordSteps DEF Writing, Truncate, Write, Killed, TypeOK, Activity
    <3> QED
      BY <1>0, <1>1, <2>1, <3>1, <3>3 DEF CrossInv, Writing, Holding
  <2> QED
    BY <2>2, <2>3
<1>2. ASSUME NEW c \in Commands, Command(c), Observed PROVE CrossInv'
  BY <1>1, <1>2 DEF CrossInv
<1>3. ASSUME ServiceReads \/ ServiceDies, UNCHANGED crossed PROVE CrossInv'
  BY <1>0, <1>3 DEF ServiceReads, ServiceDies, CrossInv, Holding, Writing
<1>4. CASE UNCHANGED vars
  BY <1>0, <1>4 DEF vars, CrossInv, Holding, Writing
<1> QED
  BY <1>2, <1>3, <1>4 DEF Next

LEMMA LostStep == IInv /\ TypeOK' /\ [Next]_vars => LostInv'
<1> SUFFICES ASSUME IInv, TypeOK', [Next]_vars PROVE LostInv'
  OBVIOUS
<1> USE DEF historyVars
<1>0. TypeOK /\ CrossInv /\ LostInv
  BY DEF IInv
<1>a. Torn # NoFile /\ Torn.state # "whole" /\ NoFile.state # "whole" /\ NoFile.cfg = Nothing
      /\ \A cfg : Whole(cfg) # Torn /\ Whole(cfg) # NoFile /\ Whole(cfg).cfg = cfg
  BY DEF Torn, NoFile, Whole
<1>1. ASSUME NEW c \in Commands, Command(c), Observed PROVE LostInv'
  <2>1. CASE UNCHANGED <<file, asked, lost>> /\ ~Writing(c) /\ ~Writing(c)'
    <3>1. \A d \in Commands : Writing(d) => Writing(d)'
      BY <1>0, <1>1, <2>1, OthersStay DEF Writing
    <3>2. ASSUME ~lost, NEW e \in Commands, Holding(e)', e \notin crossed'
          PROVE  Keeps(e)'
      <4>1. e \notin crossed /\ ~\E d \in Commands \ {e} : Writing(d)'
        BY <1>1, <3>2, CrossedStays
      <4>2. CASE Holding(e) /\ cmd'[e].op = cmd[e].op /\ cmd'[e].cfg = cmd[e].cfg
        BY <1>0, <2>1, <3>2, <4>1, <4>2 DEF LostInv, Keeps
      <4>3. CASE e = c /\ cmd[c].pc = "read"
        <5>1. file # Torn
          BY <1>0, <2>1, <3>1, <3>2, <4>1, <4>3 DEF LostInv, Writing
        <5>2. CASE Readable
          BY <1>0, <1>1, <2>1, <3>2, <4>3, <5>2, RecordSteps
             DEF LostInv, Keeps, Holding, Truncate, Write, Killed
        <5>3. CASE ~Readable
          <6>1. file = NoFile /\ asked = Nothing
            BY <1>0, <5>1, <5>3 DEF TypeOK, Whole, Readable, LostInv
          <6> QED
            BY <1>0, <1>1, <1>a, <2>1, <3>2, <4>3, <5>3, <6>1, RecordSteps
               DEF Keeps, Holding, Truncate, Write, Killed
        <5> QED
          BY <5>2, <5>3
      <4>4. CASE e # c
        BY <1>0, <1>1, <3>2, <4>2, <4>4, OthersStay DEF Holding
      <4>5. CASE e = c /\ cmd[c].pc # "read"
        <5>1. cmd'[c].pc = "truncate" /\ cmd'[c] = [cmd[c] EXCEPT !.pc = "truncate"] /\ cmd[c].pc = "prepare"
          BY <1>0, <1>1, <2>1, <3>2, <4>5, RecordSteps DEF Holding, Writing, Truncate, Write, TypeOK, Activity
        <5> QED
          BY <1>0, <4>2, <4>5, <5>1 DEF Holding, TypeOK, Activity
      <4> QED
        BY <4>3, <4>4, <4>5
    <3> QED
      BY <1>0, <2>1, <3>1, <3>2 DEF LostInv, Readable
  <2>2. CASE Truncate(c) /\ cmd'[c] = [cmd[c] EXCEPT !.pc = "write"]
    <3>1. Writing(c)' /\ file' = Torn /\ UNCHANGED <<asked, lost>>
      BY <1>0, <2>2 DEF Truncate, Writing, TypeOK, Activity
    <3>2. ASSUME ~lost, NEW e \in Commands, Holding(e)', e \notin crossed'
          PROVE  Keeps(e)'
      <4>1. e = c /\ e \notin crossed
        BY <1>1, <3>1, <3>2, CrossedStays
      <4>2. Holding(c) /\ cmd'[c].op = cmd[c].op /\ cmd'[c].cfg = cmd[c].cfg
        BY <1>0, <2>2 DEF Truncate, Holding, TypeOK, Activity
      <4> QED
        BY <1>0, <3>1, <3>2, <4>1, <4>2 DEF LostInv, Keeps
    <3> QED
      BY <1>a, <3>1, <3>2 DEF LostInv, Readable
  <2>3. CASE Write(c) /\ cmd'[c].pc = IF cmd[c].op = "install" THEN "register" ELSE "halt"
    <3>1. file' # NoFile
      BY <1>a, <2>3 DEF Write
    <3>2. CASE c \in crossed \/ lost
      BY <2>3, <3>1, <3>2 DEF Write, LostInv
    <3>3. CASE c \notin crossed /\ ~lost
      <4>1. file = Torn /\ Keeps(c)
        BY <1>0, <2>3, <3>3 DEF Write, CrossInv, LostInv, Holding, Writing
      <4>2. file' = Whole(cmd[c].cfg)
        BY <1>a, <2>3, <4>1 DEF Write, Readable
      <4>3. asked' = cmd[c].cfg
        <5>1. asked \in Config /\ asked' \in Config /\ cmd[c].cfg \in Config
          BY <1>0 DEF TypeOK, Activity
        <5>2. asked'.build = cmd[c].cfg.build /\ asked'.pairing = cmd[c].cfg.pairing
          BY <2>3, <4>1, <5>1 DEF Write, Meant, Keeps, Config
        <5> QED
          BY <5>1, <5>2 DEF Config
      <4>4. ASSUME NEW e \in Commands, Holding(e)' PROVE e \in crossed'
        <5>1. e # c
          BY <2>3, <4>4 DEF Holding
        <5>2. Holding(e)
          BY <1>0, <1>1, <4>4, <5>1, OthersStay DEF Holding
        <5>3. e \in crossed
          BY <1>0, <2>3, <5>1, <5>2 DEF CrossInv, Writing, Write
        <5> QED
          BY <1>1, <4>4, <5>3, CrossedStays
      <4> QED
        BY <1>a, <3>1, <4>2, <4>3, <4>4 DEF LostInv
    <3> QED
      BY <3>2, <3>3
  <2>4. CASE Killed(c) /\ cmd'[c].pc = "idle"
    <3>1. CASE Writing(c)
      BY <1>0, <2>4, <3>1 DEF Killed, Writing, LostInv
    <3>2. CASE ~Writing(c)
      BY <1>0, <2>1, <2>4, <3>2 DEF Killed, Writing, TypeOK
    <3> QED
      BY <3>1, <3>2
  <2> QED
    BY <1>0, <1>1, <2>1, <2>2, <2>3, <2>4, RecordSteps DEF Writing, TypeOK, Activity
<1>2. ASSUME ServiceReads \/ ServiceDies, UNCHANGED crossed PROVE LostInv'
  BY <1>0, <1>2 DEF ServiceReads, ServiceDies, LostInv, Holding, Writing, Readable, Keeps
<1>3. CASE UNCHANGED vars
  BY <1>0, <1>3 DEF vars, LostInv, Holding, Writing, Readable, Keeps
<1> QED
  BY <1>1, <1>2, <1>3 DEF Next

LEMMA MissStep == IInv /\ TypeOK' /\ [Next]_vars => MissInv'
<1> SUFFICES ASSUME IInv, TypeOK', [Next]_vars PROVE MissInv'
  OBVIOUS
<1> USE DEF historyVars
<1>0. TypeOK /\ CrossInv /\ MissInv
  BY DEF IInv
<1>1. ASSUME NEW c \in Commands, Command(c), Observed,
             ~missed', service'.state = "up",
             ~\E d \in Commands : cmd'[d].pc = "halt"
      PROVE  /\ \/ \E d \in Commands : Writing(d)'
                \/ service'.cfg.pairing = file'.cfg.pairing
             /\ \A e \in Commands :
                   Holding(e)' /\ e \notin crossed' /\ cmd'[e].op = "install" =>
                       service'.cfg.pairing = cmd'[e].cfg.pairing
  <2>a. \A d \in Commands \ {c} : cmd'[d] = cmd[d]
    BY <1>0, <1>1, OthersStay
  <2>b. cmd[c].pc # "halt"
    BY <1>0, <1>1, RecordSteps DEF Truncate, Write, Killed
  <2>c. ~\E d \in Commands : cmd[d].pc = "halt"
    BY <1>1, <2>a, <2>b
  <2>d. service' = service /\ ~missed
    BY <1>0, <1>1, <2>b, RecordSteps DEF Truncate, Write, Killed
  <2>e. /\ \/ \E d \in Commands : Writing(d)
           \/ service.cfg.pairing = file.cfg.pairing
        /\ \A e \in Commands :
              Holding(e) /\ e \notin crossed /\ cmd[e].op = "install" =>
                  service.cfg.pairing = cmd[e].cfg.pairing
    BY <1>0, <1>1, <2>c, <2>d DEF MissInv
  <2>1. CASE UNCHANGED file /\ ~Writing(c) /\ ~Writing(c)'
    <3>1. ASSUME NEW e \in Commands, Holding(e)', e \notin crossed', cmd'[e].op = "install"
          PROVE  service.cfg.pairing = cmd'[e].cfg.pairing
      <4>1. e \notin crossed /\ ~\E d \in Commands \ {e} : Writing(d)'
        BY <1>1, <3>1, CrossedStays
      <4>2. CASE e # c
        BY <2>a, <2>e, <3>1, <4>1, <4>2 DEF Holding
      <4>3. CASE e = c /\ cmd[c].pc = "read"
        <5>1. ~\E d \in Commands : Writing(d)
          BY <2>1, <2>a, <4>1, <4>3 DEF Writing
        <5>2. cmd'[c].cfg.pairing = file.cfg.pairing
          BY <1>0, <1>1, <3>1, <4>3, RecordSteps DEF Holding, Truncate, Write, Killed
        <5> QED
          BY <2>e, <4>3, <5>1, <5>2
      <4>4. CASE e = c /\ cmd[c].pc # "read"
        <5>1. cmd'[c] = [cmd[c] EXCEPT !.pc = "truncate"] /\ cmd[c].pc = "prepare"
          BY <1>0, <1>1, <2>1, <3>1, <4>4, RecordSteps
             DEF Holding, Writing, Truncate, Write, TypeOK, Activity
        <5> QED
          BY <1>0, <2>e, <3>1, <4>1, <4>4, <5>1 DEF Holding, TypeOK, Activity
      <4> QED
        BY <4>2, <4>3, <4>4
    <3> QED
      BY <2>1, <2>a, <2>d, <2>e, <3>1 DEF Writing
  <2>2. CASE Truncate(c) /\ cmd'[c] = [cmd[c] EXCEPT !.pc = "write"]
    <3>1. Writing(c)'
      BY <1>0, <2>2 DEF Writing, TypeOK, Activity
    <3>2. ASSUME NEW e \in Commands, Holding(e)', e \notin crossed', cmd'[e].op = "install"
          PROVE  service.cfg.pairing = cmd'[e].cfg.pairing
      <4>1. e = c /\ e \notin crossed
        BY <1>1, <3>1, <3>2, CrossedStays
      <4>2. Holding(c) /\ cmd'[c].op = cmd[c].op /\ cmd'[c].cfg = cmd[c].cfg
        BY <1>0, <2>2 DEF Truncate, Holding, TypeOK, Activity
      <4> QED
        BY <2>e, <3>2, <4>1, <4>2
    <3> QED
      BY <2>d, <3>1, <3>2
  <2>3. CASE Write(c) /\ cmd'[c].pc = IF cmd[c].op = "install" THEN "register" ELSE "halt"
    <3>1. c \notin crossed /\ cmd[c].op = "install"
      BY <1>1, <2>3 DEF Write
    <3>2. Holding(c) /\ file = Torn
      BY <1>0, <2>3, <3>1 DEF Write, CrossInv, Holding, Writing
    <3>3. file' = Whole(cmd[c].cfg)
      BY <2>3, <3>2 DEF Write, Readable, Torn
    <3>4. service.cfg.pairing = file'.cfg.pairing
      BY <2>e, <3>1, <3>2, <3>3 DEF Whole
    <3>5. ASSUME NEW e \in Commands, Holding(e)' PROVE e \in crossed'
      <4>1. e # c
        BY <2>3, <3>1, <3>5 DEF Holding
      <4>2. Holding(e)
        BY <2>a, <3>5, <4>1 DEF Holding
      <4>3. e \in crossed
        BY <1>0, <2>3, <4>1, <4>2 DEF CrossInv, Writing, Write
      <4> QED
        BY <1>1, <3>5, <4>3, CrossedStays
    <3> QED
      BY <2>d, <3>4, <3>5
  <2>4. CASE Killed(c) /\ cmd'[c].pc = "idle"
    BY <1>1, <2>1, <2>4 DEF Killed, Writing
  <2> QED
    BY <1>0, <1>1, <2>1, <2>2, <2>3, <2>4, <2>b, RecordSteps DEF Writing, TypeOK, Activity
<1>2. ASSUME NEW c \in Commands, Command(c), Observed PROVE MissInv'
  BY <1>1, <1>2 DEF MissInv
<1>3. ASSUME ServiceReads, UNCHANGED crossed PROVE MissInv'
  <2>1. CASE Readable
    <3>1. file # Torn
      BY <2>1 DEF Readable, Torn
    <3> QED
      BY <1>0, <1>3, <3>1 DEF ServiceReads, MissInv, CrossInv, Holding, Writing
  <2>2. CASE ~Readable
    BY <1>3, <2>2 DEF ServiceReads, MissInv
  <2> QED
    BY <2>1, <2>2
<1>4. ASSUME ServiceDies, UNCHANGED crossed PROVE MissInv'
  BY <1>4 DEF ServiceDies, MissInv
<1>5. CASE UNCHANGED vars
  BY <1>0, <1>5 DEF vars, MissInv, Holding, Writing
<1> QED
  BY <1>2, <1>3, <1>4, <1>5 DEF Next

THEOREM Inductive == Spec => []IInv
<1>1. IInv /\ [Next]_vars => TypeOK'
  BY TypeStep DEF IInv
<1>2. IInv /\ [Next]_vars => IInv'
  BY <1>1, CrossStep, LostStep, MissStep DEF IInv
<1> QED
  BY InitOK, <1>2, PTL DEF Spec

(* Every variable keeps its type: a service that is not up has no          *)
(* configuration left from before.                                         *)
THEOREM TypeCorrect == Spec => []TypeOK
<1>1. IInv => TypeOK
  BY DEF IInv
<1> QED
  BY Inductive, <1>1, PTL

(* Commands that neither overlap nor die on the file undo nothing of each  *)
(* other, in whatever order and number they come.                          *)
THEOREM UndoesNothing == Spec => []NothingIsUndone
<1>1. IInv => NothingIsUndone
  BY DEF IInv, LostInv, NothingIsUndone
<1> QED
  BY Inductive, <1>1, PTL

(* When all commands are done, the service runs with the pairing of the    *)
(* file, unless it may have missed a change since it last read it.         *)
THEOREM TakesEffect == Spec => []PairingTakesEffect
<1>1. IInv => PairingTakesEffect
  <2> SUFFICES ASSUME IInv, \A c \in Commands : cmd[c] = Idle, service.state = "up", ~missed
               PROVE  service.cfg.pairing = file.cfg.pairing
    BY DEF PairingTakesEffect
  <2>1. \A c \in Commands : cmd[c].pc = "idle"
    <3>1. Idle.pc = "idle"
      BY DEF Idle
    <3> QED
      BY <3>1
  <2> QED
    BY <2>1 DEF IInv, MissInv, Writing
<1> QED
  BY Inductive, <1>1, PTL
=============================================================================
