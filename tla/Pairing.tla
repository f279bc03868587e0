-------------------------------- MODULE Pairing --------------------------------
(***************************************************************************)
(* runtime.json and the three commands that write it: the installer        *)
(* (installer/install.py), login and logout (installer/cli.py); and the    *)
(* service, which reads it once when it starts (service/runner.py).        *)
(*                                                                         *)
(* Each command is a process of its own.  It reads the file, prepares what *)
(* it needs (the installer pulls a model, login downloads newt), truncates *)
(* the file and writes it whole.  login and logout then restart the        *)
(* service, best effort; the installer starts it, which does nothing to a  *)
(* service that runs.  The service manager itself is external.             *)
(***************************************************************************)
EXTENDS Naturals

CONSTANTS
    Commands,     \* processes that run a command
    Creds,        \* the credentials a login may be given
    MaxBuild,     \* bound: the builds of llama.cpp the installer resolves to
    MaxCommands,  \* bound: how many commands are run
    MaxKills      \* bound: how many of them are killed

ASSUME PairingAssumption ==
    /\ MaxBuild \in Nat
    /\ MaxCommands \in Nat
    /\ MaxKills \in Nat

(* No `tunnel' section, and logged_in is false.                            *)
Unpaired == "unpaired"

ASSUME UnpairedAssumption == Unpaired \notin Creds

VARIABLES
    file,      \* runtime.json
    cmd,       \* what each process is doing
    service,   \* the service: its state and the configuration it has read
    begun,     \* how many commands have begun
    kills,     \* how many were killed
    asked,     \* history: what the commands that wrote the file meant it to say
    crossed,   \* history: processes whose view of the file another has written over
    lost,      \* history: have two commands overlapped, or one died, on the file?
    missed     \* history: may the service have missed the latest change?

historyVars == <<asked, lost, missed>>
vars == <<file, cmd, service, begun, kills, crossed, historyVars>>

Pairings == Creds \cup {Unpaired}

(* build stands for the llama_cpp section, pairing for tunnel and logged_in.*)
Config == [build : 0 .. MaxBuild, pairing : Pairings]

(* {}, what load_runtime_config returns when it cannot read the file.      *)
Nothing == [build |-> 0, pairing |-> Unpaired]

(* The file is missing, or it is torn: no JSON, empty for the most part.   *)
NoFile == [state |-> "missing", cfg |-> Nothing]
Torn == [state |-> "torn", cfg |-> Nothing]
Whole(cfg) == [state |-> "whole", cfg |-> cfg]
Readable == file.state = "whole"

Ops == {"none", "install", "login", "logout"}
Pcs == {"idle", "read", "prepare", "truncate", "write", "register", "halt", "launch"}

(* cfg: runtime_config.                                                    *)
Activity == [op : Ops, pc : Pcs, cfg : Config]

Idle == [op |-> "none", pc |-> "idle", cfg |-> Nothing]

ServiceStates == {"unregistered", "down", "starting", "up"}

TypeOK ==
    /\ file \in {NoFile, Torn} \cup {Whole(cfg) : cfg \in Config}
    /\ cmd \in [Commands -> Activity]
    /\ \A c \in Commands : cmd[c].pc = "idle" <=> cmd[c].op = "none"
    /\ service \in [state : ServiceStates, cfg : Config]
    /\ service.state # "up" => service.cfg = Nothing
    /\ begun \in 0 .. MaxCommands
    /\ kills \in 0 .. MaxKills
    /\ asked \in Config
    /\ crossed \subseteq Commands
    /\ lost \in BOOLEAN
    /\ missed \in BOOLEAN

Init ==
    /\ file = NoFile
    /\ cmd = [c \in Commands |-> Idle]
    /\ service = [state |-> "unregistered", cfg |-> Nothing]
    /\ begun = 0
    /\ kills = 0
    /\ asked = Nothing
    /\ crossed = {}
    /\ lost = FALSE
    /\ missed = FALSE

-----------------------------------------------------------------------------
(* The commands begin.                                                     *)

Begin(c, op, cfg) ==
    /\ cmd[c] = Idle
    /\ begun < MaxCommands
    /\ begun' = begun + 1
    /\ cmd' = [cmd EXCEPT ![c] = [Idle EXCEPT !.op = op, !.pc = "read", !.cfg = cfg]]
    /\ UNCHANGED <<file, service, kills, historyVars>>

(* run_install has resolved and unpacked a build.                          *)
Install(c, b) == Begin(c, "install", [build |-> b, pairing |-> Unpaired])

(* run_login has valid credentials.                                        *)
Login(c, k) == Begin(c, "login", [build |-> 0, pairing |-> k])

Logout(c) == Begin(c, "logout", Nothing)

Goto(c, p) == cmd' = [cmd EXCEPT ![c].pc = p]
Ends(c) == cmd' = [cmd EXCEPT ![c] = Idle]

-----------------------------------------------------------------------------
(* Reading the file.                                                       *)

(* Mutation: the installer does not look at the file that is there.        *)
CarryNothing(c) ==
    /\ cmd[c].op = "install"
    /\ cmd[c].pc = "read"
    /\ Goto(c, "prepare")
    /\ UNCHANGED <<file, service, begun, kills, historyVars>>

(* _carry_over_pairing: an unreadable file means there is no pairing.      *)
CarryOver(c) ==
    /\ cmd[c].op = "install"
    /\ cmd[c].pc = "read"
    /\ cmd' = [cmd EXCEPT
                ![c].pc = "prepare",
                ![c].cfg.pairing = file.cfg.pairing]
    /\ UNCHANGED <<file, service, begun, kills, historyVars>>

(* _load_runtime of login, which replaces the pairing and keeps the rest;  *)
(* login ends when there is no file to change.                             *)
LoginLoads(c) ==
    /\ cmd[c].op = "login"
    /\ cmd[c].pc = "read"
    /\ IF Readable
       THEN cmd' = [cmd EXCEPT ![c].pc = "prepare", ![c].cfg.build = file.cfg.build]
       ELSE Ends(c)
    /\ UNCHANGED <<file, service, begun, kills, historyVars>>

(* logout ends here, with success, when the file says there is no pairing. *)
LogoutLoads(c) ==
    /\ cmd[c].op = "logout"
    /\ cmd[c].pc = "read"
    /\ IF Readable /\ file.cfg.pairing # Unpaired
       THEN cmd' = [cmd EXCEPT ![c].pc = "truncate", ![c].cfg.build = file.cfg.build]
       ELSE Ends(c)
    /\ UNCHANGED <<file, service, begun, kills, historyVars>>

(* The default model is pulled and sized, or cannot be, which is no reason *)
(* to stop.                                                                *)
PullModel(c) ==
    /\ cmd[c].op = "install"
    /\ cmd[c].pc = "prepare"
    /\ Goto(c, "truncate")
    /\ UNCHANGED <<file, service, begun, kills, historyVars>>

(* newt is downloaded, or cannot be, which ends the login.                 *)
FetchNewt(c) ==
    /\ cmd[c].op = "login"
    /\ cmd[c].pc = "prepare"
    /\ Goto(c, "truncate") \/ Ends(c)
    /\ UNCHANGED <<file, service, begun, kills, historyVars>>

Prepare(c) == PullModel(c) \/ FetchNewt(c)

-----------------------------------------------------------------------------
(* Writing the file: write_text opens it for writing, then writes it.      *)

Truncate(c) ==
    /\ cmd[c].pc = "truncate"
    /\ Goto(c, "write")
    /\ file' = Torn
    /\ UNCHANGED <<service, begun, kills, historyVars>>

Meant(c) ==
    IF cmd[c].op = "install" THEN [asked EXCEPT !.build = cmd[c].cfg.build]
    ELSE [asked EXCEPT !.pairing = cmd[c].cfg.pairing]

(* Mutation: the service is not restarted.                                 *)
WriteWithoutRestart(c) ==
    /\ cmd[c].pc = "write"
    /\ \/ file' = Whole(cmd[c].cfg)
       \/ Readable /\ file' = Torn
    /\ IF cmd[c].op = "install" THEN Goto(c, "register") ELSE Ends(c)
    /\ asked' = Meant(c)
    /\ lost' = (lost \/ c \in crossed)
    /\ missed' = (missed \/ c \in crossed)
    /\ UNCHANGED <<service, begun, kills>>

(* When another command has written since this one truncated the file, the *)
(* end of a longer text of its may stay behind.                            *)
Write(c) ==
    /\ cmd[c].pc = "write"
    /\ \/ file' = Whole(cmd[c].cfg)
       \/ Readable /\ file' = Torn
    /\ Goto(c, IF cmd[c].op = "install" THEN "register" ELSE "halt")
    /\ asked' = Meant(c)
    /\ lost' = (lost \/ c \in crossed)
    /\ missed' = (missed \/ c \in crossed)
    /\ UNCHANGED <<service, begun, kills>>

-----------------------------------------------------------------------------
(* The service.                                                            *)

(* The installer ends here with --no-service.  Registering a service that  *)
(* runs does not touch the process.                                        *)
Register(c) ==
    /\ cmd[c].pc = "register"
    /\ \/ Ends(c) /\ UNCHANGED service
       \/ /\ Goto(c, "launch")
          /\ service' = [service EXCEPT !.state =
                            IF @ = "unregistered" THEN "down" ELSE @]
    /\ UNCHANGED <<file, begun, kills, historyVars>>

(* service_mgr.stop, whose result nobody looks at.                         *)
Halt(c, works) ==
    /\ cmd[c].pc = "halt"
    /\ works => service.state # "unregistered"
    /\ Goto(c, "launch")
    /\ service' = IF works THEN [state |-> "down", cfg |-> Nothing] ELSE service
    /\ missed' = (missed \/ ~works)
    /\ UNCHANGED <<file, begun, kills, asked, lost>>

(* service_mgr.start; the command has nothing more to do.                  *)
Launch(c, works) ==
    /\ cmd[c].pc = "launch"
    /\ works => service.state # "unregistered"
    /\ Ends(c)
    /\ service' = IF works /\ service.state = "down"
                  THEN [service EXCEPT !.state = "starting"] ELSE service
    /\ UNCHANGED <<file, begun, kills, historyVars>>

(* start() of the runner: load_runtime_config, once.                       *)
ServiceReads ==
    /\ service.state = "starting"
    /\ service' = [state |-> "up", cfg |-> file.cfg]
    /\ missed' = ~Readable
    /\ UNCHANGED <<file, cmd, begun, kills, asked, lost>>

(* The process ends, and the service manager starts it again.              *)
ServiceDies ==
    /\ service.state \in {"starting", "up"}
    /\ service' = [state |-> "starting", cfg |-> Nothing]
    /\ UNCHANGED <<file, cmd, begun, kills, historyVars>>

-----------------------------------------------------------------------------
(* A command is killed.                                                    *)
Killed(c) ==
    /\ cmd[c] # Idle
    /\ kills < MaxKills
    /\ kills' = kills + 1
    /\ Ends(c)
    /\ lost' = (lost \/ cmd[c].pc = "write")
    /\ missed' = (missed \/ cmd[c].pc \in {"write", "halt", "launch"})
    /\ UNCHANGED <<file, service, begun, asked>>

Command(c) ==
    \/ \E b \in 1 .. MaxBuild : Install(c, b)
    \/ \E k \in Creds : Login(c, k)
    \/ Logout(c)
    \/ CarryOver(c)
    \/ LoginLoads(c)
    \/ LogoutLoads(c)
    \/ Prepare(c)
    \/ Truncate(c)
    \/ Write(c)
    \/ Register(c)
    \/ \E works \in BOOLEAN : Halt(c, works) \/ Launch(c, works)
    \/ Killed(c)

(* The commands that have read the file and not written it, while another  *)
(* is writing it.                                                          *)
Holding(c) == cmd[c].pc \in {"prepare", "truncate", "write"}
Crossing == {c \in Commands : /\ Holding(c)
                              /\ \E d \in Commands \ {c} : cmd[d].pc = "write"}

Observed == crossed' = {c \in crossed : Holding(c)'} \cup Crossing'

Next ==
    \/ \E c \in Commands : Command(c) /\ Observed
    \/ ServiceReads /\ UNCHANGED crossed
    \/ ServiceDies /\ UNCHANGED crossed

Spec == Init /\ [][Next]_vars

-----------------------------------------------------------------------------
(* Properties                                                              *)

(* No command undoes what another has done: "upgrading ... must not cost a *)
(* re-pairing" (install.py:407), and neither does pairing cost the upgrade.*)
(* Unless two commands overlapped or one died on the file, it says the     *)
(* build of the last installation and the pairing of the last login or     *)
(* logout, in whatever order they came.                                    *)
NothingIsUndone == Readable /\ ~lost => file.cfg = asked

(* What a login or a logout wrote is in force when the commands are done:  *)
(* the service, if it runs, runs with the pairing of the file, also after  *)
(* it died and was started again, unless it may have missed a change since *)
(* it last read the file -- a call of the service manager failed, a        *)
(* command was killed before its restart, or an installer brought back the *)
(* pairing of before.                                                      *)
PairingTakesEffect ==
    /\ \A c \in Commands : cmd[c] = Idle
    /\ service.state = "up"
    /\ Readable
    /\ ~missed
    => service.cfg.pairing = file.cfg.pairing
=============================================================================
