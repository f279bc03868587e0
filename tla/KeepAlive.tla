------------------------------ MODULE KeepAlive ------------------------------
(***************************************************************************)
(* What a supervisor of one child process promises: at most one child at a *)
(* time, a new one after each exit, and no child left once supervision is  *)
(* over, which happens only on request.  LlamaSupervisor and               *)
(* NewtSupervisor implement it.                                            *)
(***************************************************************************)
EXTENDS Integers

VARIABLES
    children,  \* how many child processes are being served
    asked,     \* has a stop been requested?
    over       \* has supervision ended?

keepVars == <<children, asked, over>>

KeepInit == children = 0 /\ asked = FALSE /\ over = FALSE

(* A child is started only when there is none; the request to stop may     *)
(* arrive while it is being started.                                       *)
Launch ==
    /\ ~over
    /\ children = 0
    /\ children' = 1
    /\ UNCHANGED <<asked, over>>

(* It crashed, or it was made to exit; supervision may have been waiting   *)
(* for just that.                                                          *)
Leave ==
    /\ children = 1
    /\ children' = 0
    /\ over' \in {over, asked}
    /\ UNCHANGED asked

Ask ==
    /\ asked' = TRUE
    /\ UNCHANGED <<children, over>>

Finish ==
    /\ asked
    /\ children = 0
    /\ over' = TRUE
    /\ UNCHANGED <<children, asked>>

KeepNext == Launch \/ Leave \/ Ask \/ Finish

KeepSpec == KeepInit /\ [][KeepNext]_keepVars
=============================================================================
