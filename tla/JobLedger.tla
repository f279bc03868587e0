------------------------------ MODULE JobLedger ------------------------------
(***************************************************************************)
(* What the job queue of service/jobs.py promises its callers, without     *)
(* threads, queue or lock: jobs wait, one at a time is taken in hand and   *)
(* runs to an end, finished ones may be forgotten, and once the ledger is  *)
(* closed nothing more is taken in hand.  JobRunner implements it.         *)
(***************************************************************************)
EXTENDS Integers, FiniteSets

CONSTANTS MaxJobs, MaxFinishedRetained

VARIABLES
    known,   \* the jobs a caller can look up
    count,   \* how many jobs were ever submitted
    status,  \* status[j] of every job
    inHand,  \* the job being dealt with, 0 if none
    closed   \* has shutdown been requested?

ledgerVars == <<known, count, status, inHand, closed>>

LedgerInit ==
    /\ known = {}
    /\ count = 0
    /\ status = [j \in 1 .. MaxJobs |-> "new"]
    /\ inHand = 0
    /\ closed = FALSE

Submit ==
    /\ count < MaxJobs
    /\ count' = count + 1
    /\ known' = known \cup {count + 1}
    /\ status' = [status EXCEPT ![count + 1] = "queued"]
    /\ UNCHANGED <<inHand, closed>>

TakeInHand ==
    /\ ~closed
    /\ inHand = 0
    /\ \E j \in known :
        /\ status[j] = "queued"
        /\ inHand' = j
    /\ UNCHANGED <<known, count, status, closed>>

Begin ==
    /\ inHand \in known
    /\ status[inHand] = "queued"
    /\ status' = [status EXCEPT ![inHand] = "running"]
    /\ UNCHANGED <<known, count, inHand, closed>>

End ==
    /\ inHand \in known
    /\ status[inHand] = "running"
    /\ \E s \in {"succeeded", "failed"} : status' = [status EXCEPT ![inHand] = s]
    /\ UNCHANGED <<known, count, inHand, closed>>

(* The job leaves the worker's hand; the oldest finished jobs beyond the   *)
(* limit are forgotten with it, and nothing else is.                       *)
Settle ==
    /\ inHand \in known
    /\ status[inHand] \in {"succeeded", "failed"}
    /\ inHand' = 0
    /\ LET over == {j \in known : status[j] \in {"succeeded", "failed"}}
       IN  /\ known' \subseteq known
           /\ known \ known' \subseteq over
           /\ Cardinality(over \cap known') <= MaxFinishedRetained
           /\ \A f \in over \ known', r \in over \cap known' : f < r
    /\ UNCHANGED <<count, status, closed>>

Close ==
    /\ closed' = TRUE
    /\ UNCHANGED <<known, count, status, inHand>>

LedgerNext == Submit \/ TakeInHand \/ Begin \/ End \/ Settle \/ Close

LedgerSpec == LedgerInit /\ [][LedgerNext]_ledgerVars
=============================================================================
