------------------------------ MODULE JobContract ------------------------------
(***************************************************************************)
(* What a generation job promises whoever watches its row: it is queued,   *)
(* then running, then settled for good; it succeeds only with the whole of *)
(* what it made behind it; and only a hand-written verdict moves its       *)
(* status in any other way.  GenerationJobs implements it.                 *)
(***************************************************************************)
CONSTANTS Jobs, Verdicts

VARIABLES
    outcome,  \* the status a watcher reads
    product,  \* how much of the artefact exists
    answered, \* whether the row says where the artefact is
    touched   \* whether a verdict has been written on the row

cvars == <<outcome, product, answered, touched>>

CInit ==
    /\ outcome = [j \in Jobs |-> "absent"]
    /\ product = [j \in Jobs |-> "none"]
    /\ answered = [j \in Jobs |-> FALSE]
    /\ touched = [j \in Jobs |-> FALSE]

Queue(j) ==
    /\ outcome[j] = "absent"
    /\ outcome' = [outcome EXCEPT ![j] = "queued"]
    /\ UNCHANGED <<product, answered, touched>>

Begin(j) ==
    /\ outcome[j] = "queued" \/ touched[j]
    /\ outcome' = [outcome EXCEPT ![j] = "running"]
    /\ UNCHANGED <<product, answered, touched>>

\* The artefact grows while the job runs, and is never taken back.
Produce(j) ==
    /\ outcome[j] = "running" \/ touched[j]
    /\ \/ product[j] # "whole" /\ product' = [product EXCEPT ![j] = "partial"]
       \/ product' = [product EXCEPT ![j] = "whole"]
    /\ UNCHANGED <<outcome, answered, touched>>

Deliver(j) ==
    /\ outcome[j] = "running" \/ touched[j]
    /\ product[j] = "whole"
    /\ outcome' = [outcome EXCEPT ![j] = "succeeded"]
    /\ answered' = [answered EXCEPT ![j] = TRUE]
    /\ UNCHANGED <<product, touched>>

GiveUp(j) ==
    /\ outcome[j] = "running" \/ touched[j]
    /\ ~answered[j]
    /\ outcome' = [outcome EXCEPT ![j] = "failed"]
    /\ UNCHANGED <<product, answered, touched>>

Judge(j) ==
    /\ outcome[j] # "absent"
    /\ \E v \in Verdicts : outcome' = [outcome EXCEPT ![j] = v]
    /\ touched' = [touched EXCEPT ![j] = TRUE]
    /\ UNCHANGED <<product, answered>>

CNext == \E j \in Jobs : Queue(j) \/ Begin(j) \/ Produce(j) \/ Deliver(j) \/ GiveUp(j) \/ Judge(j)

CSpec == CInit /\ [][CNext]_cvars
================================================================================
