----------------------------- MODULE TaskBoard -----------------------------
(***************************************************************************)
(* What the pipeline coordinator promises, without its queue, registry and *)
(* goroutines (internal/image/pipeline/README.md, "Only one pipeline runs  *)
(* at a time across all collections"): a submitted task waits, is run at   *)
(* most once and never beside another one, and stays finished.             *)
(***************************************************************************)
EXTENDS Naturals, Sequences

VARIABLE status     \* status[t] of the t-th task submitted

Pending == {t \in DOMAIN status : status[t] = "pending"}
Idle == \A t \in DOMAIN status : status[t] # "running"

Init == status = <<>>

Submit == status' = Append(status, "pending")

Start ==
    /\ Idle
    /\ \E t \in Pending : status' = [status EXCEPT ![t] = "running"]

Finish ==
    \E t \in DOMAIN status :
        /\ status[t] = "running"
        /\ status' = [status EXCEPT ![t] = "done"]

\* Stopping one task, or closing the coordinator with several waiting.
Drop ==
    \E T \in SUBSET Pending :
        status' = [t \in DOMAIN status |-> IF t \in T THEN "dropped" ELSE status[t]]

Next == Submit \/ Start \/ Finish \/ Drop

Spec == Init /\ [][Next]_status
=============================================================================
