------------------------------- MODULE RunLife -------------------------------
(***************************************************************************)
(* What a workflow run promises those who only watch its status: the life  *)
(* cycle behind WorkflowService's start_workflow, cancel_run, get_run and  *)
(* wait_for_run (workflows/templates/runtime.py).  A request to cancel is  *)
(* never forgotten, a run is only "cancelled" if that was asked for, and   *)
(* a run that has ended has ended.                                         *)
(***************************************************************************)
VARIABLE status

Terminal == {"cancelled", "succeeded", "failed"}
Live == {"queued", "starting", "running", "cancel_requested"}

Init == status = "none"

Queue == status = "none" /\ status' = "queued"

Start == status = "queued" /\ status' = "starting"

Run == status \in {"starting", "running"} /\ status' = "running"

RequestCancel == status \in Live /\ status' = "cancel_requested"

Cancel == status = "cancel_requested" /\ status' = "cancelled"

\* A cancel that comes too late for a chunk boundary changes nothing.
Succeed == status \in Live \ {"queued"} /\ status' = "succeeded"

Fail == status \in Live /\ status' = "failed"

Next == Queue \/ Start \/ Run \/ RequestCancel \/ Cancel \/ Succeed \/ Fail

Spec == Init /\ [][Next]_status
=============================================================================
