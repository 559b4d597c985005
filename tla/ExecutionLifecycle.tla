------------------------- MODULE ExecutionLifecycle --------------------------
(***************************************************************************)
(* What the life of one execution may look like to whoever reads its row:  *)
(* the status in the table executions next to the state of its Temporal    *)
(* workflow.  The gateway creates and cancels, the workflow runs.  Nothing *)
(* orders a cancellation and the workflow's own updates: the workflow is   *)
(* not told, and its UPDATE overwrites "cancelled".                        *)
(*                                                                         *)
(* The two activities that write the status are retried: an attempt may    *)
(* reach the database and its answer be lost, so that the row changes      *)
(* though the workflow does not move, or gives up.                         *)
(***************************************************************************)
VARIABLES status,    \* "absent" before the row exists
          workflow   \* "none", "new", "running" or "ended"

vars == <<status, workflow>>

Final == {"succeeded", "failed"}

Init == status = "absent" /\ workflow = "none"

\* INSERT INTO executions
Create == /\ status = "absent"
          /\ status' = "pending" /\ UNCHANGED workflow

\* StartExecution
Start == /\ status # "absent" /\ workflow = "none"
         /\ workflow' = "new" /\ UNCHANGED status

\* UPDATE ... SET status='cancelled' WHERE status IN ('pending','running')
Cancel == /\ status \in {"pending", "running"}
          /\ status' = "cancelled" /\ UNCHANGED workflow

\* An attempt of UpdateExecutionStatus "running" reaches the database.
MarkRunning == /\ workflow = "new"
               /\ status' = "running" /\ workflow' \in {"new", "running", "ended"}

\* An attempt of CompleteExecution does; a workflow has one outcome only.
MarkFinal == /\ workflow = "running"
             /\ status' \in Final /\ (status \in Final => status' = status)
             /\ workflow' \in {"running", "ended"}

\* The workflow returns; it may never have written a status.
GiveUp == /\ workflow \in {"new", "running"}
          /\ workflow' = "ended" /\ UNCHANGED status

Next == Create \/ Start \/ Cancel \/ MarkRunning \/ MarkFinal \/ GiveUp

Spec == Init /\ [][Next]_vars
=============================================================================
