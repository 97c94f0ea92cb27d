-------------------------- MODULE WorkflowRunLifecycle --------------------------
(***************************************************************************)
(* The life of a WorkflowRun as workflow/state_machine.py declares it: a    *)
(* table of (status, event) pairs.  No service of the application consults *)
(* the table at run time; WorkflowEngine is checked and proved against it.  *)
(***************************************************************************)

CONSTANT Runs

RunStatus ==
    {"pending", "running", "waiting_approval", "succeeded", "failed", "cancelled"}

\* WORKFLOW_RUN_TRANSITIONS
Transitions ==
    { [from |-> "pending",          event |-> "start",   to |-> "running"],
      [from |-> "pending",          event |-> "cancel",  to |-> "cancelled"],
      [from |-> "running",          event |-> "wait_for_approval",
                                                         to |-> "waiting_approval"],
      [from |-> "running",          event |-> "complete", to |-> "succeeded"],
      [from |-> "running",          event |-> "fail",    to |-> "failed"],
      [from |-> "waiting_approval", event |-> "approve", to |-> "running"],
      [from |-> "waiting_approval", event |-> "reject",  to |-> "cancelled"],
      [from |-> "waiting_approval", event |-> "expire",  to |-> "cancelled"],
      [from |-> "waiting_approval", event |-> "cancel",  to |-> "cancelled"],
      [from |-> "failed",           event |-> "resume",  to |-> "running"] }

VARIABLE runStatus      \* "absent" before the row is created

vars == runStatus

Init == runStatus = [r \in Runs |-> "absent"]

\* A run is created pending (the column's default) or, by
\* submit_revision_for_approval, already waiting.
Create(r) ==
    /\ runStatus[r] = "absent"
    /\ \E s \in {"pending", "waiting_approval"} :
         runStatus' = [runStatus EXCEPT ![r] = s]

\* get_next_workflow_run_status; any pair outside the table is a ValueError.
Handle(r) ==
    \E t \in Transitions :
        /\ runStatus[r] = t.from
        /\ runStatus' = [runStatus EXCEPT ![r] = t.to]

Next == \E r \in Runs : Create(r) \/ Handle(r)

Spec == Init /\ [][Next]_vars
================================================================================
