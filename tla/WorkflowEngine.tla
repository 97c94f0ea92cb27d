---------------------------- MODULE WorkflowEngine ----------------------------
(***************************************************************************)
(* The durable workflow engine on its one production definition,           *)
(* knowledge_revision_approval@1: a step that waits for a human decision,  *)
(* then a step that indexes and activates the version.  WorkflowService    *)
(* (submit, approve, reject, withdraw, reconcile, resume),                 *)
(* SequentialWorkflowExecutor and the conditional updates of their         *)
(* repositories.                                                           *)
(*                                                                         *)
(* A call is one HTTP request.  Its first reads share one snapshot (MySQL, *)
(* REPEATABLE READ); its conditional updates and the commit that follows   *)
(* them take effect together, on the current rows, or not at all.  A run   *)
(* and its revision are created together, so r names both.                 *)
(***************************************************************************)
EXTENDS Integers, Sequences, FiniteSets

CONSTANTS
    Calls,         \* concurrent requests
    Runs,          \* workflow runs, each with its knowledge revision
    NoRun,         \* what an idle call works on
    MaxAttempts    \* WorkflowStepDefinition.max_attempts

ASSUME NoRunAssumption == NoRun \notin Runs
ASSUME CallsAssumption == IsFiniteSet(Calls) /\ Calls # {}
ASSUME MaxAttemptsAssumption == MaxAttempts \in Nat \ {0}

Retryable == "node_retryable"
Fatal     == "node_execution_failed"
Failures  == {Retryable, Fatal}

RunStatus ==
    {"absent", "waiting_approval", "running", "succeeded", "failed", "cancelled"}
StepStatus ==
    {"absent", "pending", "running", "waiting", "succeeded", "failed", "cancelled"}
Decisions == {"approved", "rejected", "expired", "withdrawn"}
RevisionStatus == {"absent", "submitted"} \cup Decisions

\* A WorkflowAttempt is running, succeeded, or failed with a code.
AttemptStatus == {"running", "succeeded"} \cup Failures

\* Where a call is: between its reads and its conditional updates ("decide",
\* "resume", "claim"), awaiting the node, or about to record the outcome.
Stages == {"idle", "decide", "resume", "claim", "node", "complete", "fail"}

\* The stages of an executor that holds the step.
Holding == {"node", "complete", "fail"}

VARIABLES
    revision,       \* KnowledgeRevision.status
    overdue,        \* expires_at has passed
    runStatus,      \* WorkflowRun.status
    failureCode,    \* WorkflowRun.failure_code, "none" for NULL
    approvalStep,   \* WorkflowStepRun.status of wait_for_approval
    indexStep,      \* WorkflowStepRun.status of index_and_activate_version
    attempts,       \* the WorkflowAttempts of the index step, by attempt_number
    stage,          \* where each call is
    target,         \* the run a call works on
    decision,       \* the decision a call wants to record
    number          \* attempt_number a call has computed, or holds

tables  == <<revision, runStatus, failureCode, approvalStep, indexStep, attempts>>
private == <<stage, target, decision, number>>
vars    == <<tables, overdue, private>>

TypeOK ==
    /\ revision \in [Runs -> RevisionStatus]
    /\ overdue \in [Runs -> BOOLEAN]
    /\ runStatus \in [Runs -> RunStatus]
    /\ failureCode \in [Runs -> Failures \cup {"none"}]
    /\ approvalStep \in [Runs -> StepStatus]
    /\ indexStep \in [Runs -> StepStatus]
    /\ attempts \in [Runs -> Seq(AttemptStatus)]
    /\ stage \in [Calls -> Stages]
    /\ target \in [Calls -> Runs \cup {NoRun}]
    /\ decision \in [Calls -> Decisions]
    /\ number \in [Calls -> Nat]

Init ==
    /\ revision = [r \in Runs |-> "absent"]
    /\ overdue = [r \in Runs |-> FALSE]
    /\ runStatus = [r \in Runs |-> "absent"]
    /\ failureCode = [r \in Runs |-> "none"]
    /\ approvalStep = [r \in Runs |-> "absent"]
    /\ indexStep = [r \in Runs |-> "absent"]
    /\ attempts = [r \in Runs |-> <<>>]
    /\ stage = [c \in Calls |-> "idle"]
    /\ target = [c \in Calls |-> NoRun]
    /\ decision = [c \in Calls |-> "approved"]
    /\ number = [c \in Calls |-> 0]

-----------------------------------------------------------------------------
(* Helpers *)

\* The call is past its reads.
Goes(c, s, r) ==
    /\ stage' = [stage EXCEPT ![c] = s]
    /\ target' = [target EXCEPT ![c] = r]

\* The call returns or raises, and its session is closed.
Ends(c) ==
    /\ stage' = [stage EXCEPT ![c] = "idle"]
    /\ target' = [target EXCEPT ![c] = NoRun]
    /\ decision' = [decision EXCEPT ![c] = "approved"]
    /\ number' = [number EXCEPT ![c] = 0]

RunBecomes(r, s, code) ==
    /\ runStatus' = [runStatus EXCEPT ![r] = s]
    /\ failureCode' = [failureCode EXCEPT ![r] = code]

-----------------------------------------------------------------------------
(* submit_revision_for_approval *)

\* One transaction creates a waiting run, its waiting step and the submitted
\* revision; all three rows are new, so no other call can interfere.
Submit(r) ==
    /\ runStatus[r] = "absent"
    /\ RunBecomes(r, "waiting_approval", "none")
    /\ approvalStep' = [approvalStep EXCEPT ![r] = "waiting"]
    /\ revision' = [revision EXCEPT ![r] = "submitted"]
    /\ UNCHANGED <<indexStep, attempts, overdue, private>>

\* expires_at passes.
TimePasses(r) ==
    /\ revision[r] = "submitted"
    /\ ~overdue[r]
    /\ overdue' = [overdue EXCEPT ![r] = TRUE]
    /\ UNCHANGED <<tables, private>>

-----------------------------------------------------------------------------
(* _decide_revision *)

\* The reads of approve, reject and withdraw; a decided revision is answered
\* at once (idempotent result or conflict), which changes nothing.
BeginDecide(c, r, d) ==
    /\ stage[c] = "idle"
    /\ revision[r] = "submitted"
    /\ d = "expired" => overdue[r]      \* reconcile_expired_revision
    /\ decision' = [decision EXCEPT ![c] = d]
    /\ Goes(c, "decide", r)
    /\ UNCHANGED <<tables, overdue, number>>

\* update_submitted_decision and the update of run and step both match.
DecisionHolds(r) ==
    /\ revision[r] = "submitted"
    /\ approvalStep[r] = "waiting"
    /\ runStatus[r] = "waiting_approval"

\* approve_waiting_run_and_step, and the pending successor the branch selects.
Approve(c) ==
    LET r == target[c] IN
    /\ stage[c] = "decide"
    /\ decision[c] = "approved"
    /\ DecisionHolds(r)
    /\ indexStep[r] = "absent"
    /\ revision' = [revision EXCEPT ![r] = "approved"]
    /\ approvalStep' = [approvalStep EXCEPT ![r] = "succeeded"]
    /\ RunBecomes(r, "running", "none")
    /\ indexStep' = [indexStep EXCEPT ![r] = "pending"]
    /\ Ends(c)
    /\ UNCHANGED <<attempts, overdue>>

\* Mutants: the run's status is written into the revision too, or a refused
\* run counts as a failed one.
CancelWritesRunStatus(c) ==
    LET r == target[c] IN
    /\ stage[c] = "decide"
    /\ decision[c] # "approved"
    /\ DecisionHolds(r)
    /\ revision' = [revision EXCEPT ![r] = "cancelled"]
    /\ approvalStep' = [approvalStep EXCEPT ![r] = "cancelled"]
    /\ RunBecomes(r, "cancelled", "none")
    /\ Ends(c)
    /\ UNCHANGED <<indexStep, attempts, overdue>>

CancelAsFailure(c) ==
    LET r == target[c] IN
    /\ stage[c] = "decide"
    /\ decision[c] # "approved"
    /\ DecisionHolds(r)
    /\ revision' = [revision EXCEPT ![r] = decision[c]]
    /\ approvalStep' = [approvalStep EXCEPT ![r] = "failed"]
    /\ RunBecomes(r, "failed", Fatal)
    /\ Ends(c)
    /\ UNCHANGED <<indexStep, attempts, overdue>>

\* cancel_waiting_run_and_step: rejected, withdrawn or expired.
Cancel(c) ==
    LET r == target[c] IN
    /\ stage[c] = "decide"
    /\ decision[c] # "approved"
    /\ DecisionHolds(r)
    /\ revision' = [revision EXCEPT ![r] = decision[c]]
    /\ approvalStep' = [approvalStep EXCEPT ![r] = "cancelled"]
    /\ RunBecomes(r, "cancelled", "none")
    /\ Ends(c)
    /\ UNCHANGED <<indexStep, attempts, overdue>>

\* Another decision came first: everything is rolled back.  (A second approval
\* raises IntegrityError, for it inserts the successor step before it looks at
\* the results of its updates.)
DecisionLost(c) ==
    /\ stage[c] = "decide"
    /\ \/ ~DecisionHolds(target[c])
       \/ decision[c] = "approved" /\ indexStep[target[c]] # "absent"
    /\ Ends(c)
    /\ UNCHANGED <<tables, overdue>>

-----------------------------------------------------------------------------
(* resume_failed_run *)

\* Mutant: the limit is checked off by one.
BeginResumeOnceMore(c, r) ==
    /\ stage[c] = "idle"
    /\ runStatus[r] = "failed"
    /\ failureCode[r] = Retryable
    /\ indexStep[r] = "failed"
    /\ Len(attempts[r]) <= MaxAttempts
    /\ Goes(c, "resume", r)
    /\ UNCHANGED <<tables, overdue, decision, number>>

\* The reads: the failure is retryable and attempts are left.
BeginResume(c, r) ==
    /\ stage[c] = "idle"
    /\ runStatus[r] = "failed"
    /\ failureCode[r] = Retryable
    /\ indexStep[r] = "failed"
    /\ Len(attempts[r]) < MaxAttempts
    /\ Goes(c, "resume", r)
    /\ UNCHANGED <<tables, overdue, decision, number>>

\* Mutant: the requeue relies on the statuses read before it.
ResumeUnchecked(c) ==
    LET r == target[c] IN
    /\ stage[c] = "resume"
    /\ RunBecomes(r, "running", "none")
    /\ indexStep' = [indexStep EXCEPT ![r] = "pending"]
    /\ Ends(c)
    /\ UNCHANGED <<revision, approvalStep, attempts, overdue>>

\* requeue_failed_run_and_step tests the two statuses and nothing else.
Resume(c) ==
    LET r == target[c] IN
    /\ stage[c] = "resume"
    /\ runStatus[r] = "failed"
    /\ indexStep[r] = "failed"
    /\ RunBecomes(r, "running", "none")
    /\ indexStep' = [indexStep EXCEPT ![r] = "pending"]
    /\ Ends(c)
    /\ UNCHANGED <<revision, approvalStep, attempts, overdue>>

ResumeLost(c) ==
    /\ stage[c] = "resume"
    /\ runStatus[target[c]] # "failed" \/ indexStep[target[c]] # "failed"
    /\ Ends(c)
    /\ UNCHANGED <<tables, overdue>>

-----------------------------------------------------------------------------
(* SequentialWorkflowExecutor *)

\* _claim_next_step reads a running run, its pending step and, in the same
\* snapshot, how many attempts the step has had.
BeginExecute(c, r) ==
    /\ stage[c] = "idle"
    /\ runStatus[r] = "running"
    /\ indexStep[r] = "pending"
    /\ number' = [number EXCEPT ![c] = Len(attempts[r]) + 1]
    /\ Goes(c, "claim", r)
    /\ UNCHANGED <<tables, overdue, decision>>

\* Mutant: only the run is looked at again.
ClaimHoldsIfRunning(c) == runStatus[target[c]] = "running"

\* The step is still pending and the attempt number still free.
ClaimHolds(c) ==
    /\ indexStep[target[c]] = "pending"
    /\ number[c] = Len(attempts[target[c]]) + 1

\* Mutant: a retry starts the step's history afresh.
ClaimStepForgetting(c) ==
    LET r == target[c] IN
    /\ stage[c] = "claim"
    /\ ClaimHolds(c)
    /\ indexStep' = [indexStep EXCEPT ![r] = "running"]
    /\ attempts' = [attempts EXCEPT ![r] = <<"running">>]
    /\ Goes(c, "node", r)
    /\ UNCHANGED <<revision, runStatus, failureCode, approvalStep, overdue,
                   decision, number>>

\* claim_step and create_attempt, committed together.
ClaimStep(c) ==
    LET r == target[c] IN
    /\ stage[c] = "claim"
    /\ ClaimHolds(c)
    /\ indexStep' = [indexStep EXCEPT ![r] = "running"]
    /\ attempts' = [attempts EXCEPT ![r] = Append(@, "running")]
    /\ Goes(c, "node", r)
    /\ UNCHANGED <<revision, runStatus, failureCode, approvalStep, overdue,
                   decision, number>>

\* Another executor has the step, or had it in between (then the unique
\* constraint on attempt_number refuses the stale number).
ClaimLost(c) ==
    /\ stage[c] = "claim"
    /\ ~ClaimHolds(c)
    /\ Ends(c)
    /\ UNCHANGED <<tables, overdue>>

\* The node is awaited outside any transaction of the executor.
NodeReturns(c) ==
    /\ stage[c] = "node"
    /\ Goes(c, "complete", target[c])
    /\ UNCHANGED <<tables, overdue, decision, number>>

\* WorkflowRetryableNodeError, or any other exception.
NodeFails(c) ==
    /\ stage[c] = "node"
    /\ Goes(c, "fail", target[c])
    /\ UNCHANGED <<tables, overdue, decision, number>>

\* Attempt and step are both still running.
HoldsStep(c) ==
    /\ number[c] \in DOMAIN attempts[target[c]]
    /\ attempts[target[c]][number[c]] = "running"
    /\ indexStep[target[c]] = "running"

\* complete_attempt_and_step, then complete_run_if_no_pending_steps: the index
\* step is the last of the definition.
CompleteStep(c) ==
    LET r == target[c] IN
    /\ stage[c] = "complete"
    /\ HoldsStep(c)
    /\ attempts' = [attempts EXCEPT ![r][number[c]] = "succeeded"]
    /\ indexStep' = [indexStep EXCEPT ![r] = "succeeded"]
    /\ IF runStatus[r] = "running"
         THEN RunBecomes(r, "succeeded", "none")
         ELSE UNCHANGED <<runStatus, failureCode>>
    /\ Ends(c)
    /\ UNCHANGED <<revision, approvalStep, overdue>>

\* Mutant: the step fails and the run stays running.
FailStepOnly(c, code) ==
    LET r == target[c] IN
    /\ stage[c] = "fail"
    /\ HoldsStep(c)
    /\ attempts' = [attempts EXCEPT ![r][number[c]] = code]
    /\ indexStep' = [indexStep EXCEPT ![r] = "failed"]
    /\ Ends(c)
    /\ UNCHANGED <<revision, runStatus, failureCode, approvalStep, overdue>>

\* fail_attempt_step_and_run: all three updates match, or none is kept.
FailStep(c, code) ==
    LET r == target[c] IN
    /\ stage[c] = "fail"
    /\ HoldsStep(c)
    /\ runStatus[r] = "running"
    /\ attempts' = [attempts EXCEPT ![r][number[c]] = code]
    /\ indexStep' = [indexStep EXCEPT ![r] = "failed"]
    /\ RunBecomes(r, "failed", code)
    /\ Ends(c)
    /\ UNCHANGED <<revision, approvalStep, overdue>>

-----------------------------------------------------------------------------
\* The request dies, is cancelled at its await, or the database refuses its
\* write: its transaction is rolled back and nothing else is undone.
Vanish(c) ==
    /\ stage[c] # "idle"
    /\ Ends(c)
    /\ UNCHANGED <<tables, overdue>>

Starts(c, r) ==
    \/ \E d \in Decisions : BeginDecide(c, r, d)
    \/ BeginResume(c, r)
    \/ BeginExecute(c, r)

Proceeds(c) ==
    \/ Approve(c) \/ Cancel(c) \/ DecisionLost(c)
    \/ Resume(c) \/ ResumeLost(c)
    \/ ClaimStep(c) \/ ClaimLost(c) \/ NodeReturns(c) \/ NodeFails(c)
    \/ CompleteStep(c) \/ \E code \in Failures : FailStep(c, code)

Next ==
    \/ \E r \in Runs : Submit(r) \/ TimePasses(r)
    \/ \E c \in Calls, r \in Runs : Starts(c, r)
    \/ \E c \in Calls : Proceeds(c) \/ Vanish(c)

Spec == Init /\ [][Next]_vars

-----------------------------------------------------------------------------
(* Properties *)

\* Revision, run, steps and attempts always tell the same story, though each
\* is changed by its own conditional update: a run executes only after its
\* revision was approved, it is failed (with a code) exactly when its index
\* step is, and the step is running exactly when its last attempt is.
RowAgrees(r) ==
    /\ runStatus[r] = "waiting_approval" <=> revision[r] = "submitted"
    /\ runStatus[r] = "waiting_approval" <=> approvalStep[r] = "waiting"
    /\ runStatus[r] = "cancelled" <=> revision[r] \in Decisions \ {"approved"}
    /\ runStatus[r] \in {"running", "failed", "succeeded"}
         <=> revision[r] = "approved"
    /\ indexStep[r] # "absent" <=> revision[r] = "approved"
    /\ runStatus[r] = "running" <=> indexStep[r] \in {"pending", "running"}
    /\ runStatus[r] = "succeeded" <=> indexStep[r] = "succeeded"
    /\ runStatus[r] = "failed" <=> indexStep[r] = "failed"
    /\ runStatus[r] = "failed" <=> failureCode[r] # "none"
    /\ indexStep[r] = "absent" => attempts[r] = <<>>
    /\ indexStep[r] \in {"running", "failed", "succeeded"} => attempts[r] # <<>>
    /\ attempts[r] # <<>> =>
         LET last == attempts[r][Len(attempts[r])] IN
         /\ indexStep[r] = "running" <=> last = "running"
         /\ indexStep[r] = "succeeded" <=> last = "succeeded"
         /\ indexStep[r] = "failed" => last = failureCode[r]

RowsAgree == \A r \in Runs : RowAgrees(r)

\* One executor at a time: two calls that hold the step of a run are the same
\* call, and it holds the last attempt, the one that is running.
OneExecutor ==
    \A c, d \in Calls :
        stage[c] \in Holding =>
            /\ target[c] \in Runs
            /\ number[c] = Len(attempts[target[c]])
            /\ attempts[target[c]] # <<>>
            /\ indexStep[target[c]] = "running"
            /\ stage[d] \in Holding /\ target[d] = target[c] => c = d

\* Only the last attempt of a step can be anything but failed: a success is
\* never followed by another attempt (ADR-0037: what succeeded is not replayed).
SuccessIsLast ==
    \A r \in Runs : \A i \in 1..(Len(attempts[r]) - 1) : attempts[r][i] \in Failures

\* Attempts are an audit trail: none is removed or rewritten once it ended, and
\* a revision's decision stands (ADR-0037: A2 keeps the failure of A1).
HistoryKept ==
    [][\A r \in Runs :
         /\ Len(attempts[r]) <= Len(attempts'[r])
         /\ \A i \in DOMAIN attempts[r] :
              attempts[r][i] # "running" => attempts'[r][i] = attempts[r][i]
         /\ revision[r] \in Decisions => revision'[r] = revision[r]]_vars

\* Every change of a run's status is one that state_machine.py allows.
Lifecycle == INSTANCE WorkflowRunLifecycle
LifecycleSpec == Lifecycle!Spec

\* resume_failed_run checks the retry limit in one snapshot and requeues in a
\* later statement, so each concurrent call can exceed max_attempts by one,
\* but no more than that.
OvershootBounded ==
    \A r \in Runs : Len(attempts[r]) <= MaxAttempts - 1 + Cardinality(Calls)

\* WorkflowStepDefinition.max_attempts: a step is tried so often at most.
AttemptLimit == \A r \in Runs : Len(attempts[r]) <= MaxAttempts
===============================================================================
