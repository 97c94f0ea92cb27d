-------------------------- MODULE WorkflowEngineProofs --------------------------
(***************************************************************************)
(* Proofs about WorkflowEngine, for any number of requests, runs and       *)
(* attempts.  A step either moves one call and no row (CallMoves) or       *)
(* changes one row at the end of a call (RowChanges); Submit and ClaimStep *)
(* are treated on their own.                                               *)
(***************************************************************************)
EXTENDS WorkflowEngine, SequenceTheorems, FiniteSetTheorems, TLAPS

IInv ==
    /\ TypeOK
    /\ RowsAgree
    /\ OneExecutor
    /\ SuccessIsLast
    /\ \A c \in Calls : stage[c] # "idle" => target[c] \in Runs

\* The row r and everything that belongs to it.
RowKept(r) ==
    /\ revision'[r] = revision[r]
    /\ runStatus'[r] = runStatus[r]
    /\ failureCode'[r] = failureCode[r]
    /\ approvalStep'[r] = approvalStep[r]
    /\ indexStep'[r] = indexStep[r]
    /\ attempts'[r] = attempts[r]

TablesTyped ==
    /\ revision \in [Runs -> RevisionStatus]
    /\ runStatus \in [Runs -> RunStatus]
    /\ failureCode \in [Runs -> Failures \cup {"none"}]
    /\ approvalStep \in [Runs -> StepStatus]
    /\ indexStep \in [Runs -> StepStatus]
    /\ attempts \in [Runs -> Seq(AttemptStatus)]

LEMMA ExceptSame ==
  ASSUME NEW S, NEW T, NEW f \in [S -> T], NEW x \in S
  PROVE  f = [f EXCEPT ![x] = f[x]]
  OBVIOUS

LEMMA AppendLast ==
  ASSUME NEW S, NEW s \in Seq(S), NEW e \in S
  PROVE  /\ Append(s, e) \in Seq(S)
         /\ Len(Append(s, e)) = Len(s) + 1
         /\ \A i \in 1..Len(s) : Append(s, e)[i] = s[i]
         /\ Append(s, e)[Len(s) + 1] = e
         /\ Append(s, e) # <<>>
  OBVIOUS

-----------------------------------------------------------------------------
LEMMA InitIInv == Init => IInv
  BY NoRunAssumption
  DEF Init, IInv, TypeOK, RowsAgree, RowAgrees, OneExecutor, SuccessIsLast, RevisionStatus,
      RunStatus, StepStatus, Decisions, Stages, Holding

\* A call moves on, or ends, and no row changes; it may hold a step only if it
\* held it before.
LEMMA CallMoves ==
  ASSUME IInv, NEW c \in Calls,
         NEW s \in Stages, NEW r \in Runs \cup {NoRun}, NEW d \in Decisions, NEW n \in Nat,
         stage' = [stage EXCEPT ![c] = s],
         target' = [target EXCEPT ![c] = r],
         decision' = [decision EXCEPT ![c] = d],
         number' = [number EXCEPT ![c] = n],
         UNCHANGED <<tables, overdue>>,
         s # "idle" => r \in Runs,
         s \in Holding => stage[c] \in Holding /\ r = target[c] /\ n = number[c]
  PROVE  IInv'
  <1> USE DEF IInv, tables
  <1>1. TypeOK'
    BY DEF TypeOK
  <1>2. RowsAgree' /\ SuccessIsLast'
    BY DEF RowsAgree, RowAgrees, SuccessIsLast
  <1>3. OneExecutor'
    BY DEF TypeOK, OneExecutor
  <1>4. \A e \in Calls : stage'[e] # "idle" => target'[e] \in Runs
    BY DEF TypeOK
  <1> QED BY <1>1, <1>2, <1>3, <1>4

\* A call ends having changed the row r, whose step no other call holds.
LEMMA RowChanges ==
  ASSUME IInv, NEW c \in Calls, NEW r \in Runs, Ends(c),
         overdue' = overdue,
         TablesTyped',
         \A q \in Runs \ {r} : RowKept(q),
         \A e \in Calls \ {c} : ~(stage[e] \in Holding /\ target[e] = r),
         RowAgrees(r)',
         \A i \in 1..(Len(attempts'[r]) - 1) : attempts'[r][i] \in Failures
  PROVE  IInv'
  <1> USE DEF IInv, Ends
  <1>1. TypeOK'
    BY DEF TypeOK, TablesTyped, Stages, Decisions
  <1>2. RowsAgree'
    <2> SUFFICES ASSUME NEW q \in Runs PROVE RowAgrees(q)'
      BY DEF RowsAgree
    <2>1. CASE q # r
      BY <2>1 DEF RowsAgree, RowAgrees, RowKept
    <2> QED BY <2>1
  <1>3. SuccessIsLast'
    BY DEF SuccessIsLast, RowKept
  <1>4. OneExecutor'
    BY DEF TypeOK, OneExecutor, RowKept, Holding
  <1>5. \A e \in Calls : stage'[e] # "idle" => target'[e] \in Runs
    BY DEF TypeOK
  <1> QED BY <1>1, <1>2, <1>3, <1>4, <1>5

\* No call holds the step of a run whose step is not running.
LEMMA HeldIsRunning ==
  ASSUME IInv, NEW r \in Runs, indexStep[r] # "running"
  PROVE  \A e \in Calls : ~(stage[e] \in Holding /\ target[e] = r)
  BY DEF IInv, OneExecutor

-----------------------------------------------------------------------------
LEMMA SubmitIInv ==
  ASSUME IInv, NEW r \in Runs, Submit(r)
  PROVE  IInv'
  <1> USE DEF IInv, Submit, RunBecomes, private
  <1>1. indexStep[r] = "absent" /\ attempts[r] = <<>> /\ failureCode[r] = "none"
    BY DEF TypeOK, RowsAgree, RowAgrees, Failures
  <1>2. TypeOK'
    BY DEF TypeOK, RunStatus, StepStatus, RevisionStatus
  <1>3. RowsAgree'
    <2> SUFFICES ASSUME NEW q \in Runs PROVE RowAgrees(q)'
      BY DEF RowsAgree
    <2>1. CASE q = r
      BY <1>1, <2>1 DEF TypeOK, RowAgrees, Decisions
    <2>2. CASE q # r
      BY <2>2 DEF TypeOK, RowsAgree, RowAgrees
    <2> QED BY <2>1, <2>2
  <1>4. OneExecutor' /\ SuccessIsLast'
    BY DEF OneExecutor, SuccessIsLast
  <1> QED BY <1>2, <1>3, <1>4

LEMMA ApproveIInv ==
  ASSUME IInv, NEW c \in Calls, Approve(c)
  PROVE  IInv'
  <1> USE DEF IInv, Approve, RunBecomes, DecisionHolds
  <1>1. PICK r \in Runs : r = target[c]
    OBVIOUS
  <1>2. indexStep[r] = "absent" /\ attempts[r] = <<>> /\ failureCode[r] = "none"
    BY <1>1 DEF TypeOK, RowsAgree, RowAgrees
  <1>3. TablesTyped' /\ \A q \in Runs \ {r} : RowKept(q)
    BY <1>1 DEF TypeOK, TablesTyped, RowKept, RunStatus, StepStatus, RevisionStatus, Decisions
  <1>4. RowAgrees(r)'
    BY <1>1, <1>2 DEF TypeOK, RowAgrees, Decisions
  <1>5. \A i \in 1..(Len(attempts'[r]) - 1) : attempts'[r][i] \in Failures
    BY <1>1 DEF SuccessIsLast
  <1> QED
    BY <1>2, <1>3, <1>4, <1>5, RowChanges, HeldIsRunning

LEMMA CancelIInv ==
  ASSUME IInv, NEW c \in Calls, Cancel(c)
  PROVE  IInv'
  <1> USE DEF IInv, Cancel, RunBecomes, DecisionHolds
  <1>1. PICK r \in Runs : r = target[c]
    OBVIOUS
  <1>2. /\ indexStep[r] = "absent" /\ attempts[r] = <<>> /\ failureCode[r] = "none"
        /\ decision[c] \in Decisions \ {"approved"}
    BY <1>1 DEF TypeOK, RowsAgree, RowAgrees
  <1>3. TablesTyped' /\ \A q \in Runs \ {r} : RowKept(q)
    BY <1>1, <1>2 DEF TypeOK, TablesTyped, RowKept, RunStatus, StepStatus, RevisionStatus
  <1>4. RowAgrees(r)'
    <2>1. /\ revision'[r] = decision[c]
          /\ approvalStep'[r] = "cancelled"
          /\ runStatus'[r] = "cancelled"
          /\ failureCode'[r] = "none"
          /\ indexStep'[r] = "absent"
          /\ attempts'[r] = <<>>
      BY <1>1, <1>2 DEF TypeOK
    <2> QED
      BY <1>2, <2>1 DEF RowAgrees, Decisions
  <1>5. \A i \in 1..(Len(attempts'[r]) - 1) : attempts'[r][i] \in Failures
    BY <1>1 DEF SuccessIsLast
  <1> QED
    BY <1>2, <1>3, <1>4, <1>5, RowChanges, HeldIsRunning

LEMMA ResumeIInv ==
  ASSUME IInv, NEW c \in Calls, Resume(c)
  PROVE  IInv'
  <1> USE DEF IInv, RunBecomes, Resume
  <1>0. PICK r \in Runs : r = target[c]
    OBVIOUS
  <1>1. /\ indexStep[r] = "failed"
        /\ revision[r] = "approved"
        /\ attempts[r] # <<>>
        /\ attempts[r][Len(attempts[r])] \in Failures
    BY <1>0 DEF TypeOK, RowsAgree, RowAgrees
  <1>2. TablesTyped' /\ \A q \in Runs \ {r} : RowKept(q)
    BY <1>0, <1>1 DEF TypeOK, TablesTyped, RowKept, RunStatus, StepStatus
  <1>3. RowAgrees(r)'
    BY <1>0, <1>1 DEF TypeOK, RowsAgree, RowAgrees, Failures, Retryable, Fatal
  <1>4. \A i \in 1..(Len(attempts'[r]) - 1) : attempts'[r][i] \in Failures
    BY <1>0, <1>1 DEF SuccessIsLast
  <1> QED
    BY <1>0, <1>1, <1>2, <1>3, <1>4, RowChanges, HeldIsRunning

\* The new attempt is the last one, and the calls that held the step before
\* have ended: it was pending.
LEMMA ClaimStepIInv ==
  ASSUME IInv, NEW c \in Calls, ClaimStep(c)
  PROVE  IInv'
  <1> DEFINE r == target[c]
  <1> DEFINE s == attempts[r]
  <1> USE DEF IInv, ClaimStep, ClaimHolds, Goes
  <1>1. /\ r \in Runs
        /\ indexStep[r] = "pending"
        /\ number[c] = Len(s) + 1
        /\ s \in Seq(AttemptStatus)
        /\ revision[r] = "approved"
        /\ runStatus[r] = "running"
    BY DEF TypeOK, RowsAgree, RowAgrees
  <1>2. /\ attempts'[r] \in Seq(AttemptStatus)
        /\ Len(attempts'[r]) = Len(s) + 1
        /\ \A i \in 1..Len(s) : attempts'[r][i] = s[i]
        /\ attempts'[r][Len(s) + 1] = "running"
        /\ attempts'[r] # <<>>
        /\ Len(s) \in Nat
    BY <1>1, AppendLast DEF TypeOK, AttemptStatus
  <1>3. \A q \in Runs \ {r} : RowKept(q)
    BY DEF TypeOK, RowKept
  <1>4. TypeOK'
    BY <1>1, <1>2 DEF TypeOK, StepStatus, Stages
  <1>5. RowsAgree'
    <2> SUFFICES ASSUME NEW q \in Runs PROVE RowAgrees(q)'
      BY DEF RowsAgree
    <2>1. CASE q = r
      BY <1>1, <1>2, <2>1 DEF TypeOK, RowsAgree, RowAgrees
    <2>2. CASE q # r
      BY <1>3, <2>2 DEF RowsAgree, RowAgrees, RowKept
    <2> QED BY <2>1, <2>2
  <1>6. \A i \in 1..Len(s) : s[i] \in Failures
    <2>1. CASE s = <<>>
      BY <2>1
    <2>2. CASE s # <<>>
      <3>1. Len(s) \in Nat \ {0} /\ s[Len(s)] \in AttemptStatus
        BY <1>1, <2>2, EmptySeq, ElementOfSeq
      <3>2. s[Len(s)] \in Failures
        BY <1>1, <2>2, <3>1 DEF RowsAgree, RowAgrees, AttemptStatus
      <3> QED
        BY <1>1, <3>1, <3>2 DEF SuccessIsLast
    <2> QED BY <2>1, <2>2
  <1>7. SuccessIsLast'
    <2> SUFFICES ASSUME NEW q \in Runs, NEW i \in 1..(Len(attempts'[q]) - 1)
                 PROVE  attempts'[q][i] \in Failures
      BY DEF SuccessIsLast
    <2>1. CASE q = r
      BY <1>2, <1>6, <2>1
    <2>2. CASE q # r
      BY <1>3, <2>2 DEF SuccessIsLast, RowKept
    <2> QED BY <2>1, <2>2
  <1>8. \A e \in Calls : ~(stage[e] \in Holding /\ target[e] = r)
    BY <1>1, HeldIsRunning
  <1>9. OneExecutor'
    <2> SUFFICES ASSUME NEW e \in Calls, NEW d \in Calls, stage'[e] \in Holding
                 PROVE  /\ target'[e] \in Runs
                        /\ number'[e] = Len(attempts'[target'[e]])
                        /\ attempts'[target'[e]] # <<>>
                        /\ indexStep'[target'[e]] = "running"
                        /\ stage'[d] \in Holding /\ target'[d] = target'[e] => e = d
      BY DEF OneExecutor
    <2>1. CASE e = c
      BY <1>1, <1>2, <1>8, <2>1 DEF TypeOK, Holding
    <2>2. CASE e # c
      <3>1. /\ stage'[e] = stage[e] /\ target'[e] = target[e] /\ number'[e] = number[e]
            /\ stage[e] \in Holding
        BY <2>2 DEF TypeOK
      <3>2. target[e] \in Runs \ {r}
        BY <1>8, <3>1 DEF OneExecutor
      <3>3. RowKept(target[e])
        BY <1>3, <3>2
      <3> QED
        BY <3>1, <3>2, <3>3 DEF TypeOK, OneExecutor, RowKept
    <2> QED BY <2>1, <2>2
  <1>10. \A e \in Calls : stage'[e] # "idle" => target'[e] \in Runs
    BY <1>1 DEF TypeOK
  <1> QED BY <1>4, <1>5, <1>7, <1>9, <1>10

\* The call is the one holder of the step, so both of its outcomes write to
\* the last attempt.
LEMMA OutcomeIInv ==
  ASSUME IInv, NEW c \in Calls,
         CompleteStep(c) \/ \E code \in Failures : FailStep(c, code)
  PROVE  IInv'
  <1> USE DEF IInv, RunBecomes
  <1>0. PICK r \in Runs, s \in Seq(AttemptStatus), n \in Nat :
          r = target[c] /\ s = attempts[r] /\ n = number[c]
    BY DEF CompleteStep, FailStep, TypeOK
  <1>1. /\ stage[c] \in Holding
        /\ n \in 1..Len(s)
        /\ n = Len(s)
        /\ runStatus[r] = "running"
        /\ revision[r] = "approved"
        /\ indexStep[r] = "running"
    BY <1>0 DEF CompleteStep, FailStep, HoldsStep, Holding, TypeOK, OneExecutor, RowsAgree, RowAgrees
  <1>2. PICK x \in {"succeeded"} \cup Failures :
          /\ attempts' = [attempts EXCEPT ![r] = [s EXCEPT ![n] = x]]
          /\ x = "succeeded" =>
               /\ indexStep' = [indexStep EXCEPT ![r] = "succeeded"]
               /\ runStatus' = [runStatus EXCEPT ![r] = "succeeded"]
               /\ failureCode' = [failureCode EXCEPT ![r] = "none"]
          /\ x # "succeeded" =>
               /\ indexStep' = [indexStep EXCEPT ![r] = "failed"]
               /\ runStatus' = [runStatus EXCEPT ![r] = "failed"]
               /\ failureCode' = [failureCode EXCEPT ![r] = x]
    <2>1. CASE CompleteStep(c)
      BY <1>0, <1>1, <2>1 DEF CompleteStep
    <2>2. ASSUME NEW code \in Failures, FailStep(c, code)
          PROVE  /\ attempts' = [attempts EXCEPT ![r] = [s EXCEPT ![n] = code]]
                 /\ indexStep' = [indexStep EXCEPT ![r] = "failed"]
                 /\ runStatus' = [runStatus EXCEPT ![r] = "failed"]
                 /\ failureCode' = [failureCode EXCEPT ![r] = code]
                 /\ code # "succeeded"
      BY <1>0, <2>2 DEF FailStep, Failures, Retryable, Fatal
    <2> QED BY <2>1, <2>2
  <1>3. /\ Ends(c)
        /\ UNCHANGED <<revision, approvalStep, overdue>>
    BY DEF CompleteStep, FailStep
  <1>4. /\ attempts'[r] \in Seq(AttemptStatus)
        /\ Len(attempts'[r]) = Len(s)
        /\ \A i \in 1..Len(s) : attempts'[r][i] = IF i = n THEN x ELSE s[i]
    <2>1. attempts'[r] = [s EXCEPT ![n] = x] /\ x \in AttemptStatus
      BY <1>0, <1>1, <1>2 DEF TypeOK, AttemptStatus
    <2> QED BY <1>0, <1>1, <2>1, ExceptSeq
  <1>5. TablesTyped' /\ \A q \in Runs \ {r} : RowKept(q)
    <2>1. /\ failureCode' \in [Runs -> Failures \cup {"none"}]
          /\ runStatus' \in [Runs -> RunStatus]
          /\ indexStep' \in [Runs -> StepStatus]
          /\ \A q \in Runs \ {r} : /\ failureCode'[q] = failureCode[q]
                                  /\ runStatus'[q] = runStatus[q]
                                  /\ indexStep'[q] = indexStep[q]
      <3>1. CASE x = "succeeded"
        BY <1>2, <3>1, ZenonT(40) DEF TypeOK, RunStatus, StepStatus
      <3>2. CASE x # "succeeded"
        <4>1. x \in Failures \cup {"none"} /\ {"failed"} \subseteq RunStatus \cap StepStatus
          BY <3>2 DEF RunStatus, StepStatus
        <4>2. /\ indexStep' = [indexStep EXCEPT ![r] = "failed"]
              /\ runStatus' = [runStatus EXCEPT ![r] = "failed"]
              /\ failureCode' = [failureCode EXCEPT ![r] = x]
          BY <1>2, <3>2
        <4> QED
          BY <4>1, <4>2 DEF TypeOK
      <3> QED BY <3>1, <3>2
    <2>2. /\ attempts' \in [Runs -> Seq(AttemptStatus)]
          /\ \A q \in Runs \ {r} : attempts'[q] = attempts[q]
      BY <1>2, <1>4 DEF TypeOK
    <2> QED
      BY <1>3, <2>1, <2>2 DEF TypeOK, TablesTyped, RowKept
  <1>6. RowAgrees(r)'
    <2>1. /\ attempts'[r] # <<>>
          /\ attempts'[r][Len(attempts'[r])] = x
      BY <1>0, <1>1, <1>4
    <2>2. x \notin {"none", "running"}
      BY DEF Failures, Retryable, Fatal
    <2>3. approvalStep'[r] # "waiting" /\ revision'[r] = "approved"
      BY <1>0, <1>1, <1>3 DEF RowsAgree, RowAgrees
    <2>4. CASE x = "succeeded"
      <3>1. /\ indexStep'[r] = "succeeded" /\ runStatus'[r] = "succeeded"
            /\ failureCode'[r] = "none"
        BY <1>0, <1>1, <1>2, <2>4 DEF TypeOK
      <3> QED BY <2>1, <2>3, <2>4, <3>1 DEF RowAgrees, Decisions
    <2>5. CASE x # "succeeded"
      <3>1. /\ indexStep'[r] = "failed" /\ runStatus'[r] = "failed"
            /\ failureCode'[r] = x
        BY <1>0, <1>1, <1>2, <2>5 DEF TypeOK
      <3> QED BY <2>1, <2>2, <2>3, <2>5, <3>1 DEF RowAgrees, Decisions
    <2> QED BY <2>4, <2>5
  <1>7. \A i \in 1..(Len(attempts'[r]) - 1) : attempts'[r][i] \in Failures
    BY <1>0, <1>1, <1>4 DEF SuccessIsLast
  <1>8. \A e \in Calls \ {c} : ~(stage[e] \in Holding /\ target[e] = r)
    BY <1>0, <1>1 DEF OneExecutor
  <1> QED
    BY <1>0, <1>1, <1>3, <1>5, <1>6, <1>7, <1>8, RowChanges

-----------------------------------------------------------------------------
LEMMA StepIInv == IInv /\ [Next]_vars => IInv'
  <1> SUFFICES ASSUME IInv, [Next]_vars PROVE IInv'
    OBVIOUS
  <1> USE DEF IInv
  <1>1. CASE UNCHANGED vars
    BY <1>1 DEF vars, tables, private, TypeOK, RowsAgree, RowAgrees, OneExecutor, SuccessIsLast
  <1>2. ASSUME NEW r \in Runs, TimePasses(r) PROVE IInv'
    BY <1>2 DEF TimePasses, tables, private, TypeOK, RowsAgree, RowAgrees, OneExecutor,
       SuccessIsLast
  <1>3. ASSUME NEW c \in Calls
        PROVE  /\ stage[c] \in Stages /\ target[c] \in Runs \cup {NoRun}
               /\ decision[c] \in Decisions /\ number[c] \in Nat
               /\ target = [target EXCEPT ![c] = target[c]]
               /\ decision = [decision EXCEPT ![c] = decision[c]]
               /\ number = [number EXCEPT ![c] = number[c]]
    BY <1>3, ExceptSame DEF TypeOK
  <1>4. ASSUME NEW c \in Calls, NEW r \in Runs, NEW d \in Decisions, BeginDecide(c, r, d)
        PROVE  IInv'
    BY <1>3, <1>4, CallMoves, ZenonT(40) DEF BeginDecide, Goes, Stages, Holding
  <1>5. ASSUME NEW c \in Calls, NEW r \in Runs, BeginResume(c, r) PROVE IInv'
    <2>1. /\ decision' = [decision EXCEPT ![c] = decision[c]]
          /\ number' = [number EXCEPT ![c] = number[c]]
      BY <1>3, <1>5 DEF BeginResume
    <2>2. /\ decision[c] \in Decisions /\ number[c] \in Nat
          /\ "resume" \in Stages /\ "resume" \notin Holding
      BY <1>3 DEF Stages, Holding
    <2>3. /\ stage' = [stage EXCEPT ![c] = "resume"]
          /\ target' = [target EXCEPT ![c] = r]
          /\ UNCHANGED <<tables, overdue>>
      BY <1>5 DEF BeginResume, Goes
    <2> QED
      BY <2>1, <2>2, <2>3, CallMoves
  <1>6. ASSUME NEW c \in Calls, NEW r \in Runs, BeginExecute(c, r) PROVE IInv'
    <2>1. Len(attempts[r]) + 1 \in Nat
      BY DEF TypeOK
    <2> QED
      BY <1>3, <1>6, <2>1, CallMoves DEF BeginExecute, Goes, Stages, Holding
  <1>7. ASSUME NEW c \in Calls, DecisionLost(c) \/ ResumeLost(c) \/ ClaimLost(c) \/ Vanish(c)
        PROVE  IInv'
    <2>1. Ends(c) /\ UNCHANGED <<tables, overdue>>
      BY <1>7 DEF DecisionLost, ResumeLost, ClaimLost, Vanish
    <2> QED
      BY <2>1, CallMoves DEF Ends, Stages, Holding, Decisions
  <1>8. ASSUME NEW c \in Calls, NodeReturns(c) \/ NodeFails(c) PROVE IInv'
    <2>1. PICK s \in {"complete", "fail"} :
            /\ stage[c] = "node"
            /\ Goes(c, s, target[c])
            /\ UNCHANGED <<tables, overdue, decision, number>>
      BY <1>8 DEF NodeReturns, NodeFails
    <2>2. /\ decision' = [decision EXCEPT ![c] = decision[c]]
          /\ number' = [number EXCEPT ![c] = number[c]]
      BY <1>3, <2>1
    <2>3. /\ target[c] \in Runs
          /\ s \in Stages
          /\ stage[c] \in Holding
          /\ decision[c] \in Decisions /\ number[c] \in Nat
      BY <1>3, <2>1 DEF Stages, Holding
    <2>4. /\ stage' = [stage EXCEPT ![c] = s]
          /\ target' = [target EXCEPT ![c] = target[c]]
          /\ UNCHANGED <<tables, overdue>>
      BY <2>1 DEF Goes
    <2> QED
      BY <2>2, <2>3, <2>4, CallMoves
  <1> QED
    BY <1>1, <1>2, <1>4, <1>5, <1>6, <1>7, <1>8, SubmitIInv, ApproveIInv, CancelIInv,
       ResumeIInv, ClaimStepIInv, OutcomeIInv
    DEF Next, Starts, Proceeds

LEMMA AlwaysIInv == Spec => []IInv
  BY InitIInv, StepIInv, PTL DEF Spec

\* Every variable keeps its type.
THEOREM TypeCorrect == Spec => []TypeOK
  BY AlwaysIInv, PTL DEF IInv

\* Revision, run, steps and attempts agree, whatever decisions, resumes and
\* executors of however many processes interleave.
THEOREM RowsCorrect == Spec => []RowsAgree
  BY AlwaysIInv, PTL DEF IInv

\* claim_step lets one executor into a step, and that executor writes to the
\* last attempt.
THEOREM ExecutorIsExclusive == Spec => []OneExecutor
  BY AlwaysIInv, PTL DEF IInv

\* A step that succeeded is not tried again.
THEOREM SuccessCorrect == Spec => []SuccessIsLast
  BY AlwaysIInv, PTL DEF IInv

-----------------------------------------------------------------------------
\* What a step may do to attempts and decisions.
LEMMA StepKeepsHistory ==
  ASSUME IInv, [Next]_vars, NEW r \in Runs
  PROVE  /\ Len(attempts[r]) <= Len(attempts'[r])
         /\ \A i \in DOMAIN attempts[r] :
              attempts[r][i] # "running" => attempts'[r][i] = attempts[r][i]
         /\ revision[r] \in Decisions => revision'[r] = revision[r]
  <1> DEFINE Keeps == /\ Len(attempts[r]) <= Len(attempts'[r])
                      /\ \A i \in DOMAIN attempts[r] :
                           attempts[r][i] # "running" => attempts'[r][i] = attempts[r][i]
                      /\ revision[r] \in Decisions => revision'[r] = revision[r]
  <1> USE DEF IInv
  <1>0. /\ Len(attempts[r]) \in Nat
        /\ DOMAIN attempts[r] = 1..Len(attempts[r])
        /\ attempts[r] \in Seq(AttemptStatus)
    BY DEF TypeOK
  <1>1. ASSUME UNCHANGED <<attempts, revision>> PROVE Keeps
    BY <1>0, <1>1
  <1>2. ASSUME NEW q \in Runs, Submit(q) PROVE Keeps
    <2>1. revision[q] \notin Decisions
      <3>1. RowAgrees(q) /\ runStatus[q] = "absent"
        BY <1>2 DEF Submit, RowsAgree
      <3> QED BY <3>1 DEF RowAgrees, Decisions
    <2>2. /\ attempts' = attempts
          /\ revision' = [revision EXCEPT ![q] = "submitted"]
      BY <1>2 DEF Submit
    <2> QED
      BY <1>0, <2>1, <2>2 DEF TypeOK
  <1>3. ASSUME NEW c \in Calls, Approve(c) \/ Cancel(c) PROVE Keeps
    <2>1. PICK q \in Runs, d \in RevisionStatus :
            /\ revision[q] = "submitted"
            /\ revision' = [revision EXCEPT ![q] = d]
            /\ attempts' = attempts
      <3>1. CASE Approve(c)
        BY <3>1 DEF Approve, DecisionHolds, TypeOK, RevisionStatus, Decisions
      <3>2. CASE Cancel(c)
        BY <3>2 DEF Cancel, DecisionHolds, TypeOK, RevisionStatus
      <3> QED BY <1>3, <3>1, <3>2
    <2> QED
      BY <1>0, <2>1 DEF TypeOK, Decisions
  <1>4. ASSUME NEW c \in Calls, ClaimStep(c) PROVE Keeps
    <2>1. /\ attempts' = [attempts EXCEPT ![target[c]] = Append(@, "running")]
          /\ revision' = revision
      BY <1>4 DEF ClaimStep
    <2>2. CASE target[c] = r
      <3>1. attempts'[r] = Append(attempts[r], "running") /\ "running" \in AttemptStatus
        BY <2>1, <2>2 DEF TypeOK, AttemptStatus
      <3> QED
        BY <1>0, <2>1, <3>1, AppendLast
    <2>3. CASE target[c] # r
      BY <1>0, <2>1, <2>3 DEF TypeOK
    <2> QED BY <2>2, <2>3
  <1>5. ASSUME NEW c \in Calls, CompleteStep(c) \/ \E code \in Failures : FailStep(c, code)
        PROVE  Keeps
    <2>1. PICK x \in AttemptStatus :
            /\ HoldsStep(c)
            /\ attempts' = [attempts EXCEPT ![target[c]][number[c]] = x]
            /\ revision' = revision
      BY <1>5 DEF CompleteStep, FailStep, AttemptStatus
    <2>2. CASE target[c] = r
      <3>1. /\ number[c] \in 1..Len(attempts[r])
            /\ attempts[r][number[c]] = "running"
            /\ attempts'[r] = [attempts[r] EXCEPT ![number[c]] = x]
        BY <1>0, <2>1, <2>2 DEF HoldsStep, TypeOK
      <3> QED
        BY <1>0, <2>1, <3>1, ExceptSeq
    <2>3. CASE target[c] # r
      BY <1>0, <2>1, <2>3 DEF TypeOK
    <2> QED BY <2>2, <2>3
  <1>6. \/ UNCHANGED <<attempts, revision>>
        \/ \E q \in Runs : Submit(q)
        \/ \E c \in Calls :
             \/ Approve(c) \/ Cancel(c) \/ ClaimStep(c) \/ CompleteStep(c)
             \/ \E code \in Failures : FailStep(c, code)
    BY DEF Next, Starts, Proceeds, TimePasses, BeginDecide, BeginResume, BeginExecute,
       DecisionLost, Resume, ResumeLost, ClaimLost, NodeReturns, NodeFails, Vanish,
       tables, vars
  <1> QED
    BY <1>1, <1>2, <1>3, <1>4, <1>5, <1>6

\* No attempt is removed, none is rewritten once it has ended, and a decision
\* on a revision stands.
THEOREM HistoryCorrect == Spec => HistoryKept
  <1>1. ASSUME IInv, [Next]_vars
        PROVE  [\A r \in Runs :
                  /\ Len(attempts[r]) <= Len(attempts'[r])
                  /\ \A i \in DOMAIN attempts[r] :
                       attempts[r][i] # "running" => attempts'[r][i] = attempts[r][i]
                  /\ revision[r] \in Decisions => revision'[r] = revision[r]]_vars
    BY <1>1, StepKeepsHistory
  <1> QED
    BY <1>1, AlwaysIInv, PTL DEF Spec, HistoryKept

-----------------------------------------------------------------------------
\* The status of a run changes only along the table of state_machine.py, which
\* the services never consult.
THEOREM ImplementsLifecycle == Spec => LifecycleSpec
  <1>1. Init => Lifecycle!Init
    BY DEF Init, Lifecycle!Init
  <1>2. ASSUME IInv, [Next]_vars PROVE [Lifecycle!Next]_(Lifecycle!vars)
    <2> USE DEF IInv, RunBecomes, Lifecycle!vars
    <2>1. ASSUME NEW r \in Runs, Submit(r) PROVE Lifecycle!Next
      BY <2>1 DEF Submit, Lifecycle!Next, Lifecycle!Create
    <2>2. ASSUME NEW r \in Runs,
                 NEW e, NEW s, NEW t,
                 [from |-> s, event |-> e, to |-> t] \in Lifecycle!Transitions,
                 runStatus[r] = s,
                 runStatus' = [runStatus EXCEPT ![r] = t]
          PROVE  Lifecycle!Next
      <3> DEFINE tr == [from |-> s, event |-> e, to |-> t]
      <3>1. tr.from = s /\ tr.to = t
        OBVIOUS
      <3>2. Lifecycle!Handle(r)
        BY <2>2, <3>1 DEF Lifecycle!Handle
      <3> QED BY <3>2 DEF Lifecycle!Next
    <2>3. ASSUME NEW c \in Calls, Approve(c) PROVE Lifecycle!Next
      <3>1. [from |-> "waiting_approval", event |-> "approve", to |-> "running"]
              \in Lifecycle!Transitions
        BY DEF Lifecycle!Transitions
      <3>2. /\ target[c] \in Runs
            /\ runStatus[target[c]] = "waiting_approval"
            /\ runStatus' = [runStatus EXCEPT ![target[c]] = "running"]
        BY <1>2, <2>3 DEF Approve, DecisionHolds
      <3> QED BY <2>2, <3>1, <3>2
    <2>4. ASSUME NEW c \in Calls, Cancel(c) PROVE Lifecycle!Next
      <3>1. [from |-> "waiting_approval", event |-> "reject", to |-> "cancelled"]
              \in Lifecycle!Transitions
        BY DEF Lifecycle!Transitions
      <3>2. /\ target[c] \in Runs
            /\ runStatus[target[c]] = "waiting_approval"
            /\ runStatus' = [runStatus EXCEPT ![target[c]] = "cancelled"]
        BY <1>2, <2>4 DEF Cancel, DecisionHolds
      <3> QED BY <2>2, <3>1, <3>2
    <2>5. ASSUME NEW c \in Calls, Resume(c) PROVE Lifecycle!Next
      <3>1. [from |-> "failed", event |-> "resume", to |-> "running"]
              \in Lifecycle!Transitions
        BY DEF Lifecycle!Transitions
      <3>2. /\ target[c] \in Runs
            /\ runStatus[target[c]] = "failed"
            /\ runStatus' = [runStatus EXCEPT ![target[c]] = "running"]
        BY <1>2, <2>5 DEF Resume
      <3> QED BY <2>2, <3>1, <3>2
    <2>6. ASSUME NEW c \in Calls, CompleteStep(c)
          PROVE  Lifecycle!Next
      <3>1. [from |-> "running", event |-> "complete", to |-> "succeeded"]
              \in Lifecycle!Transitions
        BY DEF Lifecycle!Transitions
      <3>2. stage[c] \in Holding /\ target[c] \in Runs
        BY <1>2, <2>6 DEF CompleteStep, Holding
      <3>3. /\ runStatus[target[c]] = "running"
            /\ runStatus' = [runStatus EXCEPT ![target[c]] = "succeeded"]
        BY <1>2, <2>6, <3>2 DEF CompleteStep, OneExecutor, RowsAgree, RowAgrees
      <3> QED BY <2>2, <3>1, <3>2, <3>3
    <2>7. ASSUME NEW c \in Calls, NEW code \in Failures, FailStep(c, code)
          PROVE  Lifecycle!Next
      <3>1. [from |-> "running", event |-> "fail", to |-> "failed"]
              \in Lifecycle!Transitions
        BY DEF Lifecycle!Transitions
      <3>2. /\ target[c] \in Runs
            /\ runStatus[target[c]] = "running"
            /\ runStatus' = [runStatus EXCEPT ![target[c]] = "failed"]
        BY <1>2, <2>7 DEF FailStep
      <3> QED BY <2>2, <3>1, <3>2
    <2>8. \/ UNCHANGED runStatus
          \/ \E r \in Runs : Submit(r)
          \/ \E c \in Calls :
               \/ Approve(c) \/ Cancel(c) \/ Resume(c) \/ CompleteStep(c)
               \/ \E code \in Failures : FailStep(c, code)
      BY <1>2 DEF Next, Starts, Proceeds, TimePasses, BeginDecide, BeginResume,
         BeginExecute, DecisionLost, ResumeLost, ClaimStep, ClaimLost, NodeReturns,
         NodeFails, Vanish, tables, vars
    <2> QED
      BY <2>1, <2>3, <2>4, <2>5, <2>6, <2>7, <2>8
  <1> QED
    BY <1>1, <1>2, AlwaysIInv, PTL DEF Spec, LifecycleSpec, Lifecycle!Spec

-----------------------------------------------------------------------------
(* The retry limit *)

\* Requests that have checked the limit for r and will requeue it.
Waiters(r) == {c \in Calls : stage[c] = "resume" /\ target[c] = r}

\* The attempts of r, counting the one that a pending step will get.
Tries(r) == Len(attempts[r]) + (IF indexStep[r] = "pending" THEN 1 ELSE 0)

\* Each waiter has a try in hand; when the first of them checked the limit
\* there were at most MaxAttempts - 1 tries.
OInv ==
    \A r \in Runs :
        /\ Tries(r) + Cardinality(Waiters(r)) <= MaxAttempts - 1 + Cardinality(Calls)
        /\ indexStep[r] = "absent" => Waiters(r) = {}

LEMMA WaitersFinite ==
  ASSUME NEW W, W \subseteq Calls
  PROVE  /\ IsFiniteSet(W)
         /\ Cardinality(W) \in Nat
         /\ Cardinality(W) <= Cardinality(Calls)
         /\ Cardinality(Calls) \in Nat \ {0}
  BY CallsAssumption, FS_Subset, FS_CardinalityType, FS_EmptySet

LEMMA InitOInv == Init => OInv
  <1> SUFFICES ASSUME Init, NEW r \in Runs
               PROVE  /\ Tries(r) + Cardinality(Waiters(r))
                           <= MaxAttempts - 1 + Cardinality(Calls)
                      /\ Waiters(r) = {}
    BY DEF OInv
  <1>1. Waiters(r) = {} /\ Tries(r) = 0
    BY DEF Init, Waiters, Tries
  <1> QED
    BY <1>1, WaitersFinite, FS_EmptySet, MaxAttemptsAssumption

\* A run that is not approved yet has no step to be resumed.
NoEarlyWaiter == \A r \in Runs : indexStep[r] = "absent" => Waiters(r) = {}

\* What a step does to the tries of r and to those who wait to resume it: nothing
\* that adds to either, a new waiter below the limit, a requeue, or an approval.
TriesMove(r) ==
    \/ /\ Tries(r)' <= Tries(r) /\ Waiters(r)' \subseteq Waiters(r)
       /\ indexStep'[r] = "absent" => indexStep[r] = "absent"
    \/ /\ Tries(r)' <= MaxAttempts - 1 /\ indexStep'[r] # "absent"
    \/ /\ Tries(r)' = Tries(r) + 1 /\ indexStep'[r] # "absent"
       /\ \E c \in Waiters(r) : Waiters(r)' = Waiters(r) \ {c}
    \/ /\ Tries(r)' = 1 /\ Waiters(r)' = {}

LEMMA TriesStep ==
  IInv /\ IInv' /\ NoEarlyWaiter /\ [Next]_vars => \A r \in Runs : TriesMove(r)
  <1> SUFFICES ASSUME IInv, IInv', NoEarlyWaiter, [Next]_vars, NEW r \in Runs
               PROVE  TriesMove(r)
    OBVIOUS
  <1>1. Tries(r) \in Nat /\ Tries(r)' \in Nat /\ MaxAttempts \in Nat \ {0}
    BY MaxAttemptsAssumption DEF Tries, IInv, TypeOK
  <1>2. ASSUME Waiters(r)' \subseteq Waiters(r), Tries(r)' <= Tries(r),
               indexStep'[r] = "absent" => indexStep[r] = "absent"
        PROVE  TriesMove(r)
    BY <1>2 DEF TriesMove
  <1>3. ASSUME UNCHANGED <<attempts, indexStep>>, Waiters(r)' \subseteq Waiters(r)
        PROVE  TriesMove(r)
    <2>1. Tries(r)' = Tries(r) /\ indexStep'[r] = indexStep[r]
      BY <1>3 DEF Tries
    <2> QED BY <1>1, <1>2, <1>3, <2>1
  <1>4. ASSUME NEW c \in Calls, NEW q \in Runs, BeginResume(c, q) PROVE TriesMove(r)
    <2>1. UNCHANGED <<attempts, indexStep>>
      BY <1>4 DEF BeginResume, tables
    <2>2. CASE q = r
      <3>1. Tries(r)' <= MaxAttempts - 1 /\ indexStep'[r] # "absent"
        BY <1>1, <1>4, <2>1, <2>2 DEF BeginResume, Tries, IInv, TypeOK
      <3> QED BY <3>1 DEF TriesMove
    <2>3. CASE q # r
      <3>1. Waiters(r)' \subseteq Waiters(r)
        BY <1>4, <2>3 DEF BeginResume, Goes, Waiters, IInv, TypeOK
      <3> QED BY <1>3, <2>1, <3>1
    <2> QED BY <2>2, <2>3
  <1>5. ASSUME NEW c \in Calls, Resume(c) PROVE TriesMove(r)
    <2>1. /\ attempts' = attempts
          /\ indexStep' = [indexStep EXCEPT ![target[c]] = "pending"]
          /\ indexStep[target[c]] = "failed"
          /\ Waiters(r)' = Waiters(r) \ {c}
      BY <1>5 DEF Resume, Ends, Waiters, IInv, TypeOK
    <2>2. CASE target[c] = r
      <3>1. c \in Waiters(r)
        BY <1>5, <2>2 DEF Resume, Waiters
      <3>2. Tries(r)' = Tries(r) + 1 /\ indexStep'[r] # "absent"
        BY <1>1, <2>1, <2>2 DEF Tries, IInv, TypeOK
      <3> QED
        BY <2>1, <3>1, <3>2 DEF TriesMove
    <2>3. CASE target[c] # r
      BY <1>1, <1>2, <2>1, <2>3 DEF Tries, IInv, TypeOK
    <2> QED BY <2>2, <2>3
  <1>6. ASSUME NEW c \in Calls, Approve(c) PROVE TriesMove(r)
    <2>1. /\ attempts' = attempts
          /\ indexStep[target[c]] = "absent"
          /\ indexStep' = [indexStep EXCEPT ![target[c]] = "pending"]
          /\ Waiters(r)' \subseteq Waiters(r)
      BY <1>6 DEF Approve, Ends, Waiters, IInv, TypeOK
    <2>2. CASE target[c] = r
      <3>1. Waiters(r)' = {} /\ attempts[r] = <<>>
        BY <2>1, <2>2 DEF NoEarlyWaiter, IInv, RowsAgree, RowAgrees
      <3>2. Tries(r)' = 1
        BY <2>1, <2>2, <3>1 DEF Tries, IInv, TypeOK
      <3> QED
        BY <3>1, <3>2 DEF TriesMove
    <2>3. CASE target[c] # r
      BY <1>1, <1>2, <2>1, <2>3 DEF Tries, IInv, TypeOK
    <2> QED BY <2>2, <2>3
  <1>7. ASSUME NEW c \in Calls, ClaimStep(c) PROVE TriesMove(r)
    <2>1. /\ attempts' = [attempts EXCEPT ![target[c]] = Append(@, "running")]
          /\ indexStep[target[c]] = "pending"
          /\ indexStep' = [indexStep EXCEPT ![target[c]] = "running"]
          /\ Waiters(r)' \subseteq Waiters(r)
      BY <1>7 DEF ClaimStep, ClaimHolds, Goes, Waiters, IInv, TypeOK
    <2>2. CASE target[c] = r
      <3>1. Len(attempts'[r]) = Len(attempts[r]) + 1 /\ Len(attempts[r]) \in Nat
        BY <2>1, <2>2, AppendLast DEF IInv, TypeOK, AttemptStatus
      <3>2. indexStep'[r] = "running" /\ indexStep[r] = "pending"
        BY <2>1, <2>2 DEF IInv, TypeOK
      <3>3. Tries(r)' = Tries(r)
        BY <3>1, <3>2 DEF Tries
      <3> QED BY <1>1, <1>2, <2>1, <3>2, <3>3
    <2>3. CASE target[c] # r
      <3>1. attempts'[r] = attempts[r] /\ indexStep'[r] = indexStep[r]
        BY <2>1, <2>3 DEF IInv, TypeOK
      <3>2. Tries(r)' = Tries(r)
        BY <3>1 DEF Tries
      <3> QED BY <1>1, <1>2, <2>1, <3>1, <3>2
    <2> QED BY <2>2, <2>3
  <1>8. ASSUME NEW c \in Calls, CompleteStep(c) \/ \E code \in Failures : FailStep(c, code)
        PROVE  TriesMove(r)
    <2>1. PICK x \in AttemptStatus, t \in {"succeeded", "failed"} :
            /\ HoldsStep(c)
            /\ attempts' = [attempts EXCEPT ![target[c]][number[c]] = x]
            /\ indexStep' = [indexStep EXCEPT ![target[c]] = t]
            /\ stage' = [stage EXCEPT ![c] = "idle"]
            /\ target' = [target EXCEPT ![c] = NoRun]
      BY <1>8 DEF CompleteStep, FailStep, Ends, AttemptStatus
    <2>2. Waiters(r)' \subseteq Waiters(r)
      BY <2>1 DEF Waiters, IInv, TypeOK
    <2>3. CASE target[c] = r
      <3>1. /\ number[c] \in 1..Len(attempts[r])
            /\ attempts[r] \in Seq(AttemptStatus)
            /\ attempts'[r] = [attempts[r] EXCEPT ![number[c]] = x]
        BY <2>1, <2>3 DEF HoldsStep, IInv, TypeOK
      <3>2. Len(attempts'[r]) = Len(attempts[r])
        BY <3>1, ExceptSeq
      <3>3. indexStep[r] = "running" /\ indexStep'[r] \in {"succeeded", "failed"}
        BY <2>1, <2>3 DEF HoldsStep, IInv, TypeOK
      <3>4. Tries(r)' = Tries(r)
        BY <3>2, <3>3 DEF Tries
      <3> QED BY <1>1, <1>2, <2>2, <3>3, <3>4
    <2>4. CASE target[c] # r
      <3>1. attempts'[r] = attempts[r] /\ indexStep'[r] = indexStep[r]
        BY <2>1, <2>4 DEF IInv, TypeOK
      <3>2. Tries(r)' = Tries(r)
        BY <3>1 DEF Tries
      <3> QED BY <1>1, <1>2, <2>2, <3>1, <3>2
    <2> QED BY <2>3, <2>4
  <1>9. ASSUME NEW q \in Runs, Submit(q) \/ TimePasses(q)
        PROVE  UNCHANGED <<attempts, indexStep>> /\ Waiters(r)' \subseteq Waiters(r)
    BY <1>9 DEF Submit, TimePasses, Waiters, private, tables
  <1>10. ASSUME NEW c \in Calls, NEW q \in Runs,
                BeginExecute(c, q) \/ \E d \in Decisions : BeginDecide(c, q, d)
         PROVE  UNCHANGED <<attempts, indexStep>> /\ Waiters(r)' \subseteq Waiters(r)
    BY <1>10 DEF BeginExecute, BeginDecide, Goes, Waiters, tables, IInv, TypeOK
  <1>11. ASSUME NEW c \in Calls,
                \/ Cancel(c) \/ DecisionLost(c) \/ ResumeLost(c) \/ ClaimLost(c)
                \/ NodeReturns(c) \/ NodeFails(c) \/ Vanish(c)
         PROVE  UNCHANGED <<attempts, indexStep>> /\ Waiters(r)' \subseteq Waiters(r)
    BY <1>11 DEF Cancel, DecisionLost, ResumeLost, ClaimLost, NodeReturns, NodeFails,
       Vanish, Ends, Goes, Waiters, tables, IInv, TypeOK
  <1>12. CASE UNCHANGED vars
    BY <1>3, <1>12 DEF vars, tables, private, Waiters
  <1> QED
    BY <1>3, <1>4, <1>5, <1>6, <1>7, <1>8, <1>9, <1>10, <1>11, <1>12
    DEF Next, Starts, Proceeds

LEMMA StepOInv == IInv /\ IInv' /\ OInv /\ [Next]_vars => OInv'
  <1> SUFFICES ASSUME IInv, IInv', OInv, [Next]_vars, NEW r \in Runs
               PROVE  /\ Tries(r)' + Cardinality(Waiters(r)')
                           <= MaxAttempts - 1 + Cardinality(Calls)
                      /\ indexStep'[r] = "absent" => Waiters(r)' = {}
    BY DEF OInv
  <1>1. Tries(r) \in Nat /\ Tries(r)' \in Nat /\ MaxAttempts \in Nat \ {0}
    BY MaxAttemptsAssumption DEF Tries, IInv, TypeOK
  <1>2. TriesMove(r)
    BY TriesStep DEF OInv, NoEarlyWaiter
  <1>3. Waiters(r) \subseteq Calls /\ Waiters(r)' \subseteq Calls
    BY DEF Waiters
  <1>4. /\ Cardinality(Waiters(r)) \in Nat /\ Cardinality(Waiters(r)') \in Nat
        /\ Cardinality(Waiters(r)') <= Cardinality(Calls)
        /\ Cardinality(Calls) \in Nat \ {0} /\ IsFiniteSet(Waiters(r))
    BY <1>3, WaitersFinite
  <1>5. /\ Tries(r) + Cardinality(Waiters(r)) <= MaxAttempts - 1 + Cardinality(Calls)
        /\ indexStep[r] = "absent" => Waiters(r) = {}
    BY DEF OInv
  <1>6. CASE /\ Tries(r)' <= Tries(r) /\ Waiters(r)' \subseteq Waiters(r)
             /\ indexStep'[r] = "absent" => indexStep[r] = "absent"
    <2>1. Cardinality(Waiters(r)') <= Cardinality(Waiters(r))
      BY <1>4, <1>6, FS_Subset
    <2> QED BY <1>1, <1>4, <1>5, <1>6, <2>1
  <1>7. CASE Tries(r)' <= MaxAttempts - 1 /\ indexStep'[r] # "absent"
    BY <1>1, <1>4, <1>7
  <1>8. CASE /\ Tries(r)' = Tries(r) + 1 /\ indexStep'[r] # "absent"
             /\ \E c \in Waiters(r) : Waiters(r)' = Waiters(r) \ {c}
    <2>1. Cardinality(Waiters(r)') = Cardinality(Waiters(r)) - 1
      BY <1>4, <1>8, FS_RemoveElement
    <2> QED BY <1>1, <1>4, <1>5, <1>8, <2>1
  <1>9. CASE Tries(r)' = 1 /\ Waiters(r)' = {}
    <2>1. Cardinality(Waiters(r)') = 0
      BY <1>9, FS_EmptySet
    <2> QED BY <1>1, <1>4, <1>9, <2>1
  <1> QED
    BY <1>2, <1>6, <1>7, <1>8, <1>9 DEF TriesMove

\* The retry limit may be exceeded, but by no more than one attempt for each
\* concurrent request beyond the first.
THEOREM OvershootCorrect == Spec => []OvershootBounded
  <1>1. IInv /\ OInv => OvershootBounded
    <2> SUFFICES ASSUME IInv, OInv, NEW r \in Runs
                 PROVE  Len(attempts[r]) <= MaxAttempts - 1 + Cardinality(Calls)
      BY DEF OvershootBounded
    <2>1. Len(attempts[r]) \in Nat /\ Len(attempts[r]) <= Tries(r) /\ Tries(r) \in Nat
      BY DEF Tries, IInv, TypeOK
    <2>2. Cardinality(Waiters(r)) \in Nat /\ Cardinality(Calls) \in Nat
      <3>1. Waiters(r) \subseteq Calls
        BY DEF Waiters
      <3> QED BY <3>1, WaitersFinite
    <2> QED
      BY <2>1, <2>2, MaxAttemptsAssumption DEF OInv
  <1>2. IInv /\ OInv /\ [Next]_vars => IInv' /\ OInv'
    BY StepIInv, StepOInv
  <1> QED
    BY <1>1, <1>2, InitIInv, InitOInv, PTL DEF Spec

\* No two requests are between the check of the limit and the requeue of one run.
SerialResumes == \A r \in Runs : \A c, d \in Waiters(r) : c = d

\* The limit holds, with the try that the one waiter has in hand.
LimitInv ==
    /\ NoEarlyWaiter
    /\ \A r \in Runs :
        /\ Tries(r) <= MaxAttempts
        /\ Waiters(r) # {} => Tries(r) <= MaxAttempts - 1

LEMMA StepLimitInv ==
  IInv /\ IInv' /\ LimitInv /\ SerialResumes /\ [Next]_vars => LimitInv'
  <1> SUFFICES ASSUME IInv, IInv', LimitInv, SerialResumes, [Next]_vars, NEW r \in Runs
               PROVE  /\ indexStep'[r] = "absent" => Waiters(r)' = {}
                      /\ Tries(r)' <= MaxAttempts
                      /\ Waiters(r)' # {} => Tries(r)' <= MaxAttempts - 1
    BY DEF LimitInv, NoEarlyWaiter
  <1>1. Tries(r) \in Nat /\ Tries(r)' \in Nat /\ MaxAttempts \in Nat \ {0}
    BY MaxAttemptsAssumption DEF Tries, IInv, TypeOK
  <1>2. TriesMove(r)
    BY TriesStep DEF LimitInv
  <1>3. /\ indexStep[r] = "absent" => Waiters(r) = {}
        /\ Tries(r) <= MaxAttempts
        /\ Waiters(r) # {} => Tries(r) <= MaxAttempts - 1
        /\ \A c, d \in Waiters(r) : c = d
    BY DEF LimitInv, NoEarlyWaiter, SerialResumes
  <1>4. CASE /\ Tries(r)' <= Tries(r) /\ Waiters(r)' \subseteq Waiters(r)
             /\ indexStep'[r] = "absent" => indexStep[r] = "absent"
    <2>1. Waiters(r)' # {} => Waiters(r) # {}
      BY <1>4
    <2>2. Tries(r)' <= MaxAttempts /\ (Waiters(r) # {} => Tries(r)' <= MaxAttempts - 1)
      BY <1>1, <1>3, <1>4
    <2> QED BY <1>3, <1>4, <2>1, <2>2
  <1>5. CASE Tries(r)' <= MaxAttempts - 1 /\ indexStep'[r] # "absent"
    BY <1>1, <1>5
  <1>6. CASE /\ Tries(r)' = Tries(r) + 1 /\ indexStep'[r] # "absent"
             /\ \E c \in Waiters(r) : Waiters(r)' = Waiters(r) \ {c}
    <2>1. Waiters(r) # {} /\ Waiters(r)' = {}
      BY <1>3, <1>6
    <2> QED BY <1>1, <1>3, <1>6, <2>1
  <1>7. CASE Tries(r)' = 1 /\ Waiters(r)' = {}
    BY <1>1, <1>7
  <1> QED
    BY <1>2, <1>4, <1>5, <1>6, <1>7 DEF TriesMove

\* What the check of resume_failed_run is worth: a run is tried more often than
\* max_attempts only if two requests resume it at once.  The code orders neither.
THEOREM SerialResumesKeepLimit == Spec /\ []SerialResumes => []AttemptLimit
  <1>1. Init => LimitInv
    <2> SUFFICES ASSUME Init, NEW r \in Runs
                 PROVE  Waiters(r) = {} /\ Tries(r) = 0
      BY MaxAttemptsAssumption DEF LimitInv, NoEarlyWaiter
    <2> QED BY DEF Init, Waiters, Tries
  <1>2. IInv /\ LimitInv => AttemptLimit
    <2> SUFFICES ASSUME IInv, LimitInv, NEW r \in Runs PROVE Len(attempts[r]) <= MaxAttempts
      BY DEF AttemptLimit
    <2>1. Len(attempts[r]) \in Nat /\ Len(attempts[r]) <= Tries(r) /\ Tries(r) \in Nat
      BY DEF Tries, IInv, TypeOK
    <2> QED BY <2>1, MaxAttemptsAssumption DEF LimitInv
  <1>3. IInv /\ LimitInv /\ SerialResumes /\ [Next]_vars => IInv' /\ LimitInv'
    BY StepIInv, StepLimitInv
  <1> QED
    BY <1>1, <1>2, <1>3, InitIInv, PTL DEF Spec
===============================================================================
