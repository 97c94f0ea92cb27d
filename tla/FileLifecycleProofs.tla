-------------------------- MODULE FileLifecycleProofs --------------------------
(***************************************************************************)
(* Proofs about FileLifecycle, for any set of concurrent calls.  Every      *)
(* status is written without a condition, so what protects the file is what *)
(* a call at a given stage knows about the phase the file is in: a phase    *)
(* other than "new" and "visible" is never left.                            *)
(***************************************************************************)
EXTENDS FileLifecycle, Integers, TLAPS

\* What upload and delete_file write down when they fail.
UploadOutcomes ==
    { [status |-> "upload_failed", reason |-> "provider_write_failed"],
      [status |-> "upload_failed", reason |-> "metadata_commit_failed"],
      [status |-> "cleanup_required", reason |-> "cleanup_failed"] }
DeleteOutcomes ==
    { [status |-> "cleanup_required", reason |-> "provider_delete_failed"],
      [status |-> "cleanup_required", reason |-> "metadata_delete_commit_failed"] }

\* Calls that are uploads; deletions whose row is marked; and clean-ups.
Uploads(c) ==
    \/ stage[c] \in {"put", "publish", "undo"}
    \/ stage[c] = "record" /\ outcome[c] \in UploadOutcomes
Removes(c) ==
    \/ stage[c] \in {"delete", "finish"}
    \/ stage[c] = "record" /\ outcome[c] \in DeleteOutcomes
Cleans(c, s) == stage[c] \in {"clean", "close"} /\ outcome[c].status = s

\* What a call is about to write is one of the writes of the code.
OutcomesFit == \A c \in Calls :
    /\ stage[c] = "undo" => outcome[c] \in UploadOutcomes
    /\ stage[c] = "record" => outcome[c] \in UploadOutcomes \cup DeleteOutcomes
    /\ stage[c] \in {"clean", "close"} => outcome[c].status \in {"upload_failed", "deleted"}

\* The one upload finds its row as it created it.
OneUpload == \A c, d \in Calls :
    Uploads(c) =>
        /\ status = "pending_upload"
        /\ Uploads(d) => c = d

\* What every other call knows about the phase from the row it has read.
PhaseKnown == \A c \in Calls :
    /\ stage[c] \in {"mark", "open"} => status = "ready" \/ Withdrawn
    /\ Removes(c) \/ stage[c] = "missing" => Withdrawn
    /\ Cleans(c, "deleted") => Withdrawn
    /\ Cleans(c, "upload_failed") => Failed

\* Where the object is known to be present, and where it is known to be absent.
VisibleHasObject ==
    /\ status = "ready" => object
    /\ \A c \in Calls : stage[c] = "publish" => object
GoneWhenDeleted == \A c \in Calls :
    \/ stage[c] \in {"finish", "close"}
    \/ stage[c] = "record" /\ outcome[c].status = "upload_failed"
    => ~object

IInv ==
    /\ TypeOK
    /\ OutcomesFit
    /\ OneUpload
    /\ PhaseKnown
    /\ VisibleHasObject
    /\ GoneWhenDeleted
    /\ FinalHasNoObject

\* While no call dies, a transitional status has a call at work on it.
Attended ==
    /\ status = "absent" => ~object
    /\ status = "pending_upload" => \E c \in Calls : Uploads(c)
    /\ status = "deleting" => \E c \in Calls : Removes(c)
    /\ status = "cleanup_required" => reason \in UploadCleanup \cup DeleteCleanup
-----------------------------------------------------------------------------
LEMMA InitIInv == Init => IInv
  <1> SUFFICES ASSUME Init PROVE IInv
    OBVIOUS
  <1>1. TypeOK
    BY DEF Init, TypeOK, FileStatus, Reasons, Stages, Outcomes, NoOutcome
  <1>2. OutcomesFit /\ OneUpload /\ PhaseKnown /\ GoneWhenDeleted
    BY DEF Init, OutcomesFit, OneUpload, PhaseKnown, GoneWhenDeleted, Uploads, Removes, Cleans
  <1>3. VisibleHasObject /\ FinalHasNoObject
    BY DEF Init, VisibleHasObject, FinalHasNoObject
  <1> QED
    BY <1>1, <1>2, <1>3 DEF IInv

\* Each action, for one call: what it knows before is what the others keep.
LEMMA StepIInv == IInv /\ [Next]_vars => IInv'
  <1> SUFFICES ASSUME IInv, [Next]_vars PROVE IInv'
    OBVIOUS
  <1> USE DEF IInv, TypeOK, OutcomesFit, OneUpload, PhaseKnown, VisibleHasObject,
          GoneWhenDeleted, FinalHasNoObject, FileStatus, Reasons, UploadReasons, UploadCleanup,
          DeleteCleanup, Stages, Outcomes, NoOutcome, UploadOutcomes, DeleteOutcomes,
          Uploads, Removes, Cleans, Failed, Withdrawn, row, vars, Goto, Intends, Ends, MayRemove
  <1>1. ASSUME NEW c \in Calls, BeginUpload(c) PROVE IInv'
    BY <1>1 DEF BeginUpload
  <1>2. ASSUME NEW c \in Calls, Put(c) PROVE IInv'
    BY <1>2 DEF Put
  <1>3. ASSUME NEW c \in Calls, PutFails(c) PROVE IInv'
    <2>1. TypeOK'
      BY <1>3 DEF PutFails
    <2>2. OutcomesFit'
      BY <1>3 DEF PutFails
    <2>3. OneUpload'
      BY <1>3 DEF PutFails
    <2>4. PhaseKnown'
      BY <1>3 DEF PutFails
    <2>5. VisibleHasObject'
      BY <1>3 DEF PutFails
    <2>6. GoneWhenDeleted'
      BY <1>3 DEF PutFails
    <2>7. FinalHasNoObject'
      BY <1>3 DEF PutFails
    <2> QED BY <2>1, <2>2, <2>3, <2>4, <2>5, <2>6, <2>7
  <1>4. ASSUME NEW c \in Calls, Publish(c) PROVE IInv'
    BY <1>4 DEF Publish
  <1>5. ASSUME NEW c \in Calls, PublishFails(c) PROVE IInv'
    BY <1>5 DEF PublishFails
  <1>6. ASSUME NEW c \in Calls, Undo(c) PROVE IInv'
    <2>1. TypeOK'
      BY <1>6 DEF Undo
    <2>2. OutcomesFit'
      BY <1>6 DEF Undo
    <2>3. OneUpload'
      BY <1>6 DEF Undo
    <2>4. PhaseKnown'
      BY <1>6 DEF Undo
    <2>5. VisibleHasObject'
      BY <1>6 DEF Undo
    <2>6. GoneWhenDeleted'
      BY <1>6 DEF Undo
    <2>7. FinalHasNoObject'
      BY <1>6 DEF Undo
    <2> QED BY <2>1, <2>2, <2>3, <2>4, <2>5, <2>6, <2>7
  <1>7. ASSUME NEW c \in Calls, UndoFails(c) PROVE IInv'
    <2>1. TypeOK'
      BY <1>7 DEF UndoFails
    <2>2. OutcomesFit'
      BY <1>7 DEF UndoFails
    <2>3. OneUpload'
      BY <1>7 DEF UndoFails
    <2>4. PhaseKnown'
      BY <1>7 DEF UndoFails
    <2>5. VisibleHasObject'
      BY <1>7 DEF UndoFails
    <2>6. GoneWhenDeleted'
      BY <1>7 DEF UndoFails
    <2>7. FinalHasNoObject'
      BY <1>7 DEF UndoFails
    <2> QED BY <2>1, <2>2, <2>3, <2>4, <2>5, <2>6, <2>7
  <1>8. ASSUME NEW c \in Calls, BeginDelete(c) PROVE IInv'
    BY <1>8 DEF BeginDelete
  <1>9. ASSUME NEW c \in Calls, MarkDeleting(c) PROVE IInv'
    BY <1>9 DEF MarkDeleting
  <1>10. ASSUME NEW c \in Calls, DeleteObject(c) PROVE IInv'
    BY <1>10, ZenonT(40) DEF DeleteObject
  <1>11. ASSUME NEW c \in Calls, DeleteObjectFails(c) PROVE IInv'
    <2>1. TypeOK'
      BY <1>11 DEF DeleteObjectFails
    <2>2. OutcomesFit'
      BY <1>11 DEF DeleteObjectFails
    <2>3. OneUpload'
      BY <1>11 DEF DeleteObjectFails
    <2>4. PhaseKnown'
      BY <1>11 DEF DeleteObjectFails
    <2>5. VisibleHasObject'
      BY <1>11 DEF DeleteObjectFails
    <2>6. GoneWhenDeleted'
      BY <1>11 DEF DeleteObjectFails
    <2>7. FinalHasNoObject'
      BY <1>11 DEF DeleteObjectFails
    <2> QED BY <2>1, <2>2, <2>3, <2>4, <2>5, <2>6, <2>7
  <1>12. ASSUME NEW c \in Calls, FinishDelete(c) PROVE IInv'
    BY <1>12 DEF FinishDelete
  <1>13. ASSUME NEW c \in Calls, FinishDeleteFails(c) PROVE IInv'
    BY <1>13 DEF FinishDeleteFails
  <1>14. ASSUME NEW c \in Calls, Record(c) PROVE IInv'
    BY <1>14 DEF Record
  <1>15. ASSUME NEW c \in Calls, BeginDownload(c) PROVE IInv'
    BY <1>15 DEF BeginDownload
  <1>16. ASSUME NEW c \in Calls, Open(c) PROVE IInv'
    BY <1>16 DEF Open
  <1>17. ASSUME NEW c \in Calls, OpenMissing(c) PROVE IInv'
    BY <1>17 DEF OpenMissing
  <1>18. ASSUME NEW c \in Calls, MarkMissing(c) PROVE IInv'
    BY <1>18 DEF MarkMissing
  <1>19. ASSUME NEW c \in Calls, BeginCleanup(c) PROVE IInv'
    BY <1>19 DEF BeginCleanup
  <1>20. ASSUME NEW c \in Calls, Clean(c) PROVE IInv'
    BY <1>20, ZenonT(40) DEF Clean
  <1>21. ASSUME NEW c \in Calls, CleanFails(c) PROVE IInv'
    <2>1. TypeOK'
      BY <1>21 DEF CleanFails
    <2>2. OutcomesFit'
      BY <1>21 DEF CleanFails
    <2>3. OneUpload'
      BY <1>21 DEF CleanFails
    <2>4. PhaseKnown'
      BY <1>21 DEF CleanFails
    <2>5. VisibleHasObject'
      BY <1>21 DEF CleanFails
    <2>6. GoneWhenDeleted'
      BY <1>21 DEF CleanFails
    <2>7. FinalHasNoObject'
      BY <1>21 DEF CleanFails
    <2> QED BY <2>1, <2>2, <2>3, <2>4, <2>5, <2>6, <2>7
  <1>22. ASSUME NEW c \in Calls, CloseCleanup(c) PROVE IInv'
    BY <1>22 DEF CloseCleanup
  <1>23. ASSUME NEW c \in Calls, Vanish(c) PROVE IInv'
    BY <1>23 DEF Vanish
  <1>24. ASSUME NEW c \in Calls, PublishRefused(c) PROVE IInv'
    BY <1>24 DEF PublishRefused
  <1>25. CASE UNCHANGED vars
    BY <1>25
  <1> QED
    BY <1>1, <1>2, <1>3, <1>4, <1>5, <1>6, <1>7, <1>8, <1>9, <1>10, <1>11, <1>12,
       <1>13, <1>14, <1>15, <1>16, <1>17, <1>18, <1>19, <1>20, <1>21, <1>22, <1>23, <1>24, <1>25
    DEF Next, NextRefused, NextUndisturbed, Starts, Proceeds
\* TypeOK holds for any number of calls.
THEOREM TypeCorrect == Spec => []TypeOK
  <1>1. IInv => TypeOK
    BY DEF IInv
  <1> QED
    BY <1>1, InitIInv, StepIInv, PTL DEF Spec

\* FinalHasNoObject: whatever failed, died or ran at the same time, upload_failed
\* and deleted leave nothing in the store.
THEOREM FinalCorrect == Spec => []FinalHasNoObject
  <1>1. IInv => FinalHasNoObject
    BY DEF IInv
  <1> QED
    BY <1>1, InitIInv, StepIInv, PTL DEF Spec

-----------------------------------------------------------------------------
(* Refinement *)

LEMMA InitRefines == Init => Publication!Init
  BY DEF Init, Publication!Init, Phase, Failed, Withdrawn

LEMMA StepRefines == IInv /\ [Next]_vars => [Publication!Next]_(Publication!vars)
  <1> SUFFICES ASSUME IInv, [Next]_vars
               PROVE  Publication!Next \/ UNCHANGED <<Phase, object>>
    BY DEF Publication!vars
  <1> USE DEF IInv, TypeOK, OutcomesFit, OneUpload, PhaseKnown, VisibleHasObject,
          GoneWhenDeleted, FinalHasNoObject, FileStatus, UploadCleanup, UploadOutcomes,
          DeleteOutcomes, Uploads, Removes, Cleans, Phase, Failed, Withdrawn, row, vars,
          Intends, Ends, MayRemove, Publication!Next, Publication!Store,
          Publication!Publish, Publication!Fail, Publication!Withdraw, Publication!Remove
  <1>1. ASSUME NEW c \in Calls, BeginUpload(c)
          PROVE  Publication!Next \/ UNCHANGED <<Phase, object>>
    BY <1>1 DEF BeginUpload
  <1>2. ASSUME NEW c \in Calls, Put(c)
          PROVE  Publication!Next \/ UNCHANGED <<Phase, object>>
    BY <1>2 DEF Put
  <1>3. ASSUME NEW c \in Calls, PutFails(c)
          PROVE  Publication!Next \/ UNCHANGED <<Phase, object>>
    BY <1>3 DEF PutFails
  <1>4. ASSUME NEW c \in Calls, Publish(c)
          PROVE  Publication!Next \/ UNCHANGED <<Phase, object>>
    BY <1>4 DEF Publish
  <1>5. ASSUME NEW c \in Calls, PublishFails(c)
          PROVE  Publication!Next \/ UNCHANGED <<Phase, object>>
    BY <1>5 DEF PublishFails
  <1>6. ASSUME NEW c \in Calls, Undo(c)
          PROVE  Publication!Next \/ UNCHANGED <<Phase, object>>
    BY <1>6 DEF Undo
  <1>7. ASSUME NEW c \in Calls, UndoFails(c)
          PROVE  Publication!Next \/ UNCHANGED <<Phase, object>>
    BY <1>7 DEF UndoFails
  <1>8. ASSUME NEW c \in Calls, BeginDelete(c)
          PROVE  Publication!Next \/ UNCHANGED <<Phase, object>>
    BY <1>8 DEF BeginDelete
  <1>9. ASSUME NEW c \in Calls, MarkDeleting(c)
          PROVE  Publication!Next \/ UNCHANGED <<Phase, object>>
    BY <1>9 DEF MarkDeleting
  <1>10. ASSUME NEW c \in Calls, DeleteObject(c)
          PROVE  Publication!Next \/ UNCHANGED <<Phase, object>>
    BY <1>10 DEF DeleteObject
  <1>11. ASSUME NEW c \in Calls, DeleteObjectFails(c)
          PROVE  Publication!Next \/ UNCHANGED <<Phase, object>>
    BY <1>11 DEF DeleteObjectFails
  <1>12. ASSUME NEW c \in Calls, FinishDelete(c)
          PROVE  Publication!Next \/ UNCHANGED <<Phase, object>>
    BY <1>12 DEF FinishDelete
  <1>13. ASSUME NEW c \in Calls, FinishDeleteFails(c)
          PROVE  Publication!Next \/ UNCHANGED <<Phase, object>>
    BY <1>13 DEF FinishDeleteFails
  <1>14. ASSUME NEW c \in Calls, Record(c)
          PROVE  Publication!Next \/ UNCHANGED <<Phase, object>>
    BY <1>14 DEF Record
  <1>15. ASSUME NEW c \in Calls, BeginDownload(c)
          PROVE  Publication!Next \/ UNCHANGED <<Phase, object>>
    BY <1>15 DEF BeginDownload
  <1>16. ASSUME NEW c \in Calls, Open(c)
          PROVE  Publication!Next \/ UNCHANGED <<Phase, object>>
    BY <1>16 DEF Open
  <1>17. ASSUME NEW c \in Calls, OpenMissing(c)
          PROVE  Publication!Next \/ UNCHANGED <<Phase, object>>
    BY <1>17 DEF OpenMissing
  <1>18. ASSUME NEW c \in Calls, MarkMissing(c)
          PROVE  Publication!Next \/ UNCHANGED <<Phase, object>>
    BY <1>18 DEF MarkMissing
  <1>19. ASSUME NEW c \in Calls, BeginCleanup(c)
          PROVE  Publication!Next \/ UNCHANGED <<Phase, object>>
    BY <1>19 DEF BeginCleanup
  <1>20. ASSUME NEW c \in Calls, Clean(c)
          PROVE  Publication!Next \/ UNCHANGED <<Phase, object>>
    BY <1>20 DEF Clean
  <1>21. ASSUME NEW c \in Calls, CleanFails(c)
          PROVE  Publication!Next \/ UNCHANGED <<Phase, object>>
    BY <1>21 DEF CleanFails
  <1>22. ASSUME NEW c \in Calls, CloseCleanup(c)
          PROVE  Publication!Next \/ UNCHANGED <<Phase, object>>
    BY <1>22 DEF CloseCleanup
  <1>23. ASSUME NEW c \in Calls, Vanish(c)
          PROVE  Publication!Next \/ UNCHANGED <<Phase, object>>
    BY <1>23 DEF Vanish
  <1>24. ASSUME NEW c \in Calls, PublishRefused(c)
          PROVE  Publication!Next \/ UNCHANGED <<Phase, object>>
    BY <1>24 DEF PublishRefused
  <1>25. CASE UNCHANGED vars
    BY <1>25
  <1> QED
    BY <1>1, <1>2, <1>3, <1>4, <1>5, <1>6, <1>7, <1>8, <1>9, <1>10, <1>11, <1>12,
       <1>13, <1>14, <1>15, <1>16, <1>17, <1>18, <1>19, <1>20, <1>21, <1>22, <1>23, <1>24, <1>25
    DEF Next, NextRefused, NextUndisturbed, Starts, Proceeds

\* The service implements FilePublication, for any number of calls: a file is
\* visible only while it is stored, and once withdrawn it never comes back.
THEOREM Refinement == Spec => PublicationSpec
  <1> QED
    BY InitIInv, StepIInv, InitRefines, StepRefines, PTL
    DEF Spec, PublicationSpec, Publication!Spec

-----------------------------------------------------------------------------
(* What is left behind when no call dies *)

LEMMA StepAttended == IInv /\ Attended /\ [NextUndisturbed]_vars => Attended'
  <1> SUFFICES ASSUME IInv, Attended, [NextUndisturbed]_vars PROVE Attended'
    OBVIOUS
  <1> USE DEF IInv, TypeOK, OutcomesFit, OneUpload, PhaseKnown,
          UploadCleanup, DeleteCleanup, UploadOutcomes, DeleteOutcomes,
          Attended, Uploads, Removes, Cleans, Failed, Withdrawn, row, vars,
          Goto, Intends, Ends, MayRemove
  <1>1. ASSUME NEW c \in Calls, BeginUpload(c) PROVE Attended'
    BY <1>1 DEF BeginUpload
  <1>2. ASSUME NEW c \in Calls, Put(c) PROVE Attended'
    BY <1>2 DEF Put
  <1>3. ASSUME NEW c \in Calls, PutFails(c) PROVE Attended'
    BY <1>3 DEF PutFails
  <1>4. ASSUME NEW c \in Calls, Publish(c) PROVE Attended'
    BY <1>4 DEF Publish
  <1>5. ASSUME NEW c \in Calls, PublishFails(c) PROVE Attended'
    BY <1>5 DEF PublishFails
  <1>6. ASSUME NEW c \in Calls, Undo(c) PROVE Attended'
    BY <1>6 DEF Undo
  <1>7. ASSUME NEW c \in Calls, UndoFails(c) PROVE Attended'
    BY <1>7 DEF UndoFails
  <1>8. ASSUME NEW c \in Calls, BeginDelete(c) PROVE Attended'
    BY <1>8 DEF BeginDelete
  <1>9. ASSUME NEW c \in Calls, MarkDeleting(c) PROVE Attended'
    BY <1>9 DEF MarkDeleting
  <1>10. ASSUME NEW c \in Calls, DeleteObject(c) PROVE Attended'
    BY <1>10 DEF DeleteObject
  <1>11. ASSUME NEW c \in Calls, DeleteObjectFails(c) PROVE Attended'
    BY <1>11 DEF DeleteObjectFails
  <1>12. ASSUME NEW c \in Calls, FinishDelete(c) PROVE Attended'
    BY <1>12 DEF FinishDelete
  <1>13. ASSUME NEW c \in Calls, FinishDeleteFails(c) PROVE Attended'
    BY <1>13 DEF FinishDeleteFails
  <1>14. ASSUME NEW c \in Calls, Record(c) PROVE Attended'
    BY <1>14 DEF Record
  <1>15. ASSUME NEW c \in Calls, BeginDownload(c) PROVE Attended'
    BY <1>15 DEF BeginDownload
  <1>16. ASSUME NEW c \in Calls, Open(c) PROVE Attended'
    BY <1>16 DEF Open
  <1>17. ASSUME NEW c \in Calls, OpenMissing(c) PROVE Attended'
    BY <1>17 DEF OpenMissing
  <1>18. ASSUME NEW c \in Calls, MarkMissing(c) PROVE Attended'
    BY <1>18 DEF MarkMissing
  <1>19. ASSUME NEW c \in Calls, BeginCleanup(c) PROVE Attended'
    BY <1>19 DEF BeginCleanup
  <1>20. ASSUME NEW c \in Calls, Clean(c) PROVE Attended'
    BY <1>20 DEF Clean
  <1>21. ASSUME NEW c \in Calls, CleanFails(c) PROVE Attended'
    BY <1>21 DEF CleanFails
  <1>22. ASSUME NEW c \in Calls, CloseCleanup(c) PROVE Attended'
    BY <1>22 DEF CloseCleanup
  <1>23. CASE UNCHANGED vars
    BY <1>23
  <1> QED
    BY <1>1, <1>2, <1>3, <1>4, <1>5, <1>6, <1>7, <1>8, <1>9, <1>10, <1>11, <1>12,
       <1>13, <1>14, <1>15, <1>16, <1>17, <1>18, <1>19, <1>20, <1>21, <1>22, <1>23
    DEF NextUndisturbed, Starts, Proceeds

\* NothingLeftBehind, for any number of calls none of which dies or is refused an
\* UPDATE: an object that no call is at work on belongs to a visible file or to
\* one cleanup_file can close.
THEOREM NothingLeft == UndisturbedSpec => []NothingLeftBehind
  <1>1. Init => Attended
    BY DEF Init, Attended
  <1>2. [NextUndisturbed]_vars => [Next]_vars
    BY DEF Next, NextRefused
  <1>3. IInv /\ Attended => NothingLeftBehind
    BY DEF IInv, TypeOK, FileStatus, FinalHasNoObject, Attended, Uploads, Removes,
       NothingLeftBehind
  <1> QED
    BY <1>1, <1>2, <1>3, InitIInv, StepIInv, StepAttended, PTL DEF UndisturbedSpec

-----------------------------------------------------------------------------
(* What is behind TransitionsSettle *)

\* The calls that will take the row out of its transitional status.
Attending(c) ==
    \/ stage[c] \in {"put", "publish", "undo", "delete", "finish"}
    \/ stage[c] = "record" /\ outcome[c].status \notin {"pending_upload", "deleting"}

\* The steps a call has left, at most.
StepsLeft(c) ==
    CASE stage[c] = "idle" -> 0
      [] stage[c] \in {"record", "missing", "close"} -> 1
      [] stage[c] \in {"undo", "finish", "open", "clean"} -> 2
      [] stage[c] \in {"publish", "delete"} -> 3
      [] stage[c] \in {"put", "mark"} -> 4

\* Every step of a call leaves it fewer of them, and the other calls theirs.
CallsAdvance ==
    \A c \in Calls : Proceeds(c) \/ PublishRefused(c) \/ Vanish(c) =>
        /\ StepsLeft(c)' < StepsLeft(c)
        /\ \A d \in Calls \ {c} : StepsLeft(d)' = StepsLeft(d)

LEMMA StepAdvances == TypeOK => CallsAdvance
  <1> SUFFICES ASSUME TypeOK, NEW c \in Calls, Proceeds(c) \/ PublishRefused(c) \/ Vanish(c)
               PROVE  /\ StepsLeft(c)' < StepsLeft(c)
                      /\ \A d \in Calls \ {c} : StepsLeft(d)' = StepsLeft(d)
    BY DEF CallsAdvance
  <1>1. stage \in [Calls -> Stages]
    BY DEF TypeOK
  <1>2. \/ stage[c] = "put" /\ stage' = [stage EXCEPT ![c] = "publish"]
        \/ stage[c] \in {"put", "publish"} /\ stage' = [stage EXCEPT ![c] = "undo"]
        \/ stage[c] = "mark" /\ stage' = [stage EXCEPT ![c] = "delete"]
        \/ stage[c] = "delete" /\ stage' = [stage EXCEPT ![c] = "finish"]
        \/ stage[c] \in {"undo", "delete", "finish"} /\ stage' = [stage EXCEPT ![c] = "record"]
        \/ stage[c] = "open" /\ stage' = [stage EXCEPT ![c] = "missing"]
        \/ stage[c] = "clean" /\ stage' = [stage EXCEPT ![c] = "close"]
        \/ stage[c] # "idle" /\ stage' = [stage EXCEPT ![c] = "idle"]
    BY DEF Proceeds, PublishRefused, Vanish, Goto, Ends, Put, PutFails, Publish, PublishFails,
       Undo, UndoFails, MarkDeleting, DeleteObject, DeleteObjectFails, FinishDelete,
       FinishDeleteFails, Record, Open, OpenMissing, MarkMissing, Clean, CleanFails, CloseCleanup
  <1>3. StepsLeft(c)' < StepsLeft(c)
    BY <1>1, <1>2 DEF StepsLeft, Stages
  <1>4. ASSUME NEW d \in Calls \ {c} PROVE StepsLeft(d)' = StepsLeft(d)
    <2>1. stage'[d] = stage[d]
      BY <1>1, <1>2
    <2> QED BY <2>1 DEF StepsLeft
  <1> QED
    BY <1>3, <1>4

\* While no call dies or is refused an UPDATE, a row in pending_upload or deleting
\* has a call at work that will write another status, whatever the other calls
\* write over it: what TransitionsSettle needs beside fairness.
THEOREM TransitionsAttended ==
    UndisturbedSpec =>
        [](status \in {"pending_upload", "deleting"} => \E c \in Calls : Attending(c))
  <1>1. Init => Attended
    BY DEF Init, Attended
  <1>2. [NextUndisturbed]_vars => [Next]_vars
    BY DEF Next, NextRefused
  <1>3. IInv /\ Attended =>
          (status \in {"pending_upload", "deleting"} => \E c \in Calls : Attending(c))
    BY DEF Attended, Attending, Uploads, Removes, UploadOutcomes, DeleteOutcomes
  <1> QED
    BY <1>1, <1>2, <1>3, InitIInv, StepIInv, StepAttended, PTL DEF UndisturbedSpec

\* However requests interleave, each ends: it has at most four steps after its
\* first, and no step of another request gives it more.
THEOREM CallsEnd ==
    Spec => /\ [](\A c \in Calls : StepsLeft(c) \in 0..4)
            /\ [][CallsAdvance]_vars
  <1>1. IInv => TypeOK
    BY DEF IInv
  <1>2. TypeOK => \A c \in Calls : StepsLeft(c) \in 0..4
    BY DEF TypeOK, StepsLeft, Stages
  <1> QED
    BY <1>1, <1>2, StepAdvances, InitIInv, StepIInv, PTL DEF Spec
================================================================================
