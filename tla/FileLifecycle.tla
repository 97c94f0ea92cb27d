----------------------------- MODULE FileLifecycle -----------------------------
(***************************************************************************)
(* The life of ONE file: FileService (upload, delete_file, download_file,  *)
(* cleanup_file) over its FileResource row in MySQL and its object in the  *)
(* store, which have no common transaction.                                *)
(*                                                                         *)
(* A call's steps are cut at each commit and at each call of the storage   *)
(* provider.  update_status is an UPDATE of the row by its id: it tests    *)
(* nothing, and the ORM writes the columns whose value differs from what   *)
(* the call has loaded, or all of them when a commit or a rollback has     *)
(* expired the object in between.  deleted_at is left out: it is set       *)
(* together with "deleted", and a ready row has none.                      *)
(***************************************************************************)

CONSTANT Calls      \* concurrent invocations of the service

FileStatus == {"absent", "pending_upload", "ready", "upload_failed",
               "deleting", "deleted", "cleanup_required"}

UploadReasons == {"provider_write_failed", "metadata_commit_failed"}
UploadCleanup == {"cleanup_failed"}
DeleteCleanup == {"provider_delete_failed", "metadata_delete_commit_failed",
                  "storage_object_missing"}
Reasons       == {"none"} \cup UploadReasons \cup UploadCleanup \cup DeleteCleanup

\* Where a call is: an upload in "put", "publish", "undo"; a deletion in
\* "mark", "delete", "finish"; either in "record", about to write its failure;
\* a download in "open", "missing"; a clean-up in "clean", "close".
Stages == {"idle", "put", "publish", "undo", "mark", "delete", "finish",
           "record", "open", "missing", "clean", "close"}

VARIABLES
    status,     \* FileResource.status, "absent" before the row exists
    reason,     \* FileResource.failure_reason
    object,     \* the store has an object under the file's key
    stage,      \* where each call is
    outcome     \* the status and the reason a call is about to write

row  == <<status, reason>>
vars == <<row, object, stage, outcome>>

Outcomes == [status: FileStatus, reason: Reasons]
NoOutcome == [status |-> "absent", reason |-> "none"]

TypeOK ==
    /\ status \in FileStatus
    /\ reason \in Reasons
    /\ object \in BOOLEAN
    /\ stage \in [Calls -> Stages]
    /\ outcome \in [Calls -> Outcomes]

Init ==
    /\ status = "absent"
    /\ reason = "none"
    /\ object = FALSE
    /\ stage = [c \in Calls |-> "idle"]
    /\ outcome = [c \in Calls |-> NoOutcome]

-----------------------------------------------------------------------------
(* Helpers *)

Goto(c, s) == stage' = [stage EXCEPT ![c] = s]

Intends(c, s, why) == outcome' = [outcome EXCEPT ![c] = [status |-> s, reason |-> why]]

Ends(c) ==
    /\ Goto(c, "idle")
    /\ outcome' = [outcome EXCEPT ![c] = NoOutcome]

\* A delete that fails may have removed the object all the same.
MayRemove == object' \in {object, FALSE}

-----------------------------------------------------------------------------
(* upload *)

\* The pending row is committed before the object is written.
BeginUpload(c) ==
    /\ stage[c] = "idle"
    /\ status = "absent"
    /\ status' = "pending_upload"
    /\ Goto(c, "put")
    /\ UNCHANGED <<reason, object, outcome>>

Put(c) ==
    /\ stage[c] = "put"
    /\ object' = TRUE
    /\ Goto(c, "publish")
    /\ UNCHANGED <<row, outcome>>

\* An error of the provider does not tell whether the object was written.
PutFails(c) ==
    /\ stage[c] = "put"
    /\ object' \in {object, TRUE}
    /\ Intends(c, "upload_failed", "provider_write_failed")
    /\ Goto(c, "undo")
    /\ UNCHANGED row

Publish(c) ==
    /\ stage[c] = "publish"
    /\ status' = "ready"
    /\ reason' = "none"
    /\ Ends(c)
    /\ UNCHANGED object

\* The UPDATE itself is refused: update_status flushes before the try, so
\* nothing compensates.
PublishRefused(c) ==
    /\ stage[c] = "publish"
    /\ Ends(c)
    /\ UNCHANGED <<row, object>>

\* The commit of the ready row is refused and rolled back.
PublishFails(c) ==
    /\ stage[c] = "publish"
    /\ Intends(c, "upload_failed", "metadata_commit_failed")
    /\ Goto(c, "undo")
    /\ UNCHANGED <<row, object>>

\* The compensating delete of both failures.
Undo(c) ==
    /\ stage[c] = "undo"
    /\ object' = FALSE
    /\ Goto(c, "record")
    /\ UNCHANGED <<row, outcome>>

\* Mutant: the failed compensation is taken for done.
UndoFailsUnnoticed(c) ==
    /\ stage[c] = "undo"
    /\ MayRemove
    /\ Goto(c, "record")
    /\ UNCHANGED <<row, outcome>>

\* StorageOperationError of the compensating delete itself.
UndoFails(c) ==
    /\ stage[c] = "undo"
    /\ MayRemove
    /\ Intends(c, "cleanup_required", "cleanup_failed")
    /\ Goto(c, "record")
    /\ UNCHANGED row

-----------------------------------------------------------------------------
(* delete_file *)

BeginDelete(c) ==
    /\ stage[c] = "idle"
    /\ status = "ready"
    /\ Goto(c, "mark")
    /\ UNCHANGED <<row, object, outcome>>

\* Mutant: the object is deleted before the row is marked.
MarkDeletingAfterwards(c) ==
    /\ stage[c] = "mark"
    /\ object' = FALSE
    /\ Goto(c, "delete")
    /\ UNCHANGED <<row, outcome>>

\* The row was loaded as ready without a reason: only the status is written.
MarkDeleting(c) ==
    /\ stage[c] = "mark"
    /\ status' = "deleting"
    /\ Goto(c, "delete")
    /\ UNCHANGED <<reason, object, outcome>>

DeleteObject(c) ==
    /\ stage[c] = "delete"
    /\ object' = FALSE
    /\ Goto(c, "finish")
    /\ UNCHANGED <<row, outcome>>

\* StorageOperationError: the object may be gone or not.
DeleteObjectFails(c) ==
    /\ stage[c] = "delete"
    /\ MayRemove
    /\ Intends(c, "cleanup_required", "provider_delete_failed")
    /\ Goto(c, "record")
    /\ UNCHANGED row

FinishDelete(c) ==
    /\ stage[c] = "finish"
    /\ status' = "deleted"
    /\ reason' = "none"
    /\ Ends(c)
    /\ UNCHANGED object

\* Mutant: the refused commit is raised without a compensating write.
FinishDeleteFailsUnrecorded(c) ==
    /\ stage[c] = "finish"
    /\ Ends(c)
    /\ UNCHANGED <<row, object>>

FinishDeleteFails(c) ==
    /\ stage[c] = "finish"
    /\ Intends(c, "cleanup_required", "metadata_delete_commit_failed")
    /\ Goto(c, "record")
    /\ UNCHANGED <<row, object>>

\* Mutants: the reason is forgotten, or written in the place of the status.
RecordWithoutReason(c) ==
    /\ stage[c] = "record"
    /\ status' = outcome[c].status
    /\ Ends(c)
    /\ UNCHANGED <<reason, object>>

RecordSwapped(c) ==
    /\ stage[c] = "record"
    /\ status' = outcome[c].reason
    /\ reason' = outcome[c].status
    /\ Ends(c)
    /\ UNCHANGED object

\* The failed upload or deletion is written down.
Record(c) ==
    /\ stage[c] = "record"
    /\ status' = outcome[c].status
    /\ reason' = outcome[c].reason
    /\ Ends(c)
    /\ UNCHANGED object

-----------------------------------------------------------------------------
(* download_file *)

BeginDownload(c) ==
    /\ stage[c] = "idle"
    /\ status = "ready"
    /\ Goto(c, "open")
    /\ UNCHANGED <<row, object, outcome>>

\* The stream is returned, or the provider fails otherwise.
Open(c) ==
    /\ stage[c] = "open"
    /\ Ends(c)
    /\ UNCHANGED <<row, object>>

OpenMissing(c) ==
    /\ stage[c] = "open"
    /\ ~object
    /\ Goto(c, "missing")
    /\ UNCHANGED <<row, object, outcome>>

\* A file read as ready has no object: it is handed to the clean-up.
MarkMissing(c) ==
    /\ stage[c] = "missing"
    /\ status' = "cleanup_required"
    /\ reason' = "storage_object_missing"
    /\ Ends(c)
    /\ UNCHANGED object

-----------------------------------------------------------------------------
(* cleanup_file *)

\* The reason read here decides the final status.
BeginCleanup(c) ==
    /\ stage[c] = "idle"
    /\ status = "cleanup_required"
    /\ \/ reason \in UploadCleanup /\ Intends(c, "upload_failed", reason)
       \/ reason \in DeleteCleanup /\ Intends(c, "deleted", reason)
    /\ Goto(c, "clean")
    /\ UNCHANGED <<row, object>>

Clean(c) ==
    /\ stage[c] = "clean"
    /\ object' = FALSE
    /\ Goto(c, "close")
    /\ UNCHANGED <<row, outcome>>

CleanFails(c) ==
    /\ stage[c] = "clean"
    /\ MayRemove
    /\ Ends(c)
    /\ UNCHANGED row

\* The reason is written back as it was loaded, that is, not at all.
CloseCleanup(c) ==
    /\ stage[c] = "close"
    /\ status' = outcome[c].status
    /\ Ends(c)
    /\ UNCHANGED <<reason, object>>

-----------------------------------------------------------------------------
\* The process dies, or the database refuses another write that has no
\* compensation: its transaction is rolled back and nothing else is undone.
Vanish(c) ==
    /\ stage[c] # "idle"
    /\ Ends(c)
    /\ UNCHANGED <<row, object>>

Starts(c) ==
    BeginUpload(c) \/ BeginDelete(c) \/ BeginDownload(c) \/ BeginCleanup(c)

Proceeds(c) ==
    \/ Put(c) \/ PutFails(c) \/ Publish(c) \/ PublishFails(c)
    \/ Undo(c) \/ UndoFails(c)
    \/ MarkDeleting(c) \/ DeleteObject(c) \/ DeleteObjectFails(c)
    \/ FinishDelete(c) \/ FinishDeleteFails(c) \/ Record(c)
    \/ Open(c) \/ OpenMissing(c) \/ MarkMissing(c)
    \/ Clean(c) \/ CleanFails(c) \/ CloseCleanup(c)

NextUndisturbed == \E c \in Calls : Starts(c) \/ Proceeds(c)

NextRefused == NextUndisturbed \/ \E c \in Calls : PublishRefused(c)

Next == NextRefused \/ \E c \in Calls : Vanish(c)

Spec == Init /\ [][Next]_vars

\* No call is killed, what the database refuses it refuses at the commit, and a
\* failure can be written down.  A started call goes on: the provider's calls
\* return, and the request's thread runs.
UndisturbedSpec ==
    Init /\ [][NextUndisturbed]_vars /\ \A c \in Calls : WF_vars(Proceeds(c))

-----------------------------------------------------------------------------
(* Properties *)

\* upload_failed and deleted are final for the object too: whatever failed,
\* died or ran at the same time, nothing is left in the store.
FinalHasNoObject == status \in {"upload_failed", "deleted"} => ~object

\* ADR-0023: an object whose row could not be updated is deleted, or its file is
\* left to the clean-up.  When no call died and none is at work, a stored object
\* belongs to a file that is visible, or that cleanup_file takes and can close.
NothingLeftBehind ==
    object /\ (\A c \in Calls : stage[c] = "idle") =>
        \/ status = "ready"
        \/ status = "cleanup_required" /\ reason \in UploadCleanup \cup DeleteCleanup

\* The service implements FilePublication, although every status is written
\* without a condition.
Failed ==
    \/ status = "upload_failed"
    \/ status = "cleanup_required" /\ reason \in UploadCleanup
Withdrawn ==
    \/ status \in {"deleting", "deleted"}
    \/ status = "cleanup_required" /\ reason \notin UploadCleanup
Phase ==
    IF Withdrawn THEN "withdrawn"
    ELSE IF Failed THEN "failed"
    ELSE IF status = "ready" THEN "visible" ELSE "new"
Publication == INSTANCE FilePublication WITH phase <- Phase
PublicationSpec == Publication!Spec

\* An upload and a deletion come to an end: no row stays in a transitional
\* status, which neither the owner nor cleanup_file could take it out of.
TransitionsSettle ==
    status \in {"pending_upload", "deleting"} ~>
        status \notin {"pending_upload", "deleting"}
================================================================================
