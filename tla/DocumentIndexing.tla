--------------------------- MODULE DocumentIndexing ---------------------------
(***************************************************************************)
(* Indexing of the versions of ONE knowledge document: KnowledgeService    *)
(* (prepare_document_version, index_document_version,                      *)
(* retry_document_version), the compare-and-set updates of                 *)
(* KnowledgeRepository and the vectors kept in Qdrant.                     *)
(*                                                                         *)
(* A "call" is one invocation of the service, on its own database session  *)
(* and possibly in its own process.  A call's steps are cut where another  *)
(* call can interleave: at each commit or rollback and at each await.      *)
(*                                                                         *)
(* MySQL runs at its default isolation level (REPEATABLE READ: db/session  *)
(* creates the engine with no other), so a plain SELECT of an open         *)
(* transaction sees the snapshot taken by its first SELECT, while an       *)
(* UPDATE ... WHERE status = ... tests the current row.                    *)
(***************************************************************************)
EXTENDS Integers

CONSTANTS
    Calls,           \* concurrent invocations of the service
    Configs,         \* processing configurations; a configuration stands for
                     \* the fingerprint build_processing_fingerprint gives it
    NoConfig,        \* fingerprint of a version that does not exist
    MaxVersion,      \* bound on the versions of the document
    NumBatches,      \* vector_upsert_batch_size cuts a version into so many
    SerialRetries    \* TRUE: the operator never has two retries of a version
                     \* at work before its requeue (the code does not ensure it)

ASSUME ConfigsAssumption == NoConfig \notin Configs
ASSUME BoundsAssumption ==
    /\ MaxVersion \in Nat
    /\ NumBatches \in Nat \ {0}
    /\ SerialRetries \in BOOLEAN

Versions == 1..MaxVersion
Batches  == 1..NumBatches

VersionStatus ==
    {"absent", "pending", "processing", "indexed", "failed", "cleanup_required"}

\* Where a call is.  "claim" .. "mark_failed" are the stages of
\* index_document_version, "cleanup" and "requeue" those of a retry.
Stages == {"idle", "persist", "prepared", "cleanup", "requeue", "claim",
           "embed", "upsert", "compensate", "complete", "mark_failed"}

\* The stages of a call that has claimed its version and not let go of it.
Owning == {"embed", "upsert", "compensate", "complete", "mark_failed"}

\* A call's transaction: none, or open with a snapshot in which the source
\* file is READY or is not.
Snapshots == {"none", "ready", "gone"}

VARIABLES
    fileReady,    \* the document's FileResource is READY and not deleted
    status,       \* DocumentVersion.status, "absent" before the row exists
    fingerprint,  \* DocumentVersion.processing_fingerprint
    active,       \* KnowledgeDocument.active_version_id, 0 for NULL
    points,       \* the batches of a version that Qdrant holds
    stage,        \* where each call is
    ver,          \* the version number a call works on, 0 for none
    config,       \* the configuration a call prepares a version for
    sent,         \* batches a call has upserted
    verdict,      \* the failure status a call is about to record
    snapshot      \* a call's open transaction

table == <<status, fingerprint, active>>
vars  == <<fileReady, status, fingerprint, active, points,
           stage, ver, config, sent, verdict, snapshot>>

TypeOK ==
    /\ fileReady \in BOOLEAN
    /\ status \in [Versions -> VersionStatus]
    /\ fingerprint \in [Versions -> Configs \cup {NoConfig}]
    /\ active \in 0..MaxVersion
    /\ points \in [Versions -> SUBSET Batches]
    /\ stage \in [Calls -> Stages]
    /\ ver \in [Calls -> 0..MaxVersion]
    /\ config \in [Calls -> Configs \cup {NoConfig}]
    /\ sent \in [Calls -> 0..NumBatches]
    /\ verdict \in [Calls -> {"failed", "cleanup_required"}]
    /\ snapshot \in [Calls -> Snapshots]

Init ==
    /\ fileReady = TRUE
    /\ status = [v \in Versions |-> "absent"]
    /\ fingerprint = [v \in Versions |-> NoConfig]
    /\ active = 0
    /\ points = [v \in Versions |-> {}]
    /\ stage = [c \in Calls |-> "idle"]
    /\ ver = [c \in Calls |-> 0]
    /\ config = [c \in Calls |-> NoConfig]
    /\ sent = [c \in Calls |-> 0]
    /\ verdict = [c \in Calls |-> "failed"]
    /\ snapshot = [c \in Calls |-> "none"]

-----------------------------------------------------------------------------
(* Helpers *)

Exists(v) == status[v] # "absent"

\* get_next_version_number: n is the highest number in the table plus one.
IsNextNumber(n) ==
    /\ n \in Versions
    /\ n > 1 => Exists(n - 1)
    /\ \A v \in Versions : v >= n => ~Exists(v)

\* The snapshot a transaction opened now would have of the source file.
CurrentSnapshot == IF fileReady THEN "ready" ELSE "gone"

Goto(c, s) == stage' = [stage EXCEPT ![c] = s]
Opens(c, s) == snapshot' = [snapshot EXCEPT ![c] = s]

\* The call returns or raises; the request's session is closed.
Ends(c) ==
    /\ Goto(c, "idle")
    /\ Opens(c, "none")
    /\ ver' = [ver EXCEPT ![c] = 0]
    /\ config' = [config EXCEPT ![c] = NoConfig]
    /\ sent' = [sent EXCEPT ![c] = 0]
    /\ verdict' = [verdict EXCEPT ![c] = "failed"]

\* Qdrant deletes the points of v by filter; on an error the client does not
\* know whether it did.
DeletesPoints(v)    == points' = [points EXCEPT ![v] = {}]
MayDeletePoints(v)  == DeletesPoints(v) \/ UNCHANGED points

-----------------------------------------------------------------------------
(* prepare_document_version and persist_chunks *)

\* Ownership and READY checks, parsing and chunking, then the two reads of
\* persist_chunks in the same snapshot: the fingerprint is reused, or the
\* next number is chosen.
BeginPrepare(c, g) ==
    /\ stage[c] = "idle"
    /\ fileReady
    /\ config' = [config EXCEPT ![c] = g]
    /\ Opens(c, "ready")
    /\ \/ \E v \in Versions :
            /\ fingerprint[v] = g
            /\ ver' = [ver EXCEPT ![c] = v]
            /\ Goto(c, "prepared")
       \/ \E n \in Versions :
            /\ \A v \in Versions : fingerprint[v] # g
            /\ IsNextNumber(n)
            /\ ver' = [ver EXCEPT ![c] = n]
            /\ Goto(c, "persist")
    /\ UNCHANGED <<fileReady, table, points, sent, verdict>>

\* Mutant: the number is chosen at the insert, and the fingerprint is not
\* looked at again.
PersistVersionRenumbered(c) ==
    /\ stage[c] = "persist"
    /\ \E n \in Versions :
        /\ IsNextNumber(n)
        /\ status' = [status EXCEPT ![n] = "pending"]
        /\ fingerprint' = [fingerprint EXCEPT ![n] = config[c]]
        /\ ver' = [ver EXCEPT ![c] = n]
    /\ Goto(c, "prepared")
    /\ Opens(c, "none")
    /\ UNCHANGED <<fileReady, active, points, config, sent, verdict>>

\* Version and chunks are inserted and committed together, unless one of the
\* unique constraints (document, number), (document, fingerprint) refuses.
PersistVersion(c) ==
    LET n == ver[c] IN
    /\ stage[c] = "persist"
    /\ ~Exists(n)
    /\ \A v \in Versions : fingerprint[v] # config[c]
    /\ status' = [status EXCEPT ![n] = "pending"]
    /\ fingerprint' = [fingerprint EXCEPT ![n] = config[c]]
    /\ Goto(c, "prepared")
    /\ Opens(c, "none")
    /\ UNCHANGED <<fileReady, active, points, ver, config, sent, verdict>>

\* IntegrityError: after the rollback the version with the same fingerprint
\* is reused ...
ReuseVersion(c) ==
    /\ stage[c] = "persist"
    /\ \E v \in Versions :
        /\ fingerprint[v] = config[c]
        /\ ver' = [ver EXCEPT ![c] = v]
    /\ Goto(c, "prepared")
    /\ Opens(c, CurrentSnapshot)
    /\ UNCHANGED <<fileReady, table, points, config, sent, verdict>>

\* ... or, when only the number was taken, KnowledgeVersionWriteError.
RefuseVersion(c) ==
    /\ stage[c] = "persist"
    /\ Exists(ver[c])
    /\ \A v \in Versions : fingerprint[v] # config[c]
    /\ Ends(c)
    /\ UNCHANGED <<fileReady, table, points>>

\* The caller of prepare_document_version keeps the pending version for later
\* (an approval) ...
ReturnPrepared(c) ==
    /\ stage[c] = "prepared"
    /\ Ends(c)
    /\ UNCHANGED <<fileReady, table, points>>

\* ... or, as ingest_file_to_base does, goes on to index it.
IngestPrepared(c) ==
    /\ stage[c] = "prepared"
    /\ snapshot[c] = "ready" \/ (snapshot[c] = "none" /\ fileReady)
    /\ Goto(c, "claim")
    /\ Opens(c, "ready")
    /\ UNCHANGED <<fileReady, table, points, ver, config, sent, verdict>>

-----------------------------------------------------------------------------
(* retry_document_version *)

\* The status read here decides whether the points are deleted first.  In the
\* cleanup branch the session is rolled back, but version.id, expired by the
\* rollback, is read again before the await.
BeginRetry(c, v) ==
    /\ stage[c] = "idle"
    /\ fileReady
    /\ SerialRetries =>
         \A d \in Calls : ver[d] = v => stage[d] \notin {"cleanup", "requeue"}
    /\ \/ status[v] = "cleanup_required" /\ Goto(c, "cleanup")
       \/ status[v] = "failed"           /\ Goto(c, "requeue")
       \/ status[v] = "pending"          /\ Goto(c, "claim")
    /\ ver' = [ver EXCEPT ![c] = v]
    /\ Opens(c, "ready")
    /\ UNCHANGED <<fileReady, table, points, config, sent, verdict>>

\* _cleanup_failed_vector_write, awaited with the status read before it.
RetryCleanup(c) ==
    /\ stage[c] = "cleanup"
    /\ DeletesPoints(ver[c])
    /\ Goto(c, "requeue")
    /\ UNCHANGED <<fileReady, table, ver, config, sent, verdict, snapshot>>

\* KnowledgeVersionRetryError: the version stays cleanup_required.
RetryCleanupFails(c) ==
    /\ stage[c] = "cleanup"
    /\ MayDeletePoints(ver[c])
    /\ Ends(c)
    /\ UNCHANGED <<fileReady, table>>

\* requeue_failed_version and its commit, or, when the update matched no row,
\* a rollback and a fresh read; a pending version is then indexed if
\* index_document_version still finds the document.
Requeue(c) ==
    LET v == ver[c] IN
    /\ stage[c] = "requeue"
    /\ IF status[v] \in {"failed", "cleanup_required"}
         THEN status' = [status EXCEPT ![v] = "pending"]
         ELSE UNCHANGED status
    /\ IF status'[v] = "pending" /\ fileReady
         THEN /\ Goto(c, "claim")
              /\ Opens(c, "ready")
              /\ UNCHANGED <<ver, config, sent, verdict>>
         ELSE Ends(c)
    /\ UNCHANGED <<fileReady, fingerprint, active, points>>

-----------------------------------------------------------------------------
(* index_document_version *)

BeginIndex(c, v) ==
    /\ stage[c] = "idle"
    /\ fileReady
    /\ Exists(v)
    /\ ver' = [ver EXCEPT ![c] = v]
    /\ Goto(c, "claim")
    /\ Opens(c, "ready")
    /\ UNCHANGED <<fileReady, table, points, config, sent, verdict>>

\* Mutant: the claim is a plain update, without WHERE status = pending.
ClaimAnyStatus(c) ==
    /\ stage[c] = "claim"
    /\ status' = [status EXCEPT ![ver[c]] = "processing"]
    /\ Goto(c, "embed")
    /\ Opens(c, CurrentSnapshot)
    /\ UNCHANGED <<fileReady, fingerprint, active, points,
                   ver, config, sent, verdict>>

\* claim_pending_version commits pending -> processing; list_chunks then opens
\* the transaction that stays open while the providers are awaited.
Claim(c) ==
    /\ stage[c] = "claim"
    /\ status[ver[c]] = "pending"
    /\ status' = [status EXCEPT ![ver[c]] = "processing"]
    /\ Goto(c, "embed")
    /\ Opens(c, CurrentSnapshot)
    /\ UNCHANGED <<fileReady, fingerprint, active, points,
                   ver, config, sent, verdict>>

\* Another call has the version: index_document_version returns None.
ClaimLost(c) ==
    /\ stage[c] = "claim"
    /\ status[ver[c]] # "pending"
    /\ Ends(c)
    /\ UNCHANGED <<fileReady, table, points>>

Embed(c) ==
    /\ stage[c] = "embed"
    /\ Goto(c, "upsert")
    /\ UNCHANGED <<fileReady, table, points, ver, config, sent, verdict, snapshot>>

\* Mutant: AIError is not caught.
EmbedFailsUncaught(c) ==
    /\ stage[c] = "embed"
    /\ Ends(c)
    /\ UNCHANGED <<fileReady, table, points>>

\* AIError of any batch, or VectorStoreInputError of build_vector_points.
EmbedFails(c) ==
    /\ stage[c] = "embed"
    /\ Goto(c, "mark_failed")
    /\ UNCHANGED <<fileReady, table, points, ver, config, sent, verdict, snapshot>>

\* Mutants: the batches are cut one short of the end, or one beyond it.
UpsertBatchShort(c) ==
    LET b == sent[c] + 1 IN
    /\ stage[c] = "upsert"
    /\ points' = [points EXCEPT ![ver[c]] = @ \cup {b}]
    /\ sent' = [sent EXCEPT ![c] = b]
    /\ Goto(c, IF b >= NumBatches - 1 THEN "complete" ELSE "upsert")
    /\ UNCHANGED <<fileReady, table, ver, config, verdict, snapshot>>

UpsertBatchLong(c) ==
    LET b == sent[c] + 1 IN
    /\ stage[c] = "upsert"
    /\ points' = [points EXCEPT ![ver[c]] = @ \cup {b}]
    /\ sent' = [sent EXCEPT ![c] = b]
    /\ Goto(c, IF b > NumBatches THEN "complete" ELSE "upsert")
    /\ UNCHANGED <<fileReady, table, ver, config, verdict, snapshot>>

\* upsert_vector_points writes one batch.
UpsertBatch(c) ==
    LET b == sent[c] + 1 IN
    /\ stage[c] = "upsert"
    /\ points' = [points EXCEPT ![ver[c]] = @ \cup {b}]
    /\ sent' = [sent EXCEPT ![c] = b]
    /\ Goto(c, IF b = NumBatches THEN "complete" ELSE "upsert")
    /\ UNCHANGED <<fileReady, table, ver, config, verdict, snapshot>>

\* The batch is refused, or written without the client learning of it.
UpsertFails(c) ==
    /\ stage[c] = "upsert"
    /\ \/ points' = [points EXCEPT ![ver[c]] = @ \cup {sent[c] + 1}]
       \/ UNCHANGED points
    /\ Goto(c, "compensate")
    /\ UNCHANGED <<fileReady, table, ver, config, sent, verdict, snapshot>>

\* _cleanup_failed_vector_write after a failed upsert or a failed completion.
Compensate(c) ==
    /\ stage[c] = "compensate"
    /\ DeletesPoints(ver[c])
    /\ Goto(c, "mark_failed")
    /\ UNCHANGED <<fileReady, table, ver, config, sent, verdict, snapshot>>

\* Mutant: the failed clean-up is recorded as an ordinary failure.
CompensateFailsUnnoticed(c) ==
    /\ stage[c] = "compensate"
    /\ MayDeletePoints(ver[c])
    /\ Goto(c, "mark_failed")
    /\ UNCHANGED <<fileReady, table, ver, config, sent, verdict, snapshot>>

\* VectorStoreCleanupRequiredError.
CompensateFails(c) ==
    /\ stage[c] = "compensate"
    /\ MayDeletePoints(ver[c])
    /\ verdict' = [verdict EXCEPT ![c] = "cleanup_required"]
    /\ Goto(c, "mark_failed")
    /\ UNCHANGED <<fileReady, table, ver, config, sent, snapshot>>

\* Mutant: the version completed last becomes active, newer or not.
CompletePromotesAlways(c) ==
    LET v == ver[c] IN
    /\ stage[c] = "complete"
    /\ snapshot[c] = "ready"
    /\ status[v] = "processing"
    /\ status' = [status EXCEPT ![v] = "indexed"]
    /\ active' = v
    /\ Ends(c)
    /\ UNCHANGED <<fileReady, fingerprint, points>>

\* complete_version_indexing: processing -> indexed and, in the same
\* transaction, promote_active_version.
Complete(c) ==
    LET v == ver[c] IN
    /\ stage[c] = "complete"
    /\ snapshot[c] = "ready"
    /\ status[v] = "processing"
    /\ status' = [status EXCEPT ![v] = "indexed"]
    /\ active' = IF active = 0 \/ active < v THEN v ELSE active
    /\ Ends(c)
    /\ UNCHANGED <<fileReady, fingerprint, points>>

\* A database error rolls the completion back, or the update matches no row:
\* KnowledgeVersionWriteError, then the written vectors are compensated.
CompleteFails(c) ==
    /\ stage[c] = "complete"
    /\ snapshot[c] = "ready"
    /\ Goto(c, "compensate")
    /\ Opens(c, CurrentSnapshot)
    /\ UNCHANGED <<fileReady, table, points, ver, config, sent, verdict>>

\* mark_version_indexing_failed records the verdict if still processing.
MarkFailed(c) ==
    LET v == ver[c] IN
    /\ stage[c] = "mark_failed"
    /\ snapshot[c] = "ready"
    /\ IF status[v] = "processing"
         THEN status' = [status EXCEPT ![v] = verdict[c]]
         ELSE UNCHANGED status
    /\ Ends(c)
    /\ UNCHANGED <<fileReady, fingerprint, active, points>>

\* Both writes look the document up again.  When the snapshot no longer shows
\* its file READY they raise KnowledgeDocumentNotFoundError, which
\* index_document_version does not catch.
DocumentGone(c) ==
    /\ stage[c] \in {"complete", "mark_failed"}
    /\ snapshot[c] = "gone"
    /\ Ends(c)
    /\ UNCHANGED <<fileReady, table, points>>

-----------------------------------------------------------------------------
(* The environment *)

\* FileService.delete_file takes the file out of READY for good.
DeleteFile ==
    /\ fileReady
    /\ fileReady' = FALSE
    /\ UNCHANGED <<table, points, stage, ver, config, sent, verdict, snapshot>>

\* The process dies, the task is cancelled at an await, or the database
\* refuses a write outside complete_version_indexing: the transaction is
\* rolled back and nothing else is undone.
Vanish(c) ==
    /\ stage[c] # "idle"
    /\ Ends(c)
    /\ UNCHANGED <<fileReady, table, points>>

-----------------------------------------------------------------------------
Starts(c) ==
    \/ \E g \in Configs : BeginPrepare(c, g)
    \/ \E v \in Versions : BeginIndex(c, v) \/ BeginRetry(c, v)

Proceeds(c) ==
    \/ PersistVersion(c) \/ ReuseVersion(c) \/ RefuseVersion(c)
    \/ ReturnPrepared(c) \/ IngestPrepared(c)
    \/ RetryCleanup(c) \/ RetryCleanupFails(c) \/ Requeue(c)
    \/ Claim(c) \/ ClaimLost(c)
    \/ Embed(c) \/ EmbedFails(c) \/ UpsertBatch(c) \/ UpsertFails(c)
    \/ Compensate(c) \/ CompensateFails(c)
    \/ Complete(c) \/ CompleteFails(c) \/ MarkFailed(c) \/ DocumentGone(c)

\* Calls that run to their end.
NextUndisturbed == \E c \in Calls : Starts(c) \/ Proceeds(c)

Next == NextUndisturbed \/ DeleteFile \/ \E c \in Calls : Vanish(c)

Spec == Init /\ [][Next]_vars

\* A started call goes on: its awaits return (every client has a timeout) and
\* its coroutine is resumed.  Nobody is obliged to start a call.
Fairness == \A c \in Calls : WF_vars(Proceeds(c))

\* Calls are not killed and the database answers; the file stays.
UndisturbedSpec == Init /\ [][NextUndisturbed]_vars /\ Fairness

\* As above, but the file may be deleted under the calls.
DeletionSpec == Init /\ [][NextUndisturbed \/ DeleteFile]_vars /\ Fairness
-----------------------------------------------------------------------------
(* Properties *)

\* Version numbers have no gap, exactly the existing versions have a
\* fingerprint, and no two have the same: what concurrent persist_chunks calls
\* could break, both having read the table before either inserted.
VersionTable ==
    \A v, w \in Versions :
        /\ Exists(v) <=> fingerprint[v] # NoConfig
        /\ Exists(v) /\ w < v => Exists(w)
        /\ Exists(v) /\ fingerprint[v] = fingerprint[w] => v = w

\* claim_pending_version is the only way into the indexing of a version: a
\* call between its claim and its last write works on a version that is
\* processing, and no other call works on the same one.
OneOwner ==
    \A c, d \in Calls :
        stage[c] \in Owning =>
            /\ ver[c] \in Versions
            /\ status[ver[c]] = "processing"
            /\ stage[d] \in Owning /\ ver[d] = ver[c] => c = d

\* promote_active_version: whatever the order in which versions complete,
\* active_version_id is NULL or the newest indexed version.
ActiveIsNewestIndexed ==
    /\ active # 0 => status[active] = "indexed"
    /\ \A v \in Versions : status[v] = "indexed" => v <= active

\* The status in MySQL and the points in Qdrant agree: an indexed version has
\* all its vectors, and one that is pending or failed has none left (ADR-0030:
\* failed means no vector remains, or it was compensated).
VectorsMatchStatus ==
    \A v \in Versions :
        /\ status[v] = "indexed" => points[v] = Batches
        /\ status[v] \in {"absent", "pending", "failed"} => points[v] = {}

\* The service implements PublishedVersions: a version is served when it is
\* indexed and all its vectors are in Qdrant.
Served == {v \in Versions : status[v] = "indexed" /\ points[v] = Batches}
Published == INSTANCE PublishedVersions WITH served <- Served
PublishedSpec == Published!Spec

\* index_document_version comes to an end: no version stays processing.
ProcessingSettles ==
    \A v \in Versions : status[v] = "processing" ~> status[v] # "processing"
===============================================================================
