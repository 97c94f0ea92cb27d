# AI Knowledge Hub: TLA+ models and proofs

AI Knowledge Hub is a FastAPI application (`backend/app`) over MySQL, Redis, Qdrant and an
object store. Users upload files, register them in knowledge bases, have them indexed as
versions of chunks and vectors, and chat over what was indexed; a durable workflow lets a
human approve a version before it is indexed. Requests are served concurrently, and nothing
in the code keeps the application to one process: every guarantee rests on conditional
updates, unique constraints and compensation.

This directory holds TLA+ models of that part of the code, their TLC configurations, and
proofs checked by TLAPS. `PROJECT.json` maps definitions to source lines and lists runs,
mutants, findings, hazards and theorems.

## Inventory

| Component | State | Operations | What is hard, and what makes it correct |
|---|---|---|---|
| Knowledge indexing (`services/knowledge_service.py`, `knowledge_repository.py`, `qdrant_vector_store.py`) | `DocumentVersion` rows (status, number, fingerprint), `KnowledgeDocument.active_version_id`, points in Qdrant | prepare, ingest, index, retry | Two stores without a common transaction; awaits between the claim and the last write; concurrent retries; crash. Correct: one owner per version, status agrees with the vectors, the active version is the newest indexed, every claimed version reaches a terminal status |
| Workflow engine (`workflow/`, `services/workflow_service.py`, `workflow_repository.py`) | `WorkflowRun`, `WorkflowStepRun`, `WorkflowAttempt` | submit, execute, resume | Several rows changed by separate conditional updates, stale snapshots, crash while a node runs. Correct: rows agree, one executor per step, no success replayed, attempts are a history |
| Approval (`knowledge_revision_repository.py`, `services/workflow_service.py`) | `KnowledgeRevision` | approve, reject, withdraw, reconcile | Racing decisions and expiry. Correct: one decision, and it stands |
| Retrieval (`search_knowledge`) | none of its own | search | Candidates from Qdrant and the active pointer from MySQL are read at different times. Correct: no hit is older than the question, stale points do not push current chunks out |
| File resources (`services/file_service.py`, `storage/`) | `FileResource.status`, objects | upload, delete, download, cleanup | Database and object store, compensation, non-conditional status writes |
| Authentication (`services/auth_service.py`, `session_repository.py`, `login_rate_limiter.py`) | sessions and per-user index in Redis, attempt counters | login, refresh, logout, list, revoke, revoke all | Rotation, replay, TTLs, races of revocation with login. Correct: a token is exchanged at most once, an ended session stays ended, the index misses no live session, a lock-out ends |
| AI gateway and chat (`ai/gateway.py`, `services/chat_service.py`) | one `ChatUsage` row per request | generate, stream | Retries only before the first event, racing timeouts, cancellation during a write. Correct: the client sees one provider call, the one usage row tells what the client was told, every request ends |
| RAG context and budget, chunking (`services/rag_chat_service.py`, `knowledge/context.py`, `budget.py`, `chunking.py`) | none | chunk, budget, build | Token counts are not additive. Correct: no chunk exceeds the limit, the chunks cover the text, the context fits the window |
| Prompt center, parsers, routers, configuration, migrations, users | configuration, text, one table | load, translate, pure I/O | Not modelled (see the end) |

Interactions: the workflow's index node calls `KnowledgeService.index_document_version`; the
knowledge service reads `FileResource` rows and objects; deleting a file makes its documents
invisible to every lookup of the knowledge service; retrieval and chat read what indexing
publishes. All of them meet only in MySQL, Redis, Qdrant and the object store.

## What a step is

The models cut an operation where another request can come between: at every commit or
rollback and at every await. MySQL runs at its default isolation level
(`db/session.py` sets no other), so

* plain reads of one transaction share the snapshot of its first read, and
* an `UPDATE ... WHERE status = ...` tests the *current* row; with its commit it is one step.

In Redis a step is one round trip: a command, a `MULTI` or a Lua script. A pipeline without
`MULTI` is one step for each of its commands.

A value read earlier and used later is therefore a variable of the call (`ver`, `snapshot`,
`number`, `target`), never re-read from the table for free. `Vanish` ends a call anywhere: the
process dies, the task is cancelled, or the database refuses a write; its transaction is rolled
back and nothing else is undone.

## Modules

| Module | Models |
|---|---|
| `DocumentIndexing` | Indexing of the versions of one document |
| `PublishedVersions` | Abstract: what indexing promises its readers |
| `WorkflowEngine` | Approval, execution and resumption of `knowledge_revision_approval@1` |
| `WorkflowRunLifecycle` | Abstract: the transition table of `workflow/state_machine.py` |
| `MCDocumentIndexing`, `MCWorkflowEngine` | Instances for TLC (symmetry sets) |
| `DocumentIndexingProofs`, `WorkflowEngineProofs` | Theorems and proofs |
| `FileLifecycle` | One file: upload, delete, download, clean-up over row and object |
| `FilePublication` | Abstract: what the file service promises about a file |
| `MCFileLifecycle`, `FileLifecycleProofs` | Instance for TLC; theorems and proofs |
| `AuthSessions`, `MCAuthSessions` | Login, refresh, logout, listing, revocation over Redis; instance for TLC |
| `AuthSessionsProofs`, `ChatRequestProofs` | Theorems and proofs |
| `RefreshTokenChain` | Abstract: what rotation promises about tokens |
| `ChatRequest` | One chat request, streamed or not, and its usage row |
| `Chunking` | The chunker, for any token counter |
| `ChunkingProofs`, `KnowledgeQuestionProofs` | Theorems and proofs |
| `KnowledgeQuestion` | One RAG question beside the index: chunking, publication (`PublishedVersions`), search, budget, context, gateway check |

### DocumentIndexing

State: `status`, `fingerprint` and `active` are the columns of the same names; a version is named
by its number. `points[v]` is the set of upsert batches of version v in Qdrant. `fileReady` is the
condition `get_owned_document` puts on the source file. Each call has a `stage`, and what it holds
in local variables.

| Code | Actions |
|---|---|
| `prepare_document_version`, `persist_chunks` | `BeginPrepare` (checks, and both reads of `persist_chunks`), then `PersistVersion`, or after an `IntegrityError` `ReuseVersion` or `RefuseVersion` |
| `ingest_file_to_base` | `BeginPrepare`, ..., `IngestPrepared`, then indexing |
| `retry_document_version` | `BeginRetry`, `RetryCleanup` / `RetryCleanupFails`, `Requeue` |
| `index_document_version` | `BeginIndex`, `Claim` / `ClaimLost`, `Embed` / `EmbedFails`, `UpsertBatch` / `UpsertFails`, `Compensate` / `CompensateFails`, `Complete` / `CompleteFails`, `MarkFailed`, `DocumentGone` |
| `FileService.delete_file` | `DeleteFile` |

Abstracted: owner checks (all calls are the owner's), the content of chunks and vectors (a version
has at least one chunk, for `persist_chunks` refuses none), embedding batches (one await; a failure
of any leaves the same state). Qdrant may apply a delete or an upsert it reports as failed.
Deletion of a file is final: nothing returns a row to `ready`.

`SerialRetries` is an assumption about the operators, not the code: while a retry of a version is
before its requeue, no second one starts. Without it `VectorsMatchStatus` is false (see Findings);
with it, TLC checks and TLAPS proves it. It restricts only when a retry may begin.

### WorkflowEngine

A run and its revision are created together, so `r` names both. `attempts[r]` is the sequence of
`WorkflowAttempt` rows of the index step by `attempt_number`, each with its status or failure code.
The waiting step never has attempts.

| Code | Actions |
|---|---|
| `submit_revision_for_approval` | `Submit` |
| `approve_`, `reject_`, `withdraw_revision`, `reconcile_expired_revision` | `BeginDecide` (reads), then `Approve`, `Cancel` or `DecisionLost` |
| `resume_failed_run` | `BeginResume` (reads), `Resume` or `ResumeLost` |
| `execute_next_async` | `BeginExecute` (reads), `ClaimStep` or `ClaimLost`, `NodeReturns` / `NodeFails`, `CompleteStep` / `FailStep` |

`ClaimHolds` is where the snapshot matters: the step must be pending now, and the attempt number,
counted in the snapshot, must still be free (unique constraint). Not modelled: definitions with
another topology, input bindings, the synchronous twin `execute_next`, which only tests call.

### FileLifecycle

State: `status` and `reason` (`failure_reason`) of the row, whether the store has an `object` under its
key, and for each call its `stage` and the `outcome` it is about to write.

| Code | Actions |
|---|---|
| `upload` | `BeginUpload` (commits the pending row), `Put` / `PutFails`, `Publish` / `PublishFails` / `PublishRefused`, `Undo` / `UndoFails`, `Record` |
| `delete_file` | `BeginDelete` (reads), `MarkDeleting`, `DeleteObject` / `DeleteObjectFails`, `FinishDelete` / `FinishDeleteFails`, `Record` |
| `download_file` | `BeginDownload` (reads), `Open` / `OpenMissing`, `MarkMissing` |
| `cleanup_file` | `BeginCleanup` (reads, chooses the final status), `Clean` / `CleanFails`, `CloseCleanup` |

No write tests the status it replaces; which columns it writes follows the ORM: only those that differ
from what was loaded (`MarkDeleting`, `CloseCleanup`), or all of them after a commit or rollback
expired the object (`Record`, `FinishDelete`). A write or delete of the store that reports an error may
have happened. Not modelled: validation of the content, `deleted_at`, storage mismatch (a refusal
before any change), listing.

### AuthSessions

State: of each session its hash in Redis (`ttl`, `current` = `refresh_token_hash`, `absolute`,
`subject`), the per-user `index`, of each refresh token its session and the `life` left of its exp,
and the login counter with its `window`. `spent` and `locked` are histories. Times count down, one
`Tick` a second.

| Code | Actions |
|---|---|
| `login` | `ReserveAttempt`, `ResetAttempts`, `CreateSession` |
| `refresh` | `BeginRefresh` (reads, computes the new lives), `Rotate` / `RotateReplay` / `RotateMissing` (the script) |
| `logout` | `Logout` |
| `list_sessions` | `BeginManage`, `ListIds`, one `FetchRecord` for each id, `Prune` |
| `revoke_session`, `revoke_all_sessions` | `BeginManage`, `Revoke` / `RevokeAll` |
| Redis expiry | `Tick` |
| any refusal or failure between two steps | `Leave` |

Abstracted: MySQL's answers (going on or `Leave`), the contents of access tokens (one lives no longer
than the refresh token it came with). A session created by a login that was already past its
password check when everything was revoked is a new login; a repeated refresh ends its session, as
ADR-0018 decides; a success of one request resets the counter under the others. None of these is
stated as a property.

### ChatRequest

| Code | Actions |
|---|---|
| `stream`, `chat_with_rendered_prompt` up to the first call | `Prepare` / `PrepareFails` |
| `AIGateway.generate`, `stream` | `Receive`, `Complete`, `ProviderFails`, `ProviderBreaks`, `Retry`, `Expire` |
| handlers of `ChatService` | `Unwind`, as part of the step that raises |
| `_save_usage_safely` in its thread | `Write`; `CancelSave` when its awaiter is cancelled |
| SSE endpoint and the event loop | `Read`, `Close`, `CancelCall`, `Tick` |

`recorded` is `terminal_recorded`, `emitted` is `has_emitted_event`, `pending` the writes a thread
has or will get. Left out: message contents, cost and latency, and `chat`'s own rendering before it
calls `chat_with_rendered_prompt`, whose failure leaves no usage row.

### Chunking and KnowledgeQuestion

A text is its number of characters, a document the lengths of its sentences, the tokenizer any
function from lengths to counts, chosen at the start: BPE counts are neither additive nor
monotone, and the chunker assumes neither. That a count depends on the length only, and that a
break between units adds a constant, is an abstraction: a tokenizer looks at the characters too.
Neither the chunker nor the proofs use it. Blanks stripped at a cut and the source locators are left
out, so "no character lost" is up to those blanks.

| Code | Actions |
|---|---|
| `_units_for_block`, `_split_oversized_unit` | `KeepSentence`, `CutSentence` / `CutFails`, `SplitDone` |
| `StructureAwareChunker.chunk`, `_overlap_for_next_chunk` | `AddUnit` (with `Overlap`), `Finish` |
| indexing, as far as a question sees it | `StoreChunks`, `Upsert`, `Discard`, `Publish`, `DeleteFile` |
| `answer`, `RAGTokenBudgetCalculator` | `Ask` |
| `search_knowledge` | `Search` (Qdrant), `Backfill` (MySQL) |
| `ContextBuilder.build` | `Consider`, `BuildDone` |
| `_prepare_provider_call` | `Check` |

Qdrant may return any of its points in any order; scores have no other effect. A token is `width`
bytes long, which is all the gateway's estimate depends on. What follows is `ChatRequest`.

`asked.read` is history: the version whose chunks MySQL let through, 0 if the file was gone. With it
`NoHoles` says what the hits must be, the empty result included: unless more of what Qdrant found is
stale than the multiplier allows for, the hits are its first `TopK` chunks of that version, and there
are none only if it found none. `ContextFits` adds the counts of prompt, context and question as the
budget does; the code never counts the rendered prompt again, except by the gateway's estimate.

## Runs

| Run | Shows |
|---|---|
| `indexing_safety` | 3 calls, 2 configurations, 2 versions, 2 batches, serial retries, any crash, file deletion. Type invariant, `VersionTable`, `OneOwner`, `ActiveIsNewestIndexed`, `VectorsMatchStatus`; the service implements `PublishedVersions` |
| `indexing_settles` | 2 calls, retries not serial, no crash, file kept. Liveness: no version stays processing |
| `indexing_retry_race` | Violation of `VectorsMatchStatus` without serial retries |
| `indexing_file_deleted` | Violation of `ProcessingSettles` when the file may be deleted |
| `workflow_safety` | 3 requests, 2 runs, `max_attempts` 2. Type invariant, `RowsAgree`, `OneExecutor`, `SuccessIsLast`, `OvershootBounded`, `HistoryKept`; runs follow the declared state machine |
| `workflow_attempt_limit` | Violation of `AttemptLimit` |
| `file_safety` | 4 calls on one file, any failure, any crash. Type invariant, `FinalHasNoObject`; the service implements `FilePublication` |
| `file_settles` | 3 calls, none killed, no UPDATE refused. `NothingLeftBehind`, and no row stays in a transitional status |
| `auth_sessions` | 2 calls, 2 sessions, 3 tokens, both expiration modes. Type invariant, `IndexComplete`, `TokenBacked`, `LockoutEnds`, `RevokeAllSweeps`; sessions implement `RefreshTokenChain` |
| `chat_request` | Both modes, 2 retries, any behaviour of provider, client and database, cancellation at any await. Type invariant, `OneCallSeen`, `UsageTellsOutcome`, `Recorded`; liveness: the request ends |
| `rag_answer` | All texts of up to 4 characters and token counters, 2 versions, one question. Type invariants, `ChunksFit`, `ChunksCover`, `NeverStale`, `NoHoles`, `ContextFits` |
| `rag_over_window` | Violation of `NotRefused` |

**Bounds.** Three calls are one more than any race of two operations needs, so a third can
disturb a compensation or retry in progress; two versions make an older one finish after a newer;
two batches separate "some vectors" from "all"; two configurations allow the same fingerprint and
different ones to be prepared at once; `max_attempts` 2 allows one legal resume and the overshoot
of concurrent ones. One file is enough, for no operation of the file service touches two; four
calls are an upload and three others that read the row before any of them writes. Attempts need
no bound of their own: `OvershootBounded` bounds them, and the state space is finite because of it.
The proofs hold for all values.

In `auth_sessions`, two calls race over two sessions; three tokens are a login, its rotation and a
replay beside a second login. A session lives 2 seconds and at most 3, so that a sliding rotation
is cut by the absolute limit, and a script can run after the second its TTL was computed in. One
attempt and a window of 2 lock an account for more than one step. One user: sessions of two users
meet only in the ownership tests of `Revoke` and `RevokeAll`, which are guards. In `chat_request`
two retries with their doubled backoff fit into the total of 10, and so do streams that use it up;
an idle timeout of 2 leaves room for an event in time. In `rag_answer` a text of 4 characters has
every division into sentences, every token counter with values up to 3, every limit up to 3 with
every overlap; two versions of up to 3 chunks make stale candidates (2 allowed by the multiplier,
3 too many) and hits that fit, do not fit, and fit after another was skipped. The budget is
29 tokens for a short question, and none for a long one.

**Deadlock** is checked in `chat_request`, whose only end is `Done`, and in `auth_sessions`, where
time goes on. Elsewhere it is not: a state where all calls are idle and all is done is a legal end.

**Fairness.** `WF(Proceeds(c))` for every call: an await returns, since every client of the code
has a timeout, and the event loop resumes its coroutine (the file service runs in a thread). Nobody is obliged to start a call. The
liveness runs leave out `Vanish`: a killed process does leave a version processing, or a file
`pending_upload`, and no reconciler exists.

`chat_request` assumes of the environment only that time passes, that a thread with a write ends,
and that a client that was sent an event takes it or leaves. Nothing is assumed of the provider: it
may hang, fail or send events for ever. The deadline is noticed when the task waits, and a
provider with events in its buffer does not make it wait at once; but the buffer is finite, so it
waits again and again. `Expire` is therefore strongly fair, not weakly.

**Mutants.** Each property of a passing run has a mutant, a plausible bug in one definition
(operators named for it stand before their target), under which TLC finds the property violated.

## Findings

1. *Retry race* (`indexing_retry_race`). Retry B reads `failed`. Retry A requeues the version,
   indexes it, fails to write a batch and fails to compensate: `cleanup_required`, vectors left.
   B's requeue accepts that status, without a clean-up. The version is `pending` with old vectors
   in Qdrant, and `failed` with them if the embedding then fails. ADR-0030 excludes both.
2. *File deleted while indexing* (`indexing_file_deleted`). Both closing writes look the document
   up again and raise `KnowledgeDocumentNotFoundError`, which nobody catches; the version stays
   `processing`.
3. *Attempt limit* (`workflow_attempt_limit`). The limit and the failure category are checked in a
   snapshot, the requeue tests the two statuses only. With n concurrent calls a step can have
   `max_attempts - 1 + n` attempts; that this is the worst case is `OvershootBounded`, checked
   and proved. By the same path a failure that is not retryable can be requeued.
4. *Refused context* (`rag_over_window`). Budget and context builder fill the window, counted with
   the model's tokenizer. The gateway counts the same messages again, one token per UTF-8 byte, for
   `get_ai_gateway` gives it no estimator. A context that was made to fit is refused.

Seen while modelling, and not run: `approve_revision` does not look at `expires_at`, and nothing
calls `reconcile_expired_revision` before it, so an overdue revision can be approved. Two deletes of
one file that read it as ready write `deleting` over `deleted`; `PublicationSpec` shows that this
does no harm beyond the status. `update_status(READY)` flushes outside the `try` that compensates:
if that UPDATE fails (`PublishRefused`), rather than the commit, the object stays under a row that
is `pending_upload` for good, which is why `file_settles` leaves it out.

## Proofs

All proofs are checked by `tlapm`, for every value of the constants, from the named assumptions in
the modules: `NoConfig` is no configuration, bounds are naturals, `NumBatches` and `MaxAttempts`
are at least 1, `Calls` of the workflow engine is a finite non-empty set.

`DocumentIndexingProofs`. `IInv` is inductive however calls interleave: the type invariant, the three
properties `VersionTable`, `OneOwner` and `ActiveIsNewestIndexed`, and `CallInv`, what a call knows
of the version it works on (it exists, or, before it is persisted, all lower numbers do; how many
batches were sent at each stage). `OneOwner` can be inductive because it also says that an owned
version is `processing`, a status that neither a claim nor a requeue accepts.
`TypeCorrect`, `VersionTableCorrect`, `ClaimIsExclusive` and `ActiveCorrect` follow. With
`ASSUME SerialRetries`, `VInv` adds which points a version may have at each stage of the calls at
work on it (`CallVectors`) and that a version being retried has no second retry (`RetriesApart`);
it gives `VectorsCorrect` and, with the refinement mapping `Served`, `ImplementsPublished`.
Two theorems say what is behind the liveness property. `ProcessingAttended`: without kills and
deletion, a version that is processing is owned by a call, and no call has lost its document (a
call leaves its version only by settling it, and `OneOwner` keeps others from claiming it).
`CallsEnd`: each step of a call lowers its `StepsLeft`, a number bounded by `NumBatches`, and leaves
that of the others alone, so no race makes a call go round in circles. What remains of
`ProcessingSettles` is that a call that can go on does: fairness and ENABLED.

`WorkflowEngineProofs`. `IInv` is the type invariant, `RowsAgree`, `OneExecutor`, `SuccessIsLast` and
that every busy call has a run: agreement of the tables is strong enough to be inductive, since every
update tests the rows it relates. It gives `TypeCorrect`, `RowsCorrect`, `ExecutorIsExclusive`,
`SuccessCorrect`, `HistoryCorrect` and `ImplementsLifecycle`. `OvershootCorrect` counts (`OInv`):
the attempts of a run, plus one for a pending step, plus the resumes that have checked the limit and
not yet requeued, never exceed `MaxAttempts - 1` plus the number of calls. A resume starts to wait
only below the limit, when at most all other calls wait with it, and a requeue turns one waiter into
one try. Cardinalities are handled with the facts of `FiniteSetTheorems`. `SerialResumesKeepLimit`
is the converse of finding 3: where no two requests are between the check and the requeue of one run,
`AttemptLimit` holds. Both rest on `TriesStep`, the ways a step can change tries and waiters.

`FileLifecycleProofs`. As no write tests the status it replaces, the invariant is about what a call
knows. Its main part, `PhaseKnown`, says at each stage which phase the file must be in (a deletion past
its mark, a download that found no object and a clean-up of a deletion: withdrawn; a clean-up of an
upload: failed); it is inductive because those two phases are never left. `OneUpload` says that
whatever an upload writes, it writes over its own `pending_upload`. With where the object is known to
be present or gone, it gives `TypeCorrect`, `FinalCorrect` and `Refinement`. For `NothingLeft` the
invariant is joined by `Attended`: while no call dies, each transitional status has a call at work
on it. The same gives `TransitionsAttended`, and with `CallsEnd` (a request has at most four steps
after its first) all of `TransitionsSettle` but fairness.

`AuthSessionsProofs`. `IndexComplete` becomes inductive with `Linked` (an id is in the index of its own
user only) and `MissingForGood` (an id a listing has found missing belonged to a session, so no
session will ever have it again, and `Prune` removes nothing that lives). `TokenBacked` needs
`WillBeBacked`, the same about a token a request is about to issue: its life and the session's
limit grow older together, which is why a late script does no harm. `LockedWithinWindow` says
that a lock-out is no longer than the part of the window that is over. They give `TypeCorrect`,
`IndexCorrect`, `BackingCorrect`, `LockoutCorrect`, `SweepCorrect` (the script deletes what the index
names, which is everything) and `ImplementsChain`. Assumed: `Nobody` is no user, limits are
positive, a session's lifetime does not exceed the absolute maximum.

`ChatRequestProofs`. The invariant splits a request at its end (`Ended`): before it nothing is written
and the client has no last word (`NothingBeforeEnd`); a success is written alone (`SuccessAlone`); a
failure is written over a success only after a cancellation, when the client is told nothing more
(`FailureKnown`, `ToldAsWritten`); from the end on there is a row, a write under way or a lost one
(`Traced`). `OneCallKnown` ties the events seen to the call that is running. They give `TypeCorrect`,
`OneCallCorrect`, `OutcomeCorrect` and `RecordCorrect`.

`ChunkingProofs`, for any text, limit, overlap and any token counter that `ChunkingAssumption` admits (not
monotone, not additive). The inductive `ChunkingIInv` follows the chunker's variables: each unit is
within the limit, and units and sentences left are no more than the document (`UnitsInv`); the
draft being filled is a run of units that ends at the last one added, fits, and goes on from
the last draft closed (`CurrentInv`); the drafts closed are runs that fit and follow one another,
less the overlap (`DraftsInv`).
`ChunksFit` and `ChunksCover` speak of the end only and are not inductive without it. They give
`NoChunkTooLong` and `NothingLost`. `ChunkerTerminates`: each step lowers `WorkLeft`, at most
`2 * MaxChars + 3`, and none loses a character, so the loops end.

`KnowledgeQuestionProofs`, for any index, budget and order in which Qdrant answers, from
`ChunkingAssumption` and `QuestionAssumption`. `IInv` joins `ChunkingIInv` with what is known of the
index (`WorldInv`: since the question came, the active version did not go back and no file came
back), of the hits (`HitsInv`: nothing is found twice) and of the context while it is built
(`CitationsInv`: of the hits considered so far, those cited fit the budget, and each of the others
did not fit behind those cited before it). `NeverStale` and `NoHoles` hold at the back-fill and are kept by all that
follows, an empty result included. The theorems are `TypeCorrect`, `ChunksOfTheIndex`, `AnswerNeverStale`, `AnswerHasNoHoles`
(the pigeonhole: among `TopK * Multiplier` candidates, at most `TopK * (Multiplier - 1)` stale ones
leave room for `TopK`), and `ContextWithinBudget`. `QuestionTerminates` bounds the steps of a question.
`RefusalExplained` completes finding 4: the gateway refuses a context that was made to fit only when
the extra bytes of its input, at `width` bytes a token, outgrow what the margin sets aside.

The laws these two need of sums and filters are inductions over data. Since the library's induction
theorems take an operator, they are stated for sets of numbers (a set that has 0 and each successor
has every natural: `Induction`, from the well-founded minimum), and `Total`, `Kept` are written as
recursive functions.

Only model-checked: liveness (`ProcessingSettles`, `TransitionsSettle`, `Terminates`), since fairness and
ENABLED are out of the prover's reach, and of course the four expected violations. Every
invariant and every action property of a passing run is the statement of a theorem.

## Not modelled, and the plan

* *Parsers*: text extraction around third-party libraries, no state.
* *Prompt center*: loads and renders templates once, at start; a render that fails is an ending of
  `ChatRequest` and `KnowledgeQuestion`.
* *HTTP layer*: translates requests and errors. The SSE endpoint of `api/ai.py` is part of
  `ChatRequest`.
* *Configuration, database session, migrations*: wiring; the isolation level and the ranges of the
  settings are what the models take from them.
* *Users*: one insert under a unique constraint.
* *Workflow definitions other than `knowledge_revision_approval@1`* and the synchronous executor:
  no production code has them.

Hazards without a property, each with its reason in `PROJECT.json`: an ambiguous commit in
`complete_version_indexing`; the transaction that `index_document_version` keeps open across awaits,
against the connection pool; InnoDB lock order of resume against failure (row locks are below the
grain of the models); what the loser of two approvals is told; the resumed index step, which needs
the composition of both core models; a login that creates its session just after a log out everywhere
(`RevokeAllSweeps` speaks of the sessions there are when the script runs); the object that a refused flush of
`update_status(READY)` leaves behind (`NothingLeftBehind` is checked where none is refused).

Next, in this order:

1. `ApprovalIndexing`: composition of `WorkflowEngine` and `DocumentIndexing` (a succeeded run has
   an indexed version; what a resumed index step can still do).
2. The ambiguous commit as one more ending of `Complete`.
3. The invariants of both parts as theorems of `ApprovalIndexing`.
