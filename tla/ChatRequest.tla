------------------------------ MODULE ChatRequest ------------------------------
(***************************************************************************)
(* One chat request and its usage row: ChatService over AIGateway, either  *)
(* streamed (stream behind the SSE encoder) or as one answer               *)
(* (chat_with_rendered_prompt, which the RAG service uses as well).        *)
(*                                                                         *)
(* A step runs to the next await or yield.  A usage row is written by a    *)
(* thread (asyncio.to_thread) that goes on when the task awaiting it is    *)
(* cancelled; a write still queued is dropped then.  The provider, the     *)
(* client, the database and whoever cancels the task are free.             *)
(***************************************************************************)
EXTENDS Integers

CONSTANTS
    MaxRetries,     \* AI_MAX_RETRY_ATTEMPTS
    Backoff,        \* AI_RETRY_BACKOFF_SECONDS
    Idle,           \* AI_STREAM_IDLE_TIMEOUT_SECONDS
    Total           \* the total deadline of the mode

ASSUME ChatAssumption ==
    /\ MaxRetries \in Nat /\ Backoff \in Nat
    /\ Idle \in Nat \ {0} /\ Total \in Nat \ {0}

Modes    == {"stream", "generate"}
Statuses == {"success", "failed", "cancelled"}      \* ChatUsageStatus
Events   == {"delta", "usage", "done"}

\* How control leaves: an AIError, any other exception, a cancelled task, or
\* aclose() of the suspended generator.
Endings == {"error", "cut", "cancelled", "closed"}

Stages == {"start", "wait", "backoff", "yielded", "save_success", "save_failure", "over"}

VARIABLES
    mode,       \* which of the two calls this is
    stage,      \* the await or yield the request stands at
    attempt,    \* provider calls made
    emitted,    \* has_emitted_event
    timer,      \* seconds left of the idle wait or of the backoff
    total,      \* seconds left to the total deadline
    event,      \* the event that stream yields
    recorded,   \* terminal_recorded
    ending,     \* the exception held while a failure is recorded
    pending,    \* usage writes handed to threads
    usage,      \* status of the row of this request_id
    lost,       \* history: a write was dropped or refused by the database
    seen,       \* history: provider calls whose events the client got
    answer      \* what the client got last

call   == <<attempt, emitted, timer, total>>
record == <<pending, usage, lost>>
client == <<seen, answer>>
vars   == <<mode, stage, call, event, recorded, ending, record, client>>

TypeOK ==
    /\ mode \in Modes
    /\ stage \in Stages
    /\ attempt \in 0..(MaxRetries + 1)
    /\ emitted \in BOOLEAN
    /\ timer \in Int
    /\ total \in 0..Total
    /\ event \in Events
    /\ recorded \in BOOLEAN
    /\ ending \in Endings
    /\ pending \in SUBSET Statuses
    /\ usage \in Statuses \cup {"none"}
    /\ lost \in BOOLEAN
    /\ seen \in SUBSET (1..(MaxRetries + 1))
    /\ answer \in {"none", "partial", "done", "error", "cut"}

Init ==
    /\ mode \in Modes
    /\ stage = "start"
    /\ attempt = 0
    /\ emitted = FALSE
    /\ timer = 0
    /\ total = Total
    /\ event = "delta"
    /\ recorded = FALSE
    /\ ending = "error"
    /\ pending = {}
    /\ usage = "none"
    /\ lost = FALSE
    /\ seen = {}
    /\ answer = "none"

-----------------------------------------------------------------------------
(* Helpers *)

StatusOf(e) == IF e \in {"error", "cut"} THEN "failed" ELSE "cancelled"

\* The error reaches the client as a response or as the last event; other
\* exceptions end in a 500 or a broken stream.
Answered(e) == IF e \in {"error", "cut"} THEN e ELSE answer

\* The write that records e joins those in writes; e is raised after it.
SaveFailure(e, writes) ==
    /\ stage' = "save_failure"
    /\ ending' = e
    /\ pending' = writes \cup {StatusOf(e)}

\* Mutant: the handler of GeneratorExit is missing.
UnwindExceptClosed(e) ==
    IF recorded \/ e = "closed"
    THEN /\ stage' = "over"
         /\ UNCHANGED <<ending, pending>>
    ELSE SaveFailure(e, pending)

\* The handlers around the call: unless the end is recorded, they record it
\* before the exception goes on.
Unwind(e) ==
    IF recorded
    THEN /\ stage' = "over"
         /\ UNCHANGED <<ending, pending>>
    ELSE SaveFailure(e, pending)

Awaits(s) ==
    \/ stage = "save_success" /\ s = "success"
    \/ stage = "save_failure" /\ s = StatusOf(ending)

-----------------------------------------------------------------------------
(* The provider call *)

\* The prompt is rendered, model and limits are accepted, the first call starts.
Prepare ==
    /\ stage = "start"
    /\ stage' = "wait"
    /\ attempt' = 1
    /\ timer' = Idle
    /\ UNCHANGED <<mode, emitted, total, event, recorded, ending, record, client>>

PrepareFails(e) ==
    /\ stage = "start"
    /\ e \in {"error", "cut"}
    /\ Unwind(e)
    /\ UNCHANGED <<mode, call, event, recorded, usage, lost, client>>

\* Mutant: only a delta counts as an event.
ReceiveCountsDeltas(k) ==
    /\ stage = "wait"
    /\ mode = "stream"
    /\ k # "done"
    /\ emitted' = (emitted \/ k = "delta")
    /\ event' = k
    /\ stage' = "yielded"
    /\ UNCHANGED <<mode, attempt, timer, total, recorded, ending, record, client>>

Receive(k) ==
    /\ stage = "wait"
    /\ mode = "stream"
    /\ k # "done"
    /\ emitted' = TRUE
    /\ event' = k
    /\ stage' = "yielded"
    /\ UNCHANGED <<mode, attempt, timer, total, recorded, ending, record, client>>

\* ChatDone, or the result of generate: the success is recorded first.
Complete ==
    /\ stage = "wait"
    /\ emitted' = (mode = "stream")
    /\ event' = "done"
    /\ stage' = "save_success"
    /\ pending' = pending \cup {"success"}
    /\ UNCHANGED <<mode, attempt, timer, total, recorded, ending, usage, lost, client>>

\* Mutant: one retry too many.
FailTooLate(retryable) ==
    IF retryable /\ ~emitted /\ attempt <= MaxRetries + 1
    THEN /\ stage' = "backoff"
         /\ timer' = Backoff * 2^(attempt - 1)
         /\ UNCHANGED <<ending, pending>>
    ELSE /\ Unwind("error")
         /\ UNCHANGED timer

\* A ProviderError, also for a stream that ends without ChatDone.
Fail(retryable) ==
    IF retryable /\ ~emitted /\ attempt <= MaxRetries
    THEN /\ stage' = "backoff"
         /\ timer' = Backoff * 2^(attempt - 1)
         /\ UNCHANGED <<ending, pending>>
    ELSE /\ Unwind("error")
         /\ UNCHANGED timer

ProviderFails(retryable) ==
    /\ stage = "wait"
    /\ Fail(retryable)
    /\ UNCHANGED <<mode, attempt, emitted, total, event, recorded, usage, lost, client>>

ProviderBreaks ==
    /\ stage = "wait"
    /\ Unwind("cut")
    /\ UNCHANGED <<mode, call, event, recorded, usage, lost, client>>

Retry ==
    /\ stage = "backoff"
    /\ timer = 0
    /\ stage' = "wait"
    /\ attempt' = attempt + 1
    /\ timer' = Idle
    /\ UNCHANGED <<mode, emitted, total, event, recorded, ending, record, client>>

IdleOver == stage = "wait" /\ mode = "stream" /\ timer = 0

\* Mutant: every wait has the idle timeout only.
ExpireIdle ==
    /\ IdleOver
    /\ Fail(TRUE)
    /\ UNCHANGED <<mode, attempt, emitted, total, event, recorded, usage, lost, client>>

\* The total deadline ends the request, an idle wait is a retryable failure.
Expire ==
    /\ stage \in {"wait", "backoff"}
    /\ \/ /\ total = 0
          /\ Unwind("error")
          /\ UNCHANGED timer
       \/ /\ total > 0
          /\ IdleOver
          /\ Fail(TRUE)
    /\ UNCHANGED <<mode, attempt, emitted, total, event, recorded, usage, lost, client>>

-----------------------------------------------------------------------------
(* The usage row *)

\* The short transaction ends: request_id is unique, so a second row is refused;
\* any other error of the database loses the record.  Both are only logged.
Insert(s) ==
    /\ pending' = pending \ {s}
    /\ \/ usage' = (IF usage = "none" THEN s ELSE usage) /\ UNCHANGED lost
       \/ lost' = TRUE /\ UNCHANGED usage

\* What the task does next if it still awaits this write.
Resume(s) ==
    CASE Awaits(s) /\ s = "success" /\ mode = "stream" ->
            stage' = "yielded" /\ UNCHANGED answer
      [] Awaits(s) /\ s = "success" /\ mode = "generate" ->
            stage' = "over" /\ answer' = "done"
      [] Awaits(s) /\ s # "success" ->
            stage' = "over" /\ answer' = Answered(ending)
      [] OTHER -> UNCHANGED <<stage, answer>>

\* Mutant: the flag is not set.
WriteUnnoticed(s) ==
    /\ s \in pending
    /\ Insert(s)
    /\ Resume(s)
    /\ UNCHANGED <<mode, call, event, recorded, ending, seen>>

Write(s) ==
    /\ s \in pending
    /\ Insert(s)
    /\ Resume(s)
    /\ recorded' = (recorded \/ (mode = "stream" /\ s = "success" /\ Awaits(s)))
    /\ UNCHANGED <<mode, call, event, ending, seen>>

-----------------------------------------------------------------------------
(* The client and the event loop *)

\* The encoder sends the event and asks for the next one; after done it closes
\* the stream.
Read ==
    /\ stage = "yielded"
    /\ seen' = seen \cup {attempt}
    /\ IF event = "done"
       THEN answer' = "done" /\ Unwind("closed") /\ UNCHANGED timer
       ELSE answer' = "partial" /\ stage' = "wait" /\ timer' = Idle /\ UNCHANGED <<ending, pending>>
    /\ UNCHANGED <<mode, attempt, emitted, total, event, recorded, usage, lost>>

\* The client left while stream was suspended at its yield.
Close ==
    /\ stage = "yielded"
    /\ Unwind("closed")
    /\ UNCHANGED <<mode, call, event, recorded, usage, lost, client>>

\* The task is cancelled while it awaits the provider or its backoff.
CancelCall ==
    /\ stage \in {"wait", "backoff"}
    /\ Unwind("cancelled")
    /\ UNCHANGED <<mode, call, event, recorded, usage, lost, client>>

\* The task is cancelled while it awaits a write, which goes on or is dropped.
\* Saving a success is inside the handlers of stream, outside those of generate;
\* saving a failure is outside both.
CancelSave(s, dropped) ==
    /\ Awaits(s)
    /\ s \in pending
    /\ lost' = (lost \/ dropped)
    /\ LET left == IF dropped THEN pending \ {s} ELSE pending IN
       IF s = "success" /\ mode = "stream"
       THEN SaveFailure("cancelled", left)
       ELSE /\ stage' = "over"
            /\ pending' = left
            /\ UNCHANGED ending
    /\ UNCHANGED <<mode, call, event, recorded, usage, client>>

\* Time passes; a wait ends no later than its deadline.
Tick ==
    /\ stage \notin {"start", "over"}
    /\ total > 0
    /\ stage = "backoff" => timer > 0
    /\ ~IdleOver
    /\ total' = total - 1
    /\ timer' = IF stage \in {"wait", "backoff"} /\ timer > 0 THEN timer - 1 ELSE timer
    /\ UNCHANGED <<mode, stage, attempt, emitted, event, recorded, ending, record, client>>

Done == stage = "over" /\ pending = {} /\ UNCHANGED vars

-----------------------------------------------------------------------------

Provider ==
    \/ \E k \in Events : Receive(k)
    \/ Complete
    \/ \E retryable \in BOOLEAN : ProviderFails(retryable)
    \/ ProviderBreaks

Next ==
    \/ Prepare
    \/ \E e \in Endings : PrepareFails(e)
    \/ Provider
    \/ Retry
    \/ Expire
    \/ \E s \in Statuses : Write(s)
    \/ Read
    \/ Close
    \/ CancelCall
    \/ \E s \in Statuses, dropped \in BOOLEAN : CancelSave(s, dropped)
    \/ Tick
    \/ Done

\* The event loop runs what is due, threads end, time passes, and a client that
\* is sent an event takes it or leaves.  A deadline that is over is noticed as
\* soon as the provider makes the task wait, which it does again and again
\* because what it has buffered is finite: hence SF.  Nothing is assumed of the
\* provider itself.
Fairness ==
    /\ WF_vars(Prepare)
    /\ WF_vars(Retry)
    /\ SF_vars(Expire)
    /\ WF_vars(\E s \in Statuses : Write(s))
    /\ WF_vars(Read \/ Close)
    /\ WF_vars(Tick)

Spec == Init /\ [][Next]_vars
FairSpec == Spec /\ Fairness

-----------------------------------------------------------------------------
(* Properties *)

\* The client never gets events of two provider calls: once one was passed on,
\* a failure is final (ADR-0027; AIGateway.stream).
OneCallSeen == \A a, b \in seen : a = b

\* The usage row never contradicts what the client was told, whatever
\* cancellation, closing and late writes do: after done it is a success, after
\* an error it is a failure (terminal_recorded, the unique request_id).
UsageTellsOutcome ==
    /\ answer = "done" => usage \in {"none", "success"}
    /\ answer \in {"error", "cut"} => usage \in {"none", "failed"}

\* Every request leaves a usage row, however it ends, unless its write was
\* dropped from the queue or refused by the database.
Recorded == stage = "over" /\ pending = {} /\ ~lost => usage # "none"

\* A provider that hangs, fails or streams for ever does not keep a request
\* alive: the deadlines end it.
Terminates == <>(stage = "over")
================================================================================
