--------------------------- MODULE ChatRequestProofs ---------------------------
(***************************************************************************)
(* Proofs about ChatRequest, for every number of retries and every         *)
(* timeout.  A request has an end from the moment its success is recorded  *)
(* or an exception starts to unwind; before it nothing has been written,   *)
(* and after it at most two writes are under way, the second only because  *)
(* the task was cancelled during the first.                                *)
(***************************************************************************)
EXTENDS ChatRequest, TLAPS

\* The end has been reached, in one way or the other.
Ended ==
    \/ stage \in {"save_success", "save_failure", "over"}
    \/ stage = "yielded" /\ recorded

\* A provider call can be repeated only while the client got nothing.
OneCallKnown ==
    /\ seen \subseteq {attempt}
    /\ ~emitted => seen = {}
    /\ stage \in {"start", "backoff"} => ~emitted
    /\ stage = "backoff" => attempt <= MaxRetries
    /\ stage = "start" => attempt = 0
    /\ stage \in {"wait", "backoff", "yielded", "save_success"} => attempt >= 1
    /\ emitted => mode = "stream"
    /\ stage = "yielded" => mode = "stream"
    /\ stage = "yielded" => emitted
    /\ stage = "save_success" /\ mode = "stream" => emitted

\* Before the end there is no write and no last word to the client.
NothingBeforeEnd ==
    /\ ~Ended => pending = {} /\ usage = "none" /\ ~recorded
    /\ stage # "over" => answer \in {"none", "partial"}
    /\ stage = "yielded" => (recorded <=> event = "done")
    /\ stage = "save_success" => event = "done"

\* While the success is being written, it is the only thing written.
SuccessAlone ==
    /\ stage = "save_success" => pending = {"success"} /\ usage = "none" /\ ~recorded
    /\ recorded => pending = {} /\ usage \in {"none", "success"}
    /\ recorded => stage \in {"yielded", "over"} /\ answer \in {"none", "partial", "done"}

\* A failure is written over a success only when the task was cancelled.
FailureKnown ==
    stage = "save_failure" =>
        /\ ~recorded
        /\ StatusOf(ending) \in pending
        /\ ending \in {"error", "cut"} => pending = {"failed"} /\ usage = "none"

\* What was told to the client is what was written.
ToldAsWritten ==
    /\ answer = "done" => pending = {} /\ usage \in {"none", "success"}
    /\ answer \in {"error", "cut"} => pending = {} /\ usage \in {"none", "failed"}

\* From the end on there is a row, a write under way, or a lost one.
Traced == Ended => usage # "none" \/ pending # {} \/ lost

IInv ==
    /\ TypeOK
    /\ OneCallKnown
    /\ NothingBeforeEnd
    /\ SuccessAlone
    /\ FailureKnown
    /\ ToldAsWritten
    /\ Traced

-----------------------------------------------------------------------------

LEMMA InitIInv == Init => IInv
  <1> SUFFICES ASSUME Init PROVE IInv
    OBVIOUS
  <1> USE DEF Init, Modes, Stages, Statuses, Events, Endings
  <1>1. mode \in Modes /\ stage \in Stages /\ event \in Events /\ ending \in Endings
    OBVIOUS
  <1>11. attempt \in 0..(MaxRetries + 1) /\ total \in 0..Total /\ timer \in Int
    BY ChatAssumption
  <1>12. emitted \in BOOLEAN /\ recorded \in BOOLEAN /\ lost \in BOOLEAN
    OBVIOUS
  <1>13. pending \in SUBSET Statuses /\ seen \in SUBSET (1..(MaxRetries + 1))
    OBVIOUS
  <1>2. TypeOK
    BY <1>1, <1>11, <1>12, <1>13 DEF TypeOK
  <1>3. OneCallKnown /\ NothingBeforeEnd /\ SuccessAlone /\ FailureKnown
    BY DEF OneCallKnown, NothingBeforeEnd, SuccessAlone, FailureKnown, Ended
  <1>4. ToldAsWritten /\ Traced
    BY DEF ToldAsWritten, Traced, Ended
  <1> QED
    BY <1>2, <1>3, <1>4 DEF IInv

\* The invariant is preserved by every action, a conjunct at a time.
USE DEF vars, call, record, client, Modes, Stages, Statuses, Events, Endings

LEMMA PrepareStep == ASSUME IInv, Prepare PROVE IInv'
  <1> USE DEF IInv, Prepare
  <1>1. TypeOK'
    BY ChatAssumption DEF TypeOK, OneCallKnown
  <1>2. OneCallKnown'
    BY ChatAssumption DEF OneCallKnown, TypeOK
  <1>3. NothingBeforeEnd'
    BY DEF NothingBeforeEnd, Ended, TypeOK, SuccessAlone
  <1>4. SuccessAlone'
    BY DEF NothingBeforeEnd, SuccessAlone, Ended, TypeOK
  <1>5. FailureKnown'
    BY DEF NothingBeforeEnd, SuccessAlone, FailureKnown, Ended, TypeOK, StatusOf
  <1>6. ToldAsWritten'
    BY DEF NothingBeforeEnd, SuccessAlone, FailureKnown, ToldAsWritten, Ended, TypeOK, StatusOf
  <1>7. Traced'
    BY DEF NothingBeforeEnd, SuccessAlone, FailureKnown, Traced, Ended, TypeOK, StatusOf
  <1> QED
    BY <1>1, <1>2, <1>3, <1>4, <1>5, <1>6, <1>7

LEMMA PrepareFailsStep == ASSUME NEW e \in Endings, IInv, PrepareFails(e) PROVE IInv'
  <1> USE DEF IInv, PrepareFails, Unwind, SaveFailure, StatusOf
  <1>1. TypeOK'
    <2>1. pending' \in SUBSET Statuses
      BY DEF TypeOK
    <2>2. stage' \in Stages /\ ending' \in Endings /\ event' \in Events
      BY DEF TypeOK
    <2>3. recorded' \in BOOLEAN /\ lost' \in BOOLEAN /\ emitted' \in BOOLEAN
      BY DEF TypeOK
    <2>4. /\ usage' \in Statuses \cup {"none"}
          /\ answer' \in {"none", "partial", "done", "error", "cut"}
      BY DEF TypeOK
    <2>5. timer' \in Int /\ total' \in 0..Total /\ attempt' \in 0..(MaxRetries + 1)
      BY ChatAssumption DEF TypeOK
    <2>6. seen' \in SUBSET (1..(MaxRetries + 1)) /\ mode' \in Modes
      BY ChatAssumption DEF TypeOK, OneCallKnown
    <2> QED
      BY <2>1, <2>2, <2>3, <2>4, <2>5, <2>6 DEF TypeOK
  <1>2. OneCallKnown'
    BY ChatAssumption DEF OneCallKnown, TypeOK
  <1>3. NothingBeforeEnd'
    BY DEF NothingBeforeEnd, Ended, TypeOK, SuccessAlone
  <1>4. SuccessAlone'
    BY DEF NothingBeforeEnd, SuccessAlone, Ended, TypeOK
  <1>5. FailureKnown'
    BY DEF NothingBeforeEnd, SuccessAlone, FailureKnown, Ended, TypeOK, StatusOf
  <1>6. ToldAsWritten'
    BY DEF NothingBeforeEnd, SuccessAlone, FailureKnown, ToldAsWritten, Ended, TypeOK, StatusOf
  <1>7. Traced'
    BY DEF NothingBeforeEnd, SuccessAlone, FailureKnown, Traced, Ended, TypeOK, StatusOf
  <1> QED
    BY <1>1, <1>2, <1>3, <1>4, <1>5, <1>6, <1>7

LEMMA ReceiveStep == ASSUME NEW k \in Events, IInv, Receive(k) PROVE IInv'
  <1> USE DEF IInv, Receive
  <1>1. TypeOK'
    BY ChatAssumption DEF TypeOK, OneCallKnown
  <1>2. OneCallKnown'
    BY ChatAssumption DEF OneCallKnown, TypeOK
  <1>3. NothingBeforeEnd'
    BY DEF NothingBeforeEnd, Ended, TypeOK, SuccessAlone
  <1>4. SuccessAlone'
    BY DEF NothingBeforeEnd, SuccessAlone, Ended, TypeOK
  <1>5. FailureKnown'
    BY DEF NothingBeforeEnd, SuccessAlone, FailureKnown, Ended, TypeOK, StatusOf
  <1>6. ToldAsWritten'
    BY DEF NothingBeforeEnd, SuccessAlone, FailureKnown, ToldAsWritten, Ended, TypeOK, StatusOf
  <1>7. Traced'
    BY DEF NothingBeforeEnd, SuccessAlone, FailureKnown, Traced, Ended, TypeOK, StatusOf
  <1> QED
    BY <1>1, <1>2, <1>3, <1>4, <1>5, <1>6, <1>7

LEMMA CompleteStep == ASSUME IInv, Complete PROVE IInv'
  <1> USE DEF IInv, Complete
  <1>1. TypeOK'
    BY ChatAssumption DEF TypeOK, OneCallKnown
  <1>2. OneCallKnown'
    <2>1. CASE mode = "stream"
      BY <2>1 DEF OneCallKnown, TypeOK
    <2>2. CASE mode # "stream"
      <3>1. emitted' = FALSE
        BY <2>2
      <3> QED
        BY <2>2, <3>1 DEF OneCallKnown, TypeOK
    <2> QED
      BY <2>1, <2>2
  <1>3. NothingBeforeEnd'
    BY DEF NothingBeforeEnd, Ended, TypeOK, SuccessAlone
  <1>4. SuccessAlone'
    BY DEF NothingBeforeEnd, SuccessAlone, Ended, TypeOK
  <1>5. FailureKnown'
    BY DEF NothingBeforeEnd, SuccessAlone, FailureKnown, Ended, TypeOK, StatusOf
  <1>6. ToldAsWritten'
    BY DEF NothingBeforeEnd, SuccessAlone, FailureKnown, ToldAsWritten, Ended, TypeOK, StatusOf
  <1>7. Traced'
    BY DEF NothingBeforeEnd, SuccessAlone, FailureKnown, Traced, Ended, TypeOK, StatusOf
  <1> QED
    BY <1>1, <1>2, <1>3, <1>4, <1>5, <1>6, <1>7

LEMMA ProviderFailsStep == ASSUME NEW r \in BOOLEAN, IInv, ProviderFails(r) PROVE IInv'
  <1> USE DEF IInv, ProviderFails, Fail, Unwind, SaveFailure, StatusOf
  <1>1. TypeOK'
    <2>1. Backoff * 2^(attempt - 1) \in Int
      <3>1. attempt - 1 \in Nat
        BY DEF TypeOK, OneCallKnown
      <3>2. 2^(attempt - 1) \in Int
        BY <3>1
      <3> QED
        BY <3>2, ChatAssumption
    <2>2. timer' \in Int
      BY <2>1 DEF TypeOK
    <2>3. pending' \in SUBSET Statuses /\ ending' \in Endings /\ stage' \in Stages
      BY DEF TypeOK
    <2> QED
      BY <2>2, <2>3 DEF TypeOK
  <1>2. OneCallKnown'
    BY ChatAssumption DEF OneCallKnown, TypeOK
  <1>3. NothingBeforeEnd'
    BY DEF NothingBeforeEnd, Ended, TypeOK, SuccessAlone
  <1>4. SuccessAlone'
    BY DEF NothingBeforeEnd, SuccessAlone, Ended, TypeOK
  <1>5. FailureKnown'
    BY DEF NothingBeforeEnd, SuccessAlone, FailureKnown, Ended, TypeOK, StatusOf
  <1>6. ToldAsWritten'
    BY DEF NothingBeforeEnd, SuccessAlone, FailureKnown, ToldAsWritten, Ended, TypeOK, StatusOf
  <1>7. Traced'
    BY DEF NothingBeforeEnd, SuccessAlone, FailureKnown, Traced, Ended, TypeOK, StatusOf
  <1> QED
    BY <1>1, <1>2, <1>3, <1>4, <1>5, <1>6, <1>7

LEMMA ProviderBreaksStep == ASSUME IInv, ProviderBreaks PROVE IInv'
  <1> USE DEF IInv, ProviderBreaks, Unwind, SaveFailure, StatusOf
  <1>1. TypeOK'
    <2>1. pending' \in SUBSET Statuses
      BY DEF TypeOK
    <2>2. stage' \in Stages /\ ending' \in Endings /\ event' \in Events
      BY DEF TypeOK
    <2>3. recorded' \in BOOLEAN /\ lost' \in BOOLEAN /\ emitted' \in BOOLEAN
      BY DEF TypeOK
    <2>4. /\ usage' \in Statuses \cup {"none"}
          /\ answer' \in {"none", "partial", "done", "error", "cut"}
      BY DEF TypeOK
    <2>5. timer' \in Int /\ total' \in 0..Total /\ attempt' \in 0..(MaxRetries + 1)
      BY ChatAssumption DEF TypeOK
    <2>6. seen' \in SUBSET (1..(MaxRetries + 1)) /\ mode' \in Modes
      BY ChatAssumption DEF TypeOK, OneCallKnown
    <2> QED
      BY <2>1, <2>2, <2>3, <2>4, <2>5, <2>6 DEF TypeOK
  <1>2. OneCallKnown'
    BY ChatAssumption DEF OneCallKnown, TypeOK
  <1>3. NothingBeforeEnd'
    BY DEF NothingBeforeEnd, Ended, TypeOK, SuccessAlone
  <1>4. SuccessAlone'
    BY DEF NothingBeforeEnd, SuccessAlone, Ended, TypeOK
  <1>5. FailureKnown'
    BY DEF NothingBeforeEnd, SuccessAlone, FailureKnown, Ended, TypeOK, StatusOf
  <1>6. ToldAsWritten'
    BY DEF NothingBeforeEnd, SuccessAlone, FailureKnown, ToldAsWritten, Ended, TypeOK, StatusOf
  <1>7. Traced'
    BY DEF NothingBeforeEnd, SuccessAlone, FailureKnown, Traced, Ended, TypeOK, StatusOf
  <1> QED
    BY <1>1, <1>2, <1>3, <1>4, <1>5, <1>6, <1>7

LEMMA RetryStep == ASSUME IInv, Retry PROVE IInv'
  <1> USE DEF IInv, Retry
  <1>1. TypeOK'
    BY ChatAssumption DEF TypeOK, OneCallKnown
  <1>2. OneCallKnown'
    BY ChatAssumption DEF OneCallKnown, TypeOK
  <1>3. NothingBeforeEnd'
    BY DEF NothingBeforeEnd, Ended, TypeOK, SuccessAlone
  <1>4. SuccessAlone'
    BY DEF NothingBeforeEnd, SuccessAlone, Ended, TypeOK
  <1>5. FailureKnown'
    BY DEF NothingBeforeEnd, SuccessAlone, FailureKnown, Ended, TypeOK, StatusOf
  <1>6. ToldAsWritten'
    BY DEF NothingBeforeEnd, SuccessAlone, FailureKnown, ToldAsWritten, Ended, TypeOK, StatusOf
  <1>7. Traced'
    BY DEF NothingBeforeEnd, SuccessAlone, FailureKnown, Traced, Ended, TypeOK, StatusOf
  <1> QED
    BY <1>1, <1>2, <1>3, <1>4, <1>5, <1>6, <1>7

LEMMA ExpireStep == ASSUME IInv, Expire PROVE IInv'
  <1> USE DEF IInv, Expire, Fail, IdleOver, Unwind, SaveFailure, StatusOf
  <1>1. TypeOK'
    <2>1. Backoff * 2^(attempt - 1) \in Int
      <3>1. attempt - 1 \in Nat
        BY DEF TypeOK, OneCallKnown
      <3>2. 2^(attempt - 1) \in Int
        BY <3>1
      <3> QED
        BY <3>2, ChatAssumption
    <2>2. timer' \in Int
      BY <2>1 DEF TypeOK
    <2>3. pending' \in SUBSET Statuses /\ ending' \in Endings /\ stage' \in Stages
      BY DEF TypeOK
    <2> QED
      BY <2>2, <2>3 DEF TypeOK
  <1>2. OneCallKnown'
    BY ChatAssumption DEF OneCallKnown, TypeOK
  <1>3. NothingBeforeEnd'
    BY DEF NothingBeforeEnd, Ended, TypeOK, SuccessAlone
  <1>4. SuccessAlone'
    BY DEF NothingBeforeEnd, SuccessAlone, Ended, TypeOK
  <1>5. FailureKnown'
    BY DEF NothingBeforeEnd, SuccessAlone, FailureKnown, Ended, TypeOK, StatusOf
  <1>6. ToldAsWritten'
    BY DEF NothingBeforeEnd, SuccessAlone, FailureKnown, ToldAsWritten, Ended, TypeOK, StatusOf
  <1>7. Traced'
    BY DEF NothingBeforeEnd, SuccessAlone, FailureKnown, Traced, Ended, TypeOK, StatusOf
  <1> QED
    BY <1>1, <1>2, <1>3, <1>4, <1>5, <1>6, <1>7

LEMMA WriteStep == ASSUME NEW s \in Statuses, IInv, Write(s) PROVE IInv'
  <1> USE DEF IInv, Write, Insert, Resume, Awaits, StatusOf, Answered
  <1>1. TypeOK'
    <2>1. pending' \in SUBSET Statuses
      BY DEF TypeOK
    <2>2. stage' \in Stages /\ ending' \in Endings /\ event' \in Events
      BY DEF TypeOK
    <2>3. recorded' \in BOOLEAN /\ lost' \in BOOLEAN /\ emitted' \in BOOLEAN
      BY DEF TypeOK
    <2>4. /\ usage' \in Statuses \cup {"none"}
          /\ answer' \in {"none", "partial", "done", "error", "cut"}
      BY DEF TypeOK
    <2>5. timer' \in Int /\ total' \in 0..Total /\ attempt' \in 0..(MaxRetries + 1)
      BY ChatAssumption DEF TypeOK
    <2>6. seen' \in SUBSET (1..(MaxRetries + 1)) /\ mode' \in Modes
      BY ChatAssumption DEF TypeOK, OneCallKnown
    <2> QED
      BY <2>1, <2>2, <2>3, <2>4, <2>5, <2>6 DEF TypeOK
  <1>2. OneCallKnown'
    BY ChatAssumption DEF OneCallKnown, TypeOK
  <1>3. NothingBeforeEnd'
    BY DEF NothingBeforeEnd, Ended, TypeOK, SuccessAlone
  <1>4. SuccessAlone'
    BY DEF NothingBeforeEnd, SuccessAlone, Ended, TypeOK
  <1>5. FailureKnown'
    BY DEF NothingBeforeEnd, SuccessAlone, FailureKnown, Ended, TypeOK, StatusOf
  <1>6. ToldAsWritten'
    BY DEF NothingBeforeEnd, SuccessAlone, FailureKnown, ToldAsWritten, Ended, TypeOK, StatusOf
  <1>7. Traced'
    BY DEF NothingBeforeEnd, SuccessAlone, FailureKnown, Traced, Ended, TypeOK, StatusOf
  <1> QED
    BY <1>1, <1>2, <1>3, <1>4, <1>5, <1>6, <1>7

LEMMA ReadStep == ASSUME IInv, Read PROVE IInv'
  <1> USE DEF IInv, Read, Unwind, SaveFailure, StatusOf
  <1>1. TypeOK'
    <2>1. pending' \in SUBSET Statuses
      BY DEF TypeOK
    <2>2. stage' \in Stages /\ ending' \in Endings /\ event' \in Events
      BY DEF TypeOK
    <2>3. recorded' \in BOOLEAN /\ lost' \in BOOLEAN /\ emitted' \in BOOLEAN
      BY DEF TypeOK
    <2>4. /\ usage' \in Statuses \cup {"none"}
          /\ answer' \in {"none", "partial", "done", "error", "cut"}
      BY DEF TypeOK
    <2>5. timer' \in Int /\ total' \in 0..Total /\ attempt' \in 0..(MaxRetries + 1)
      BY ChatAssumption DEF TypeOK
    <2>6. seen' \in SUBSET (1..(MaxRetries + 1)) /\ mode' \in Modes
      BY ChatAssumption DEF TypeOK, OneCallKnown
    <2> QED
      BY <2>1, <2>2, <2>3, <2>4, <2>5, <2>6 DEF TypeOK
  <1>2. OneCallKnown'
    <2>1. seen' = {attempt}
      BY DEF OneCallKnown
    <2>2. stage' \in {"over", "save_failure", "wait"}
      OBVIOUS
    <2>3. stage' = "wait" => attempt >= 1
      BY DEF OneCallKnown
    <2> QED
      BY <2>1, <2>2, <2>3 DEF OneCallKnown, TypeOK
  <1>3. NothingBeforeEnd'
    <2>1. CASE event = "done"
      <3>1. recorded
        BY <2>1 DEF NothingBeforeEnd
      <3>2. stage' = "over"
        BY <2>1, <3>1
      <3> QED
        BY <3>2 DEF NothingBeforeEnd, Ended
    <2>2. CASE event # "done"
      BY <2>2 DEF NothingBeforeEnd, Ended, TypeOK, SuccessAlone
    <2> QED
      BY <2>1, <2>2
  <1>4. SuccessAlone'
    <2>1. CASE event = "done"
      <3>1. recorded
        BY <2>1 DEF NothingBeforeEnd
      <3>2. stage' = "over" /\ pending' = pending /\ answer' = "done"
        BY <2>1, <3>1
      <3> QED
        BY <3>1, <3>2 DEF SuccessAlone
    <2>2. CASE event # "done"
      BY <2>2 DEF NothingBeforeEnd, SuccessAlone, Ended, TypeOK
    <2> QED
      BY <2>1, <2>2
  <1>5. FailureKnown'
    BY DEF NothingBeforeEnd, SuccessAlone, FailureKnown, Ended, TypeOK, StatusOf
  <1>6. ToldAsWritten'
    BY DEF NothingBeforeEnd, SuccessAlone, FailureKnown, ToldAsWritten, Ended, TypeOK, StatusOf
  <1>7. Traced'
    BY DEF NothingBeforeEnd, SuccessAlone, FailureKnown, Traced, Ended, TypeOK, StatusOf
  <1> QED
    BY <1>1, <1>2, <1>3, <1>4, <1>5, <1>6, <1>7

LEMMA CloseStep == ASSUME IInv, Close PROVE IInv'
  <1> USE DEF IInv, Close, Unwind, SaveFailure, StatusOf
  <1>1. TypeOK'
    <2>1. pending' \in SUBSET Statuses
      BY DEF TypeOK
    <2>2. stage' \in Stages /\ ending' \in Endings /\ event' \in Events
      BY DEF TypeOK
    <2>3. recorded' \in BOOLEAN /\ lost' \in BOOLEAN /\ emitted' \in BOOLEAN
      BY DEF TypeOK
    <2>4. /\ usage' \in Statuses \cup {"none"}
          /\ answer' \in {"none", "partial", "done", "error", "cut"}
      BY DEF TypeOK
    <2>5. timer' \in Int /\ total' \in 0..Total /\ attempt' \in 0..(MaxRetries + 1)
      BY ChatAssumption DEF TypeOK
    <2>6. seen' \in SUBSET (1..(MaxRetries + 1)) /\ mode' \in Modes
      BY ChatAssumption DEF TypeOK, OneCallKnown
    <2> QED
      BY <2>1, <2>2, <2>3, <2>4, <2>5, <2>6 DEF TypeOK
  <1>2. OneCallKnown'
    BY ChatAssumption DEF OneCallKnown, TypeOK
  <1>3. NothingBeforeEnd'
    BY DEF NothingBeforeEnd, Ended, TypeOK, SuccessAlone
  <1>4. SuccessAlone'
    BY DEF NothingBeforeEnd, SuccessAlone, Ended, TypeOK
  <1>5. FailureKnown'
    BY DEF NothingBeforeEnd, SuccessAlone, FailureKnown, Ended, TypeOK, StatusOf
  <1>6. ToldAsWritten'
    BY DEF NothingBeforeEnd, SuccessAlone, FailureKnown, ToldAsWritten, Ended, TypeOK, StatusOf
  <1>7. Traced'
    BY DEF NothingBeforeEnd, SuccessAlone, FailureKnown, Traced, Ended, TypeOK, StatusOf
  <1> QED
    BY <1>1, <1>2, <1>3, <1>4, <1>5, <1>6, <1>7

LEMMA CancelCallStep == ASSUME IInv, CancelCall PROVE IInv'
  <1> USE DEF IInv, CancelCall, Unwind, SaveFailure, StatusOf
  <1>1. TypeOK'
    <2>1. pending' \in SUBSET Statuses
      BY DEF TypeOK
    <2>2. stage' \in Stages /\ ending' \in Endings /\ event' \in Events
      BY DEF TypeOK
    <2>3. recorded' \in BOOLEAN /\ lost' \in BOOLEAN /\ emitted' \in BOOLEAN
      BY DEF TypeOK
    <2>4. /\ usage' \in Statuses \cup {"none"}
          /\ answer' \in {"none", "partial", "done", "error", "cut"}
      BY DEF TypeOK
    <2>5. timer' \in Int /\ total' \in 0..Total /\ attempt' \in 0..(MaxRetries + 1)
      BY ChatAssumption DEF TypeOK
    <2>6. seen' \in SUBSET (1..(MaxRetries + 1)) /\ mode' \in Modes
      BY ChatAssumption DEF TypeOK, OneCallKnown
    <2> QED
      BY <2>1, <2>2, <2>3, <2>4, <2>5, <2>6 DEF TypeOK
  <1>2. OneCallKnown'
    BY ChatAssumption DEF OneCallKnown, TypeOK
  <1>3. NothingBeforeEnd'
    BY DEF NothingBeforeEnd, Ended, TypeOK, SuccessAlone
  <1>4. SuccessAlone'
    BY DEF NothingBeforeEnd, SuccessAlone, Ended, TypeOK
  <1>5. FailureKnown'
    BY DEF NothingBeforeEnd, SuccessAlone, FailureKnown, Ended, TypeOK, StatusOf
  <1>6. ToldAsWritten'
    BY DEF NothingBeforeEnd, SuccessAlone, FailureKnown, ToldAsWritten, Ended, TypeOK, StatusOf
  <1>7. Traced'
    BY DEF NothingBeforeEnd, SuccessAlone, FailureKnown, Traced, Ended, TypeOK, StatusOf
  <1> QED
    BY <1>1, <1>2, <1>3, <1>4, <1>5, <1>6, <1>7

LEMMA CancelSaveStep ==
  ASSUME NEW s \in Statuses, NEW d \in BOOLEAN, IInv, CancelSave(s, d) PROVE IInv'
  <1> USE DEF IInv, CancelSave, Awaits, SaveFailure, StatusOf
  <1>1. TypeOK'
    <2>1. pending' \in SUBSET Statuses
      BY DEF TypeOK
    <2>2. stage' \in Stages /\ ending' \in Endings /\ event' \in Events
      BY DEF TypeOK
    <2>3. recorded' \in BOOLEAN /\ lost' \in BOOLEAN /\ emitted' \in BOOLEAN
      BY DEF TypeOK
    <2>4. /\ usage' \in Statuses \cup {"none"}
          /\ answer' \in {"none", "partial", "done", "error", "cut"}
      BY DEF TypeOK
    <2>5. timer' \in Int /\ total' \in 0..Total /\ attempt' \in 0..(MaxRetries + 1)
      BY ChatAssumption DEF TypeOK
    <2>6. seen' \in SUBSET (1..(MaxRetries + 1)) /\ mode' \in Modes
      BY ChatAssumption DEF TypeOK, OneCallKnown
    <2> QED
      BY <2>1, <2>2, <2>3, <2>4, <2>5, <2>6 DEF TypeOK
  <1>2. OneCallKnown'
    BY ChatAssumption DEF OneCallKnown, TypeOK
  <1>3. NothingBeforeEnd'
    BY DEF NothingBeforeEnd, Ended, TypeOK, SuccessAlone
  <1>4. SuccessAlone'
    BY DEF NothingBeforeEnd, SuccessAlone, Ended, TypeOK
  <1>5. FailureKnown'
    BY DEF NothingBeforeEnd, SuccessAlone, FailureKnown, Ended, TypeOK, StatusOf
  <1>6. ToldAsWritten'
    BY DEF NothingBeforeEnd, SuccessAlone, FailureKnown, ToldAsWritten, Ended, TypeOK, StatusOf
  <1>7. Traced'
    BY DEF NothingBeforeEnd, SuccessAlone, FailureKnown, Traced, Ended, TypeOK, StatusOf
  <1> QED
    BY <1>1, <1>2, <1>3, <1>4, <1>5, <1>6, <1>7

LEMMA TickStep == ASSUME IInv, Tick PROVE IInv'
  <1> USE DEF IInv, Tick, IdleOver
  <1>1. TypeOK'
    BY ChatAssumption DEF TypeOK, OneCallKnown
  <1>2. OneCallKnown'
    BY ChatAssumption DEF OneCallKnown, TypeOK
  <1>3. NothingBeforeEnd'
    BY DEF NothingBeforeEnd, Ended, TypeOK, SuccessAlone
  <1>4. SuccessAlone'
    BY DEF NothingBeforeEnd, SuccessAlone, Ended, TypeOK
  <1>5. FailureKnown'
    BY DEF NothingBeforeEnd, SuccessAlone, FailureKnown, Ended, TypeOK, StatusOf
  <1>6. ToldAsWritten'
    BY DEF NothingBeforeEnd, SuccessAlone, FailureKnown, ToldAsWritten, Ended, TypeOK, StatusOf
  <1>7. Traced'
    BY DEF NothingBeforeEnd, SuccessAlone, FailureKnown, Traced, Ended, TypeOK, StatusOf
  <1> QED
    BY <1>1, <1>2, <1>3, <1>4, <1>5, <1>6, <1>7

-----------------------------------------------------------------------------

LEMMA StepIInv == IInv /\ [Next]_vars => IInv'
  <1> SUFFICES ASSUME IInv, [Next]_vars PROVE IInv'
    OBVIOUS
  <1>1. CASE Prepare
    BY <1>1, PrepareStep
  <1>2. ASSUME NEW e \in Endings, PrepareFails(e) PROVE IInv'
    BY <1>2, PrepareFailsStep
  <1>3. CASE Provider
    <2>1. ASSUME NEW k \in Events, Receive(k) PROVE IInv'
      BY <2>1, ReceiveStep
    <2>2. CASE Complete
      BY <2>2, CompleteStep
    <2>3. ASSUME NEW r \in BOOLEAN, ProviderFails(r) PROVE IInv'
      BY <2>3, ProviderFailsStep
    <2>4. CASE ProviderBreaks
      BY <2>4, ProviderBreaksStep
    <2> QED
      BY <1>3, <2>1, <2>2, <2>3, <2>4 DEF Provider
  <1>4. CASE Retry
    BY <1>4, RetryStep
  <1>5. CASE Expire
    BY <1>5, ExpireStep
  <1>6. ASSUME NEW s \in Statuses, Write(s) PROVE IInv'
    BY <1>6, WriteStep
  <1>7. CASE Read
    BY <1>7, ReadStep
  <1>8. CASE Close
    BY <1>8, CloseStep
  <1>9. CASE CancelCall
    BY <1>9, CancelCallStep
  <1>10. ASSUME NEW s \in Statuses, NEW d \in BOOLEAN, CancelSave(s, d) PROVE IInv'
    BY <1>10, CancelSaveStep
  <1>11. CASE Tick
    BY <1>11, TickStep
  <1>12. CASE UNCHANGED vars
    BY <1>12 DEF IInv, TypeOK, OneCallKnown, NothingBeforeEnd, SuccessAlone,
       FailureKnown, ToldAsWritten, Traced, Ended, StatusOf
  <1> QED
    BY <1>1, <1>2, <1>3, <1>4, <1>5, <1>6, <1>7, <1>8, <1>9, <1>10, <1>11, <1>12
    DEF Next, Done

LEMMA Inductive == Spec => []IInv
  BY InitIInv, StepIInv, PTL DEF Spec

\* Every variable has its type; in particular the provider is called at most
\* MaxRetries + 1 times (AIGateway).
THEOREM TypeCorrect == Spec => []TypeOK
  <1>1. IInv => TypeOK
    BY DEF IInv
  <1> QED
    BY <1>1, Inductive, PTL

\* OneCallSeen, for any number of retries: a client that got an event of one
\* provider call never gets one of another.
THEOREM OneCallCorrect == Spec => []OneCallSeen
  <1>1. IInv => OneCallSeen
    BY DEF IInv, OneCallKnown, OneCallSeen
  <1> QED
    BY <1>1, Inductive, PTL

\* UsageTellsOutcome, for every timeout: the usage row agrees with the last word
\* the client got.
THEOREM OutcomeCorrect == Spec => []UsageTellsOutcome
  <1>1. IInv => UsageTellsOutcome
    BY DEF IInv, ToldAsWritten, UsageTellsOutcome
  <1> QED
    BY <1>1, Inductive, PTL

\* Recorded, for every timeout: no ending leaves the request without a row unless
\* a write was lost.
THEOREM RecordCorrect == Spec => []Recorded
  <1>1. IInv => Recorded
    BY DEF IInv, Traced, Ended, Recorded
  <1> QED
    BY <1>1, Inductive, PTL
================================================================================
