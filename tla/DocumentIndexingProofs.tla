------------------------ MODULE DocumentIndexingProofs ------------------------
(***************************************************************************)
(* Proofs about DocumentIndexing, for any number of calls, configurations, *)
(* versions and batches.  IInv is inductive whatever retries interleave;   *)
(* VInv, about the vectors, needs retries of a version to be serial.       *)
(***************************************************************************)
EXTENDS DocumentIndexing, TLAPS

\* What a call knows of the version it works on.
CallInv(c) ==
    /\ stage[c] # "idle" => ver[c] \in Versions
    /\ stage[c] = "persist" =>
         /\ config[c] \in Configs
         /\ \A w \in Versions : w < ver[c] => Exists(w)
    /\ stage[c] \notin {"idle", "persist"} => Exists(ver[c])
    /\ stage[c] = "upsert" => sent[c] < NumBatches
    /\ stage[c] \notin {"upsert", "compensate", "complete", "mark_failed"} =>
         sent[c] = 0

\* Inductive with no assumption on how calls interleave.
IInv ==
    /\ TypeOK
    /\ VersionTable
    /\ OneOwner
    /\ ActiveIsNewestIndexed
    /\ \A c \in Calls : CallInv(c)

-----------------------------------------------------------------------------
LEMMA InitIInv == Init => IInv
  BY ConfigsAssumption, BoundsAssumption
  DEF Init, IInv, TypeOK, VersionTable, OneOwner, ActiveIsNewestIndexed, CallInv,
      Versions, VersionStatus, Stages, Owning, Snapshots, Exists, Batches

-----------------------------------------------------------------------------
LEMMA StepIInv == IInv /\ [Next]_vars => IInv'
  <1> SUFFICES ASSUME IInv, [Next]_vars PROVE IInv'
    OBVIOUS
  <1> USE BoundsAssumption, ConfigsAssumption
      DEF IInv, Goto, Opens, Ends, CurrentSnapshot, DeletesPoints, MayDeletePoints, table
  <1>1. CASE UNCHANGED vars
    BY <1>1 DEF vars, TypeOK, VersionTable, OneOwner, ActiveIsNewestIndexed, CallInv, Exists
  <1>2. ASSUME NEW c \in Calls, NEW g \in Configs, BeginPrepare(c, g) PROVE IInv'
    <2>1. PICK v \in Versions, s \in {"prepared", "persist"} :
            /\ ver' = [ver EXCEPT ![c] = v]
            /\ stage' = [stage EXCEPT ![c] = s]
            /\ s = "prepared" => Exists(v)
            /\ s = "persist" => IsNextNumber(v)
      BY <1>2 DEF BeginPrepare, VersionTable, TypeOK
    <2>2. /\ stage[c] = "idle"
          /\ config' = [config EXCEPT ![c] = g]
          /\ snapshot' = [snapshot EXCEPT ![c] = "ready"]
          /\ UNCHANGED <<fileReady, table, points, sent, verdict>>
      BY <1>2 DEF BeginPrepare
    <2>3. TypeOK'
      BY <2>1, <2>2 DEF TypeOK, Stages, Snapshots, Versions
    <2>4. VersionTable' /\ ActiveIsNewestIndexed'
      BY <2>2 DEF VersionTable, ActiveIsNewestIndexed, Exists
    <2>5. OneOwner'
      BY <2>1, <2>2 DEF TypeOK, OneOwner, Owning
    <2>6. \A d \in Calls : CallInv(d)'
      BY <2>1, <2>2 DEF TypeOK, CallInv, VersionTable, Exists, IsNextNumber, Versions
    <2> QED BY <2>3, <2>4, <2>5, <2>6
  <1>3. ASSUME NEW c \in Calls, PersistVersion(c) PROVE IInv'
    <2> USE <1>3 DEF PersistVersion
    <2>1. TypeOK'
      BY DEF TypeOK, CallInv, Stages, VersionStatus, Snapshots, Batches, Versions, Exists
    <2>2. VersionTable'
      BY DEF TypeOK, VersionTable, CallInv, Exists, Versions
    <2>3. OneOwner'
      BY DEF TypeOK, OneOwner, Owning, CallInv
    <2>4. ActiveIsNewestIndexed'
      BY DEF TypeOK, ActiveIsNewestIndexed, OneOwner, Owning, CallInv, Versions, Exists
    <2>5. \A d \in Calls : CallInv(d)'
      BY DEF TypeOK, CallInv, VersionTable, Exists, IsNextNumber, Stages, Versions, OneOwner, Owning
    <2> QED BY <2>1, <2>2, <2>3, <2>4, <2>5
  <1>4. ASSUME NEW c \in Calls, ReuseVersion(c) PROVE IInv'
    <2> USE <1>4 DEF ReuseVersion
    <2>1. TypeOK'
      BY DEF TypeOK, CallInv, Stages, VersionStatus, Snapshots, Batches, Versions, Exists
    <2>2. VersionTable'
      BY DEF TypeOK, VersionTable, CallInv, Exists, Versions
    <2>3. OneOwner'
      BY DEF TypeOK, OneOwner, Owning, CallInv
    <2>4. ActiveIsNewestIndexed'
      BY DEF TypeOK, ActiveIsNewestIndexed, OneOwner, Owning, CallInv, Versions, Exists
    <2>5. \A d \in Calls : CallInv(d)'
      BY DEF TypeOK, CallInv, VersionTable, Exists, IsNextNumber, Stages, Versions, OneOwner, Owning
    <2> QED BY <2>1, <2>2, <2>3, <2>4, <2>5
  <1>5. ASSUME NEW c \in Calls, RefuseVersion(c) PROVE IInv'
    <2> USE <1>5 DEF RefuseVersion
    <2>1. TypeOK'
      BY DEF TypeOK, CallInv, Stages, VersionStatus, Snapshots, Batches, Versions, Exists
    <2>2. VersionTable'
      BY DEF TypeOK, VersionTable, CallInv, Exists, Versions
    <2>3. OneOwner'
      BY DEF TypeOK, OneOwner, Owning, CallInv
    <2>4. ActiveIsNewestIndexed'
      BY DEF TypeOK, ActiveIsNewestIndexed, OneOwner, Owning, CallInv, Versions, Exists
    <2>5. \A d \in Calls : CallInv(d)'
      BY DEF TypeOK, CallInv, VersionTable, Exists, IsNextNumber, Stages, Versions, OneOwner, Owning
    <2> QED BY <2>1, <2>2, <2>3, <2>4, <2>5
  <1>6. ASSUME NEW c \in Calls, ReturnPrepared(c) PROVE IInv'
    <2> USE <1>6 DEF ReturnPrepared
    <2>1. TypeOK'
      BY DEF TypeOK, CallInv, Stages, VersionStatus, Snapshots, Batches, Versions, Exists
    <2>2. VersionTable'
      BY DEF TypeOK, VersionTable, CallInv, Exists, Versions
    <2>3. OneOwner'
      BY DEF TypeOK, OneOwner, Owning, CallInv
    <2>4. ActiveIsNewestIndexed'
      BY DEF TypeOK, ActiveIsNewestIndexed, OneOwner, Owning, CallInv, Versions, Exists
    <2>5. \A d \in Calls : CallInv(d)'
      BY DEF TypeOK, CallInv, VersionTable, Exists, IsNextNumber, Stages, Versions, OneOwner, Owning
    <2> QED BY <2>1, <2>2, <2>3, <2>4, <2>5
  <1>7. ASSUME NEW c \in Calls, IngestPrepared(c) PROVE IInv'
    <2> USE <1>7 DEF IngestPrepared
    <2>1. TypeOK'
      BY DEF TypeOK, CallInv, Stages, VersionStatus, Snapshots, Batches, Versions, Exists
    <2>2. VersionTable'
      BY DEF TypeOK, VersionTable, CallInv, Exists, Versions
    <2>3. OneOwner'
      BY DEF TypeOK, OneOwner, Owning, CallInv
    <2>4. ActiveIsNewestIndexed'
      BY DEF TypeOK, ActiveIsNewestIndexed, OneOwner, Owning, CallInv, Versions, Exists
    <2>5. \A d \in Calls : CallInv(d)'
      BY DEF TypeOK, CallInv, VersionTable, Exists, IsNextNumber, Stages, Versions, OneOwner, Owning
    <2> QED BY <2>1, <2>2, <2>3, <2>4, <2>5
  <1>8. ASSUME NEW c \in Calls, NEW v \in Versions, BeginRetry(c, v) PROVE IInv'
    <2> USE <1>8 DEF BeginRetry
    <2>1. TypeOK'
      <3>1. stage' \in [Calls -> Stages]
        BY DEF TypeOK, CallInv, Stages, VersionStatus, Snapshots, Batches, Versions, Exists
      <3> QED
        BY <3>1 DEF TypeOK, CallInv, Stages, VersionStatus, Snapshots, Batches, Versions, Exists
    <2>2. VersionTable'
      BY DEF TypeOK, VersionTable, CallInv, Exists, Versions
    <2>3. OneOwner'
      BY DEF TypeOK, OneOwner, Owning, CallInv
    <2>4. ActiveIsNewestIndexed'
      BY DEF TypeOK, ActiveIsNewestIndexed, OneOwner, Owning, CallInv, Versions, Exists
    <2>5. \A d \in Calls : CallInv(d)'
      BY DEF TypeOK, CallInv, VersionTable, Exists, IsNextNumber, Stages, Versions, OneOwner, Owning
    <2> QED BY <2>1, <2>2, <2>3, <2>4, <2>5
  <1>9. ASSUME NEW c \in Calls, RetryCleanup(c) PROVE IInv'
    <2> USE <1>9 DEF RetryCleanup
    <2>1. TypeOK'
      BY DEF TypeOK, CallInv, Stages, VersionStatus, Snapshots, Batches, Versions, Exists
    <2>2. VersionTable'
      BY DEF TypeOK, VersionTable, CallInv, Exists, Versions
    <2>3. OneOwner'
      BY DEF TypeOK, OneOwner, Owning, CallInv
    <2>4. ActiveIsNewestIndexed'
      BY DEF TypeOK, ActiveIsNewestIndexed, OneOwner, Owning, CallInv, Versions, Exists
    <2>5. \A d \in Calls : CallInv(d)'
      BY DEF TypeOK, CallInv, VersionTable, Exists, IsNextNumber, Stages, Versions, OneOwner, Owning
    <2> QED BY <2>1, <2>2, <2>3, <2>4, <2>5
  <1>10. ASSUME NEW c \in Calls, RetryCleanupFails(c) PROVE IInv'
    <2> USE <1>10 DEF RetryCleanupFails
    <2>1. TypeOK'
      <3>1. points' \in [Versions -> SUBSET Batches]
        BY DEF TypeOK, CallInv, Stages, VersionStatus, Snapshots, Batches, Versions, Exists
      <3> QED
        BY <3>1 DEF TypeOK, CallInv, Stages, VersionStatus, Snapshots, Batches, Versions, Exists
    <2>2. VersionTable'
      BY DEF TypeOK, VersionTable, CallInv, Exists, Versions
    <2>3. OneOwner'
      BY DEF TypeOK, OneOwner, Owning, CallInv
    <2>4. ActiveIsNewestIndexed'
      BY DEF TypeOK, ActiveIsNewestIndexed, OneOwner, Owning, CallInv, Versions, Exists
    <2>5. \A d \in Calls : CallInv(d)'
      BY DEF TypeOK, CallInv, VersionTable, Exists, IsNextNumber, Stages, Versions, OneOwner, Owning
    <2> QED BY <2>1, <2>2, <2>3, <2>4, <2>5
  <1>11. ASSUME NEW c \in Calls, Requeue(c) PROVE IInv'
    <2>1. /\ stage[c] = "requeue"
          /\ ver[c] \in Versions
          /\ Exists(ver[c])
      BY <1>11 DEF Requeue, CallInv
    <2>2. /\ UNCHANGED <<fileReady, fingerprint, active, points>>
          /\ \/ UNCHANGED status
             \/ /\ status[ver[c]] \in {"failed", "cleanup_required"}
                /\ status' = [status EXCEPT ![ver[c]] = "pending"]
      BY <1>11 DEF Requeue
    <2>3. \/ /\ stage' = [stage EXCEPT ![c] = "claim"]
             /\ snapshot' = [snapshot EXCEPT ![c] = "ready"]
             /\ UNCHANGED <<ver, config, sent, verdict>>
          \/ Ends(c)
      BY <1>11 DEF Requeue
    <2>4. status' \in [Versions -> VersionStatus]
      BY <2>1, <2>2 DEF TypeOK, VersionStatus
    <2>5. TypeOK'
      BY <2>2, <2>3, <2>4 DEF TypeOK, Stages, Snapshots, Batches
    <2>6. VersionTable' /\ ActiveIsNewestIndexed'
      BY <2>1, <2>2 DEF TypeOK, VersionTable, ActiveIsNewestIndexed, Exists, Versions
    <2>7. OneOwner'
      BY <2>1, <2>2, <2>3 DEF TypeOK, OneOwner, Owning
    <2>8. \A d \in Calls : CallInv(d)'
      BY <2>1, <2>2, <2>3 DEF TypeOK, CallInv, Exists
    <2> QED BY <2>5, <2>6, <2>7, <2>8
  <1>12. ASSUME NEW c \in Calls, NEW v \in Versions, BeginIndex(c, v) PROVE IInv'
    <2> USE <1>12 DEF BeginIndex
    <2>1. TypeOK'
      BY DEF TypeOK, CallInv, Stages, VersionStatus, Snapshots, Batches, Versions, Exists
    <2>2. VersionTable'
      BY DEF TypeOK, VersionTable, CallInv, Exists, Versions
    <2>3. OneOwner'
      BY DEF TypeOK, OneOwner, Owning, CallInv
    <2>4. ActiveIsNewestIndexed'
      BY DEF TypeOK, ActiveIsNewestIndexed, OneOwner, Owning, CallInv, Versions, Exists
    <2>5. \A d \in Calls : CallInv(d)'
      BY DEF TypeOK, CallInv, VersionTable, Exists, IsNextNumber, Stages, Versions, OneOwner, Owning
    <2> QED BY <2>1, <2>2, <2>3, <2>4, <2>5
  <1>13. ASSUME NEW c \in Calls, Claim(c) PROVE IInv'
    <2> USE <1>13 DEF Claim
    <2>1. TypeOK'
      BY DEF TypeOK, CallInv, Stages, VersionStatus, Snapshots, Batches, Versions, Exists
    <2>2. VersionTable'
      BY DEF TypeOK, VersionTable, CallInv, Exists, Versions
    <2>3. OneOwner'
      BY DEF TypeOK, OneOwner, Owning, CallInv
    <2>4. ActiveIsNewestIndexed'
      BY DEF TypeOK, ActiveIsNewestIndexed, OneOwner, Owning, CallInv, Versions, Exists
    <2>5. \A d \in Calls : CallInv(d)'
      BY DEF TypeOK, CallInv, VersionTable, Exists, IsNextNumber, Stages, Versions, OneOwner, Owning
    <2> QED BY <2>1, <2>2, <2>3, <2>4, <2>5
  <1>14. ASSUME NEW c \in Calls, ClaimLost(c) PROVE IInv'
    <2> USE <1>14 DEF ClaimLost
    <2>1. TypeOK'
      BY DEF TypeOK, CallInv, Stages, VersionStatus, Snapshots, Batches, Versions, Exists
    <2>2. VersionTable'
      BY DEF TypeOK, VersionTable, CallInv, Exists, Versions
    <2>3. OneOwner'
      BY DEF TypeOK, OneOwner, Owning, CallInv
    <2>4. ActiveIsNewestIndexed'
      BY DEF TypeOK, ActiveIsNewestIndexed, OneOwner, Owning, CallInv, Versions, Exists
    <2>5. \A d \in Calls : CallInv(d)'
      BY DEF TypeOK, CallInv, VersionTable, Exists, IsNextNumber, Stages, Versions, OneOwner, Owning
    <2> QED BY <2>1, <2>2, <2>3, <2>4, <2>5
  <1>15. ASSUME NEW c \in Calls, Embed(c) PROVE IInv'
    <2> USE <1>15 DEF Embed
    <2>1. TypeOK'
      BY DEF TypeOK, CallInv, Stages, VersionStatus, Snapshots, Batches, Versions, Exists
    <2>2. VersionTable'
      BY DEF TypeOK, VersionTable, CallInv, Exists, Versions
    <2>3. OneOwner'
      BY DEF TypeOK, OneOwner, Owning, CallInv
    <2>4. ActiveIsNewestIndexed'
      BY DEF TypeOK, ActiveIsNewestIndexed, OneOwner, Owning, CallInv, Versions, Exists
    <2>5. \A d \in Calls : CallInv(d)'
      BY DEF TypeOK, CallInv, VersionTable, Exists, IsNextNumber, Stages, Versions, OneOwner, Owning
    <2> QED BY <2>1, <2>2, <2>3, <2>4, <2>5
  <1>16. ASSUME NEW c \in Calls, EmbedFails(c) PROVE IInv'
    <2> USE <1>16 DEF EmbedFails
    <2>1. TypeOK'
      BY DEF TypeOK, CallInv, Stages, VersionStatus, Snapshots, Batches, Versions, Exists
    <2>2. VersionTable'
      BY DEF TypeOK, VersionTable, CallInv, Exists, Versions
    <2>3. OneOwner'
      BY DEF TypeOK, OneOwner, Owning, CallInv
    <2>4. ActiveIsNewestIndexed'
      BY DEF TypeOK, ActiveIsNewestIndexed, OneOwner, Owning, CallInv, Versions, Exists
    <2>5. \A d \in Calls : CallInv(d)'
      BY DEF TypeOK, CallInv, VersionTable, Exists, IsNextNumber, Stages, Versions, OneOwner, Owning
    <2> QED BY <2>1, <2>2, <2>3, <2>4, <2>5
  <1>17. ASSUME NEW c \in Calls, UpsertBatch(c) PROVE IInv'
    <2> USE <1>17 DEF UpsertBatch
    <2>1. TypeOK'
      BY DEF TypeOK, CallInv, Stages, VersionStatus, Snapshots, Batches, Versions, Exists
    <2>2. VersionTable'
      BY DEF TypeOK, VersionTable, CallInv, Exists, Versions
    <2>3. OneOwner'
      BY DEF TypeOK, OneOwner, Owning, CallInv
    <2>4. ActiveIsNewestIndexed'
      BY DEF TypeOK, ActiveIsNewestIndexed, OneOwner, Owning, CallInv, Versions, Exists
    <2>5. \A d \in Calls : CallInv(d)'
      BY DEF TypeOK, CallInv, VersionTable, Exists, IsNextNumber, Stages, Versions, OneOwner, Owning
    <2> QED BY <2>1, <2>2, <2>3, <2>4, <2>5
  <1>18. ASSUME NEW c \in Calls, UpsertFails(c) PROVE IInv'
    <2>1. ver[c] \in Versions /\ sent[c] + 1 \in Batches /\ Exists(ver[c])
      BY <1>18 DEF UpsertFails, CallInv, TypeOK, Batches
    <2>2. points' \in [Versions -> SUBSET Batches]
      BY <1>18, <2>1 DEF UpsertFails, TypeOK
    <2>3. TypeOK'
      BY <1>18, <2>2 DEF UpsertFails, TypeOK, Stages
    <2>4. VersionTable' /\ ActiveIsNewestIndexed'
      BY <1>18 DEF UpsertFails, VersionTable, ActiveIsNewestIndexed, Exists
    <2>5. OneOwner'
      BY <1>18 DEF UpsertFails, TypeOK, OneOwner, Owning
    <2>6. \A d \in Calls : CallInv(d)'
      BY <1>18, <2>1 DEF UpsertFails, TypeOK, CallInv, Exists
    <2> QED BY <2>3, <2>4, <2>5, <2>6
  <1>19. ASSUME NEW c \in Calls, Compensate(c) PROVE IInv'
    <2> USE <1>19 DEF Compensate
    <2>1. TypeOK'
      BY DEF TypeOK, CallInv, Stages, VersionStatus, Snapshots, Batches, Versions, Exists
    <2>2. VersionTable'
      BY DEF TypeOK, VersionTable, CallInv, Exists, Versions
    <2>3. OneOwner'
      BY DEF TypeOK, OneOwner, Owning, CallInv
    <2>4. ActiveIsNewestIndexed'
      BY DEF TypeOK, ActiveIsNewestIndexed, OneOwner, Owning, CallInv, Versions, Exists
    <2>5. \A d \in Calls : CallInv(d)'
      BY DEF TypeOK, CallInv, VersionTable, Exists, IsNextNumber, Stages, Versions, OneOwner, Owning
    <2> QED BY <2>1, <2>2, <2>3, <2>4, <2>5
  <1>20. ASSUME NEW c \in Calls, CompensateFails(c) PROVE IInv'
    <2> USE <1>20 DEF CompensateFails
    <2>1. TypeOK'
      BY DEF TypeOK, CallInv, Stages, VersionStatus, Snapshots, Batches, Versions, Exists
    <2>2. VersionTable'
      BY DEF TypeOK, VersionTable, CallInv, Exists, Versions
    <2>3. OneOwner'
      BY DEF TypeOK, OneOwner, Owning, CallInv
    <2>4. ActiveIsNewestIndexed'
      BY DEF TypeOK, ActiveIsNewestIndexed, OneOwner, Owning, CallInv, Versions, Exists
    <2>5. \A d \in Calls : CallInv(d)'
      BY DEF TypeOK, CallInv, VersionTable, Exists, IsNextNumber, Stages, Versions, OneOwner, Owning
    <2> QED BY <2>1, <2>2, <2>3, <2>4, <2>5
  <1>21. ASSUME NEW c \in Calls, Complete(c) PROVE IInv'
    <2> USE <1>21 DEF Complete
    <2>1. TypeOK'
      BY DEF TypeOK, CallInv, Stages, VersionStatus, Snapshots, Batches, Versions, Exists
    <2>2. VersionTable'
      BY DEF TypeOK, VersionTable, CallInv, Exists, Versions
    <2>3. OneOwner'
      BY DEF TypeOK, OneOwner, Owning, CallInv
    <2>4. ActiveIsNewestIndexed'
      BY DEF TypeOK, ActiveIsNewestIndexed, OneOwner, Owning, CallInv, Versions, Exists
    <2>5. \A d \in Calls : CallInv(d)'
      BY DEF TypeOK, CallInv, VersionTable, Exists, IsNextNumber, Stages, Versions, OneOwner, Owning
    <2> QED BY <2>1, <2>2, <2>3, <2>4, <2>5
  <1>22. ASSUME NEW c \in Calls, CompleteFails(c) PROVE IInv'
    <2> USE <1>22 DEF CompleteFails
    <2>1. TypeOK'
      BY DEF TypeOK, CallInv, Stages, VersionStatus, Snapshots, Batches, Versions, Exists
    <2>2. VersionTable'
      BY DEF TypeOK, VersionTable, CallInv, Exists, Versions
    <2>3. OneOwner'
      BY DEF TypeOK, OneOwner, Owning, CallInv
    <2>4. ActiveIsNewestIndexed'
      BY DEF TypeOK, ActiveIsNewestIndexed, OneOwner, Owning, CallInv, Versions, Exists
    <2>5. \A d \in Calls : CallInv(d)'
      BY DEF TypeOK, CallInv, VersionTable, Exists, IsNextNumber, Stages, Versions, OneOwner, Owning
    <2> QED BY <2>1, <2>2, <2>3, <2>4, <2>5
  <1>23. ASSUME NEW c \in Calls, MarkFailed(c) PROVE IInv'
    <2>1. /\ ver[c] \in Versions
          /\ status[ver[c]] = "processing"
          /\ verdict[c] \in {"failed", "cleanup_required"}
      BY <1>23 DEF MarkFailed, OneOwner, Owning, TypeOK
    <2>2. /\ status' = [status EXCEPT ![ver[c]] = verdict[c]]
          /\ Ends(c)
          /\ UNCHANGED <<fileReady, fingerprint, active, points>>
      BY <1>23, <2>1 DEF MarkFailed
    <2>3. TypeOK'
      BY <2>1, <2>2 DEF TypeOK, VersionStatus, Stages, Snapshots
    <2>4. VersionTable' /\ ActiveIsNewestIndexed'
      BY <2>1, <2>2 DEF TypeOK, VersionTable, ActiveIsNewestIndexed, Exists, Versions
    <2>5. OneOwner'
      BY <1>23, <2>1, <2>2 DEF MarkFailed, TypeOK, OneOwner, Owning
    <2>6. \A d \in Calls : CallInv(d)'
      BY <2>1, <2>2 DEF TypeOK, CallInv, Exists
    <2> QED BY <2>3, <2>4, <2>5, <2>6
  <1>24. ASSUME NEW c \in Calls, DocumentGone(c) PROVE IInv'
    <2> USE <1>24 DEF DocumentGone
    <2>1. TypeOK'
      BY DEF TypeOK, CallInv, Stages, VersionStatus, Snapshots, Batches, Versions, Exists
    <2>2. VersionTable'
      BY DEF TypeOK, VersionTable, CallInv, Exists, Versions
    <2>3. OneOwner'
      BY DEF TypeOK, OneOwner, Owning, CallInv
    <2>4. ActiveIsNewestIndexed'
      BY DEF TypeOK, ActiveIsNewestIndexed, OneOwner, Owning, CallInv, Versions, Exists
    <2>5. \A d \in Calls : CallInv(d)'
      BY DEF TypeOK, CallInv, VersionTable, Exists, IsNextNumber, Stages, Versions, OneOwner, Owning
    <2> QED BY <2>1, <2>2, <2>3, <2>4, <2>5
  <1>25. ASSUME NEW c \in Calls, Vanish(c) PROVE IInv'
    <2> USE <1>25 DEF Vanish
    <2>1. TypeOK'
      BY DEF TypeOK, CallInv, Stages, VersionStatus, Snapshots, Batches, Versions, Exists
    <2>2. VersionTable'
      BY DEF TypeOK, VersionTable, CallInv, Exists, Versions
    <2>3. OneOwner'
      BY DEF TypeOK, OneOwner, Owning, CallInv
    <2>4. ActiveIsNewestIndexed'
      BY DEF TypeOK, ActiveIsNewestIndexed, OneOwner, Owning, CallInv, Versions, Exists
    <2>5. \A d \in Calls : CallInv(d)'
      BY DEF TypeOK, CallInv, VersionTable, Exists, IsNextNumber, Stages, Versions, OneOwner, Owning
    <2> QED BY <2>1, <2>2, <2>3, <2>4, <2>5
  <1>26. CASE DeleteFile
    BY <1>26 DEF DeleteFile, TypeOK, VersionTable, OneOwner, ActiveIsNewestIndexed,
       CallInv, Exists
  <1> QED
    BY <1>1, <1>2, <1>3, <1>4, <1>5, <1>6, <1>7, <1>8, <1>9, <1>10, <1>11, <1>12, <1>13, <1>14, <1>15, <1>16, <1>17, <1>18, <1>19, <1>20, <1>21, <1>22, <1>23, <1>24, <1>25, <1>26 DEF Next, NextUndisturbed, Starts, Proceeds

-----------------------------------------------------------------------------
(* Results that hold however calls interleave *)

LEMMA AlwaysIInv == Spec => []IInv
  <1>1. Init => IInv
    BY InitIInv
  <1>2. IInv /\ [Next]_vars => IInv'
    BY StepIInv
  <1> QED
    BY <1>1, <1>2, PTL DEF Spec

\* Every variable of the indexing service keeps its type: no batch counter runs
\* over the batches, no call is left without a version.
THEOREM TypeCorrect == Spec => []TypeOK
  BY AlwaysIInv, PTL DEF IInv

\* Concurrent persist_chunks calls leave the version table well formed.
THEOREM VersionTableCorrect == Spec => []VersionTable
  BY AlwaysIInv, PTL DEF IInv

\* claim_pending_version gives a version to one call at a time, whatever
\* crashes, retries and deletions happen meanwhile.
THEOREM ClaimIsExclusive == Spec => []OneOwner
  BY AlwaysIInv, PTL DEF IInv

\* active_version_id never names anything but the newest indexed version.
THEOREM ActiveCorrect == Spec => []ActiveIsNewestIndexed
  BY AlwaysIInv, PTL DEF IInv

-----------------------------------------------------------------------------
(* Vectors, when the retries of a version are serial *)

\* What a call knows of the points of its version.
CallVectors(c) ==
    /\ stage[c] = "cleanup" => status[ver[c]] = "cleanup_required"
    /\ stage[c] = "requeue" => /\ status[ver[c]] \in {"failed", "cleanup_required"}
                               /\ points[ver[c]] = {}
    /\ stage[c] = "embed" => points[ver[c]] = {}
    /\ stage[c] = "upsert" => points[ver[c]] = 1..sent[c]
    /\ stage[c] = "complete" => points[ver[c]] = Batches
    /\ stage[c] = "mark_failed" /\ verdict[c] = "failed" => points[ver[c]] = {}
    /\ stage[c] # "mark_failed" => verdict[c] = "failed"

Retrying(c) == stage[c] \in {"cleanup", "requeue"}

RetriesApart ==
    \A c, d \in Calls : Retrying(c) /\ Retrying(d) /\ ver[c] = ver[d] => c = d

VInv == VectorsMatchStatus /\ RetriesApart /\ \A c \in Calls : CallVectors(c)

LEMMA InitVInv == Init => VInv
  BY DEF Init, VInv, VectorsMatchStatus, RetriesApart, Retrying, CallVectors

LEMMA StepVInv ==
  ASSUME SerialRetries, IInv, VInv, [Next]_vars
  PROVE  VInv'
  <1> USE BoundsAssumption DEF IInv, VInv, Goto, Opens, Ends, DeletesPoints,
          MayDeletePoints, table
  <1>1. CASE UNCHANGED vars
    BY <1>1 DEF vars, VectorsMatchStatus, RetriesApart, Retrying, CallVectors
  <1>2. ASSUME NEW c \in Calls, NEW g \in Configs, BeginPrepare(c, g) PROVE VInv'
    <2>1. PICK v \in Versions, s \in {"prepared", "persist"} :
            /\ ver' = [ver EXCEPT ![c] = v]
            /\ stage' = [stage EXCEPT ![c] = s]
      BY <1>2 DEF BeginPrepare
    <2>2. stage[c] = "idle" /\ UNCHANGED <<status, points, sent, verdict>>
      BY <1>2 DEF BeginPrepare
    <2>3. VectorsMatchStatus' /\ RetriesApart'
      BY <2>1, <2>2 DEF TypeOK, VectorsMatchStatus, RetriesApart, Retrying
    <2>4. \A d \in Calls : CallVectors(d)'
      BY <2>1, <2>2 DEF TypeOK, CallVectors
    <2> QED BY <2>3, <2>4
  <1>3. ASSUME NEW c \in Calls, PersistVersion(c) PROVE VInv'
    <2> USE <1>3 DEF PersistVersion
    <2>1. VectorsMatchStatus'
      BY DEF TypeOK, VectorsMatchStatus, CallVectors, CallInv, OneOwner, Owning, Exists, Batches
    <2>2. RetriesApart'
      BY DEF TypeOK, RetriesApart, Retrying
    <2>3. \A d \in Calls : CallVectors(d)'
      BY DEF TypeOK, CallVectors, CallInv, VectorsMatchStatus, RetriesApart, Retrying,
         OneOwner, Owning, Exists, Batches
    <2> QED BY <2>1, <2>2, <2>3
  <1>4. ASSUME NEW c \in Calls, ReuseVersion(c) PROVE VInv'
    <2> USE <1>4 DEF ReuseVersion
    <2>1. VectorsMatchStatus'
      BY DEF TypeOK, VectorsMatchStatus, CallVectors, CallInv, OneOwner, Owning, Exists, Batches
    <2>2. RetriesApart'
      BY DEF TypeOK, RetriesApart, Retrying
    <2>3. \A d \in Calls : CallVectors(d)'
      BY DEF TypeOK, CallVectors, CallInv, VectorsMatchStatus, RetriesApart, Retrying,
         OneOwner, Owning, Exists, Batches
    <2> QED BY <2>1, <2>2, <2>3
  <1>5. ASSUME NEW c \in Calls, RefuseVersion(c) PROVE VInv'
    <2> USE <1>5 DEF RefuseVersion
    <2>1. VectorsMatchStatus'
      BY DEF TypeOK, VectorsMatchStatus, CallVectors, CallInv, OneOwner, Owning, Exists, Batches
    <2>2. RetriesApart'
      BY DEF TypeOK, RetriesApart, Retrying
    <2>3. \A d \in Calls : CallVectors(d)'
      BY DEF TypeOK, CallVectors, CallInv, VectorsMatchStatus, RetriesApart, Retrying,
         OneOwner, Owning, Exists, Batches
    <2> QED BY <2>1, <2>2, <2>3
  <1>6. ASSUME NEW c \in Calls, ReturnPrepared(c) PROVE VInv'
    <2> USE <1>6 DEF ReturnPrepared
    <2>1. VectorsMatchStatus'
      BY DEF TypeOK, VectorsMatchStatus, CallVectors, CallInv, OneOwner, Owning, Exists, Batches
    <2>2. RetriesApart'
      BY DEF TypeOK, RetriesApart, Retrying
    <2>3. \A d \in Calls : CallVectors(d)'
      BY DEF TypeOK, CallVectors, CallInv, VectorsMatchStatus, RetriesApart, Retrying,
         OneOwner, Owning, Exists, Batches
    <2> QED BY <2>1, <2>2, <2>3
  <1>7. ASSUME NEW c \in Calls, IngestPrepared(c) PROVE VInv'
    <2> USE <1>7 DEF IngestPrepared
    <2>1. VectorsMatchStatus'
      BY DEF TypeOK, VectorsMatchStatus, CallVectors, CallInv, OneOwner, Owning, Exists, Batches
    <2>2. RetriesApart'
      BY DEF TypeOK, RetriesApart, Retrying
    <2>3. \A d \in Calls : CallVectors(d)'
      BY DEF TypeOK, CallVectors, CallInv, VectorsMatchStatus, RetriesApart, Retrying,
         OneOwner, Owning, Exists, Batches
    <2> QED BY <2>1, <2>2, <2>3
  <1>8. ASSUME NEW c \in Calls, NEW v \in Versions, BeginRetry(c, v) PROVE VInv'
    <2> USE <1>8 DEF BeginRetry
    <2>1. VectorsMatchStatus'
      BY DEF TypeOK, VectorsMatchStatus, CallVectors, CallInv, OneOwner, Owning, Exists, Batches
    <2>2. RetriesApart'
      BY DEF TypeOK, RetriesApart, Retrying
    <2>3. \A d \in Calls : CallVectors(d)'
      BY DEF TypeOK, CallVectors, CallInv, VectorsMatchStatus, RetriesApart, Retrying,
         OneOwner, Owning, Exists, Batches
    <2> QED BY <2>1, <2>2, <2>3
  <1>9. ASSUME NEW c \in Calls, RetryCleanup(c) PROVE VInv'
    <2> USE <1>9 DEF RetryCleanup
    <2>1. VectorsMatchStatus'
      BY DEF TypeOK, VectorsMatchStatus, CallVectors, CallInv, OneOwner, Owning, Exists, Batches
    <2>2. RetriesApart'
      BY DEF TypeOK, RetriesApart, Retrying
    <2>3. \A d \in Calls : CallVectors(d)'
      BY DEF TypeOK, CallVectors, CallInv, VectorsMatchStatus, RetriesApart, Retrying,
         OneOwner, Owning, Exists, Batches
    <2> QED BY <2>1, <2>2, <2>3
  <1>10. ASSUME NEW c \in Calls, RetryCleanupFails(c) PROVE VInv'
    <2>1. /\ stage[c] = "cleanup"
          /\ ver[c] \in Versions
          /\ status[ver[c]] = "cleanup_required"
          /\ UNCHANGED status
          /\ Ends(c)
      BY <1>10 DEF RetryCleanupFails, CallVectors, CallInv
    <2>2. \A v \in Versions : v # ver[c] => points'[v] = points[v]
      BY <1>10 DEF RetryCleanupFails, TypeOK
    <2>3. VectorsMatchStatus' /\ RetriesApart'
      BY <2>1, <2>2 DEF TypeOK, VectorsMatchStatus, RetriesApart, Retrying
    <2>4. ASSUME NEW d \in Calls, d # c PROVE CallVectors(d)'
      <3>1. stage[d] \in Owning \cup {"cleanup", "requeue"} => ver[d] # ver[c]
        BY <2>1, <2>4 DEF OneOwner, Owning, RetriesApart, Retrying
      <3> QED
        BY <2>1, <2>2, <2>4, <3>1 DEF TypeOK, CallVectors, CallInv, Owning
    <2>5. CallVectors(c)'
      BY <2>1 DEF TypeOK, CallVectors
    <2> QED BY <2>3, <2>4, <2>5
  <1>11. ASSUME NEW c \in Calls, Requeue(c) PROVE VInv'
    <2>1. /\ stage[c] = "requeue"
          /\ ver[c] \in Versions
          /\ points[ver[c]] = {}
          /\ UNCHANGED points
          /\ status' = [status EXCEPT ![ver[c]] = "pending"]
      BY <1>11 DEF Requeue, CallVectors, CallInv
    <2>2. \/ /\ stage' = [stage EXCEPT ![c] = "claim"]
             /\ UNCHANGED <<ver, sent, verdict>>
          \/ Ends(c)
      BY <1>11 DEF Requeue
    <2>3. VectorsMatchStatus' /\ RetriesApart'
      BY <2>1, <2>2 DEF TypeOK, VectorsMatchStatus, RetriesApart, Retrying
    <2>4. ASSUME NEW d \in Calls, d # c PROVE CallVectors(d)'
      <3>1. Retrying(d) => ver[d] # ver[c]
        BY <2>1, <2>4 DEF RetriesApart, Retrying
      <3> QED
        BY <2>1, <2>2, <2>4, <3>1 DEF TypeOK, CallVectors, CallInv, Retrying
    <2>5. CallVectors(c)'
      BY <2>1, <2>2 DEF TypeOK, CallVectors
    <2> QED BY <2>3, <2>4, <2>5
  <1>12. ASSUME NEW c \in Calls, NEW v \in Versions, BeginIndex(c, v) PROVE VInv'
    <2> USE <1>12 DEF BeginIndex
    <2>1. VectorsMatchStatus'
      BY DEF TypeOK, VectorsMatchStatus, CallVectors, CallInv, OneOwner, Owning, Exists, Batches
    <2>2. RetriesApart'
      BY DEF TypeOK, RetriesApart, Retrying
    <2>3. \A d \in Calls : CallVectors(d)'
      BY DEF TypeOK, CallVectors, CallInv, VectorsMatchStatus, RetriesApart, Retrying,
         OneOwner, Owning, Exists, Batches
    <2> QED BY <2>1, <2>2, <2>3
  <1>13. ASSUME NEW c \in Calls, Claim(c) PROVE VInv'
    <2> USE <1>13 DEF Claim
    <2>1. VectorsMatchStatus'
      BY DEF TypeOK, VectorsMatchStatus, CallVectors, CallInv, OneOwner, Owning, Exists, Batches
    <2>2. RetriesApart'
      BY DEF TypeOK, RetriesApart, Retrying
    <2>3. \A d \in Calls : CallVectors(d)'
      BY DEF TypeOK, CallVectors, CallInv, VectorsMatchStatus, RetriesApart, Retrying,
         OneOwner, Owning, Exists, Batches
    <2> QED BY <2>1, <2>2, <2>3
  <1>14. ASSUME NEW c \in Calls, ClaimLost(c) PROVE VInv'
    <2> USE <1>14 DEF ClaimLost
    <2>1. VectorsMatchStatus'
      BY DEF TypeOK, VectorsMatchStatus, CallVectors, CallInv, OneOwner, Owning, Exists, Batches
    <2>2. RetriesApart'
      BY DEF TypeOK, RetriesApart, Retrying
    <2>3. \A d \in Calls : CallVectors(d)'
      BY DEF TypeOK, CallVectors, CallInv, VectorsMatchStatus, RetriesApart, Retrying,
         OneOwner, Owning, Exists, Batches
    <2> QED BY <2>1, <2>2, <2>3
  <1>15. ASSUME NEW c \in Calls, Embed(c) PROVE VInv'
    <2> USE <1>15 DEF Embed
    <2>1. VectorsMatchStatus' /\ RetriesApart'
      BY DEF TypeOK, VectorsMatchStatus, RetriesApart, Retrying
    <2>2. points[ver[c]] = 1..sent[c] /\ verdict[c] = "failed"
      <3>1. points[ver[c]] = {} /\ sent[c] = 0 /\ verdict[c] = "failed"
        BY DEF CallVectors, CallInv
      <3>2. 1..0 = {}
        OBVIOUS
      <3> QED BY <3>1, <3>2
    <2>3. \A d \in Calls : CallVectors(d)'
      BY <2>2 DEF TypeOK, CallVectors
    <2> QED BY <2>1, <2>3
  <1>16. ASSUME NEW c \in Calls, EmbedFails(c) PROVE VInv'
    <2> USE <1>16 DEF EmbedFails
    <2>1. VectorsMatchStatus'
      BY DEF TypeOK, VectorsMatchStatus, CallVectors, CallInv, OneOwner, Owning, Exists, Batches
    <2>2. RetriesApart'
      BY DEF TypeOK, RetriesApart, Retrying
    <2>3. \A d \in Calls : CallVectors(d)'
      BY DEF TypeOK, CallVectors, CallInv, VectorsMatchStatus, RetriesApart, Retrying,
         OneOwner, Owning, Exists, Batches
    <2> QED BY <2>1, <2>2, <2>3
  <1>17. ASSUME NEW c \in Calls, UpsertBatch(c) PROVE VInv'
    <2>1. /\ stage[c] = "upsert"
          /\ ver[c] \in Versions
          /\ status[ver[c]] = "processing"
          /\ points[ver[c]] = 1..sent[c]
          /\ sent[c] \in 0..NumBatches
      BY <1>17 DEF UpsertBatch, CallVectors, CallInv, OneOwner, Owning, TypeOK
    <2>2. /\ points' = [points EXCEPT ![ver[c]] = 1..(sent[c] + 1)]
          /\ sent' = [sent EXCEPT ![c] = sent[c] + 1]
          /\ UNCHANGED <<status, ver, verdict>>
      <3>1. (1..sent[c]) \cup {sent[c] + 1} = 1..(sent[c] + 1)
        BY <2>1
      <3> QED BY <1>17, <2>1, <3>1 DEF UpsertBatch
    <2>3. \/ stage' = [stage EXCEPT ![c] = "upsert"]
          \/ /\ stage' = [stage EXCEPT ![c] = "complete"]
             /\ sent[c] + 1 = NumBatches
      BY <1>17 DEF UpsertBatch
    <2>4. VectorsMatchStatus' /\ RetriesApart'
      BY <2>1, <2>2, <2>3 DEF TypeOK, VectorsMatchStatus, RetriesApart, Retrying
    <2>5. ASSUME NEW d \in Calls, d # c PROVE CallVectors(d)'
      <3>1. stage[d] \in Owning \cup {"cleanup", "requeue"} => ver[d] # ver[c]
        BY <2>1, <2>5 DEF OneOwner, Owning, CallVectors
      <3> QED
        BY <2>2, <2>3, <2>5, <3>1 DEF TypeOK, CallVectors, CallInv, Owning
    <2>6. CallVectors(c)'
      BY <2>1, <2>2, <2>3 DEF TypeOK, CallVectors, Batches
    <2> QED BY <2>4, <2>5, <2>6
  <1>18. ASSUME NEW c \in Calls, UpsertFails(c) PROVE VInv'
    <2> USE <1>18 DEF UpsertFails
    <2>1. VectorsMatchStatus'
      BY DEF TypeOK, VectorsMatchStatus, CallVectors, CallInv, OneOwner, Owning, Exists, Batches
    <2>2. RetriesApart'
      BY DEF TypeOK, RetriesApart, Retrying
    <2>3. \A d \in Calls : CallVectors(d)'
      BY DEF TypeOK, CallVectors, CallInv, VectorsMatchStatus, RetriesApart, Retrying,
         OneOwner, Owning, Exists, Batches
    <2> QED BY <2>1, <2>2, <2>3
  <1>19. ASSUME NEW c \in Calls, Compensate(c) PROVE VInv'
    <2> USE <1>19 DEF Compensate
    <2>1. VectorsMatchStatus'
      BY DEF TypeOK, VectorsMatchStatus, CallVectors, CallInv, OneOwner, Owning, Exists, Batches
    <2>2. RetriesApart'
      BY DEF TypeOK, RetriesApart, Retrying
    <2>3. \A d \in Calls : CallVectors(d)'
      BY DEF TypeOK, CallVectors, CallInv, VectorsMatchStatus, RetriesApart, Retrying,
         OneOwner, Owning, Exists, Batches
    <2> QED BY <2>1, <2>2, <2>3
  <1>20. ASSUME NEW c \in Calls, CompensateFails(c) PROVE VInv'
    <2> USE <1>20 DEF CompensateFails
    <2>1. VectorsMatchStatus'
      BY DEF TypeOK, VectorsMatchStatus, CallVectors, CallInv, OneOwner, Owning, Exists, Batches
    <2>2. RetriesApart'
      BY DEF TypeOK, RetriesApart, Retrying
    <2>3. \A d \in Calls : CallVectors(d)'
      BY DEF TypeOK, CallVectors, CallInv, VectorsMatchStatus, RetriesApart, Retrying,
         OneOwner, Owning, Exists, Batches
    <2> QED BY <2>1, <2>2, <2>3
  <1>21. ASSUME NEW c \in Calls, Complete(c) PROVE VInv'
    <2> USE <1>21 DEF Complete
    <2>1. VectorsMatchStatus'
      BY DEF TypeOK, VectorsMatchStatus, CallVectors, CallInv, OneOwner, Owning, Exists, Batches
    <2>2. RetriesApart'
      BY DEF TypeOK, RetriesApart, Retrying
    <2>3. \A d \in Calls : CallVectors(d)'
      BY DEF TypeOK, CallVectors, CallInv, VectorsMatchStatus, RetriesApart, Retrying,
         OneOwner, Owning, Exists, Batches
    <2> QED BY <2>1, <2>2, <2>3
  <1>22. ASSUME NEW c \in Calls, CompleteFails(c) PROVE VInv'
    <2> USE <1>22 DEF CompleteFails
    <2>1. VectorsMatchStatus'
      BY DEF TypeOK, VectorsMatchStatus, CallVectors, CallInv, OneOwner, Owning, Exists, Batches
    <2>2. RetriesApart'
      BY DEF TypeOK, RetriesApart, Retrying
    <2>3. \A d \in Calls : CallVectors(d)'
      BY DEF TypeOK, CallVectors, CallInv, VectorsMatchStatus, RetriesApart, Retrying,
         OneOwner, Owning, Exists, Batches
    <2> QED BY <2>1, <2>2, <2>3
  <1>23. ASSUME NEW c \in Calls, MarkFailed(c) PROVE VInv'
    <2> USE <1>23 DEF MarkFailed
    <2>1. VectorsMatchStatus'
      BY DEF TypeOK, VectorsMatchStatus, CallVectors, CallInv, OneOwner, Owning, Exists, Batches
    <2>2. RetriesApart'
      BY DEF TypeOK, RetriesApart, Retrying
    <2>3. \A d \in Calls : CallVectors(d)'
      BY DEF TypeOK, CallVectors, CallInv, VectorsMatchStatus, RetriesApart, Retrying,
         OneOwner, Owning, Exists, Batches
    <2> QED BY <2>1, <2>2, <2>3
  <1>24. ASSUME NEW c \in Calls, DocumentGone(c) PROVE VInv'
    <2> USE <1>24 DEF DocumentGone
    <2>1. VectorsMatchStatus'
      BY DEF TypeOK, VectorsMatchStatus, CallVectors, CallInv, OneOwner, Owning, Exists, Batches
    <2>2. RetriesApart'
      BY DEF TypeOK, RetriesApart, Retrying
    <2>3. \A d \in Calls : CallVectors(d)'
      BY DEF TypeOK, CallVectors, CallInv, VectorsMatchStatus, RetriesApart, Retrying,
         OneOwner, Owning, Exists, Batches
    <2> QED BY <2>1, <2>2, <2>3
  <1>25. ASSUME NEW c \in Calls, Vanish(c) PROVE VInv'
    <2> USE <1>25 DEF Vanish
    <2>1. VectorsMatchStatus'
      BY DEF TypeOK, VectorsMatchStatus, CallVectors, CallInv, OneOwner, Owning, Exists, Batches
    <2>2. RetriesApart'
      BY DEF TypeOK, RetriesApart, Retrying
    <2>3. \A d \in Calls : CallVectors(d)'
      BY DEF TypeOK, CallVectors, CallInv, VectorsMatchStatus, RetriesApart, Retrying,
         OneOwner, Owning, Exists, Batches
    <2> QED BY <2>1, <2>2, <2>3
  <1>26. CASE DeleteFile
    BY <1>26 DEF DeleteFile, VectorsMatchStatus, RetriesApart, Retrying, CallVectors
  <1> QED
    BY <1>1, <1>2, <1>3, <1>4, <1>5, <1>6, <1>7, <1>8, <1>9, <1>10, <1>11, <1>12, <1>13, <1>14, <1>15, <1>16, <1>17, <1>18, <1>19, <1>20, <1>21, <1>22, <1>23, <1>24, <1>25, <1>26 DEF Next, NextUndisturbed, Starts, Proceeds

LEMMA AlwaysVInv ==
  ASSUME SerialRetries
  PROVE  Spec => [](IInv /\ VInv)
  <1>1. Init => IInv /\ VInv
    BY InitIInv, InitVInv
  <1>2. IInv /\ VInv /\ [Next]_vars => IInv' /\ VInv'
    BY StepIInv, StepVInv
  <1> QED
    BY <1>1, <1>2, PTL DEF Spec

\* As long as the retries of a version do not overlap, Qdrant and MySQL agree:
\* an indexed version has all its vectors, a failed one has none.
THEOREM VectorsCorrect ==
  ASSUME SerialRetries
  PROVE  Spec => []VectorsMatchStatus
  BY AlwaysVInv, PTL DEF VInv

-----------------------------------------------------------------------------
(* Implementation of PublishedVersions *)

LEMMA OnlyCompletePublishes ==
  ASSUME IInv, [Next]_vars, ~ \E c \in Calls : Complete(c)
  PROVE  /\ active' = active
         /\ \A v \in Versions : status'[v] = "indexed" <=> status[v] = "indexed"
  <1> DEFINE Same == /\ active' = active
                     /\ \A v \in Versions :
                          status'[v] = "indexed" <=> status[v] = "indexed"
  <1> USE DEF table, IInv, TypeOK
  <1>1. ASSUME UNCHANGED table PROVE Same
    BY <1>1
  <1>2. ASSUME NEW c \in Calls, PersistVersion(c) PROVE Same
    BY <1>2 DEF PersistVersion, Exists
  <1>3. ASSUME NEW c \in Calls, Requeue(c) PROVE Same
    BY <1>3 DEF Requeue
  <1>4. ASSUME NEW c \in Calls, Claim(c) PROVE Same
    BY <1>4 DEF Claim
  <1>5. ASSUME NEW c \in Calls, MarkFailed(c) PROVE Same
    <2>1. verdict[c] # "indexed"
      OBVIOUS
    <2> QED BY <1>5, <2>1 DEF MarkFailed
  <1>6. ASSUME NEW c \in Calls, Starts(c) PROVE UNCHANGED table
    BY <1>6 DEF Starts, BeginPrepare, BeginIndex, BeginRetry
  <1>7. ASSUME NEW c \in Calls, Proceeds(c)
        PROVE  \/ UNCHANGED table
               \/ PersistVersion(c) \/ Requeue(c) \/ Claim(c) \/ MarkFailed(c)
               \/ Complete(c)
    BY <1>7 DEF Proceeds, ReuseVersion, RefuseVersion, ReturnPrepared, IngestPrepared,
       RetryCleanup, RetryCleanupFails, ClaimLost, Embed, EmbedFails, UpsertBatch,
       UpsertFails, Compensate, CompensateFails, CompleteFails, DocumentGone
  <1>8. CASE DeleteFile
    BY <1>1, <1>8 DEF DeleteFile
  <1>9. ASSUME NEW c \in Calls, Vanish(c) PROVE UNCHANGED table
    BY <1>9 DEF Vanish
  <1>10. CASE UNCHANGED vars
    BY <1>1, <1>10 DEF vars
  <1> QED
    BY <1>1, <1>2, <1>3, <1>4, <1>5, <1>6, <1>7, <1>8, <1>9, <1>10
    DEF Next, NextUndisturbed

\* Completing a version publishes it: it becomes served, and active if newer.
LEMMA CompletePublishes ==
  ASSUME IInv, VInv, VInv', NEW c \in Calls, Complete(c)
  PROVE  Published!Next
  <1> USE DEF IInv, VInv
  <1>1. /\ ver[c] \in 1..MaxVersion
        /\ ver[c] \in Versions
        /\ status[ver[c]] = "processing"
        /\ status' = [status EXCEPT ![ver[c]] = "indexed"]
        /\ active' = IF active = 0 \/ active < ver[c] THEN ver[c] ELSE active
        /\ UNCHANGED points
    BY DEF Complete, OneOwner, Owning, Versions
  <1>2. points[ver[c]] = Batches
    BY DEF Complete, CallVectors
  <1>3. /\ ver[c] \notin Served
        /\ Served' = Served \cup {ver[c]}
    BY <1>1, <1>2 DEF Served, TypeOK, VectorsMatchStatus
  <1>4. active' = IF ver[c] > active THEN ver[c] ELSE active
    BY <1>1, BoundsAssumption DEF TypeOK, Versions
  <1> QED
    BY <1>1, <1>3, <1>4 DEF Published!Next, Published!Publish, Published!Versions

\* Under the same condition every step of the service is a publication of a
\* version, as PublishedVersions describes it, or leaves what is served alone.
THEOREM ImplementsPublished ==
  ASSUME SerialRetries
  PROVE  Spec => PublishedSpec
  <1>1. Init => Published!Init
    BY DEF Init, Published!Init, Served
  <1>2. ASSUME IInv, VInv, IInv', VInv', [Next]_vars
        PROVE  [Published!Next]_(Published!vars)
    <2>1. CASE \E c \in Calls : Complete(c)
      BY <1>2, <2>1, CompletePublishes
    <2>2. CASE ~ \E c \in Calls : Complete(c)
      <3>1. /\ active' = active
            /\ \A v \in Versions : status'[v] = "indexed" <=> status[v] = "indexed"
        BY <1>2, <2>2, OnlyCompletePublishes
      <3>2. Served = {v \in Versions : status[v] = "indexed"}
        BY <1>2 DEF VInv, VectorsMatchStatus, Served
      <3>3. Served' = {v \in Versions : status'[v] = "indexed"}
        BY <1>2 DEF VInv, VectorsMatchStatus, Served, Versions
      <3>4. Served' = Served
        BY <3>1, <3>2, <3>3
      <3> QED
        BY <3>1, <3>4 DEF Published!vars
    <2> QED BY <2>1, <2>2
  <1>3. Spec => [](IInv /\ VInv)
    BY AlwaysVInv
  <1> QED
    BY <1>1, <1>2, <1>3, PTL DEF Spec, PublishedSpec, Published!Spec

-----------------------------------------------------------------------------
(* What is behind ProcessingSettles: who settles a version, and in how many steps *)

\* A version that is processing is in the hands of a call, which will find its
\* document when it closes.
Attended ==
    /\ fileReady
    /\ \A c \in Calls : snapshot[c] # "gone"
    /\ \A v \in Versions : status[v] = "processing" =>
          \E c \in Calls : stage[c] \in Owning /\ ver[c] = v

\* A step of a call that keeps what it owns, and claims nothing, leaves every
\* version attended.
LEMMA KeepsAttended ==
    ASSUME IInv, Attended, NEW c \in Calls,
           fileReady' = fileReady,
           NEW x \in Snapshots \ {"gone"}, snapshot' = [snapshot EXCEPT ![c] = x],
           NEW y \in Stages, stage' = [stage EXCEPT ![c] = y],
           NEW z, ver' = [ver EXCEPT ![c] = z],
           stage[c] \in Owning => y \in Owning /\ z = ver[c],
           \A v \in Versions : status'[v] = "processing" => status[v] = "processing"
    PROVE  Attended'
  <1>1. /\ stage \in [Calls -> Stages] /\ ver \in [Calls -> 0..MaxVersion]
        /\ snapshot \in [Calls -> Snapshots]
    BY DEF IInv, TypeOK
  <1>2. \A d \in Calls : snapshot'[d] # "gone"
    BY <1>1 DEF Attended
  <1>3. ASSUME NEW v \in Versions, status'[v] = "processing"
        PROVE  \E d \in Calls : stage'[d] \in Owning /\ ver'[d] = v
    <2>1. PICK d \in Calls : stage[d] \in Owning /\ ver[d] = v
      BY <1>3 DEF Attended
    <2>2. stage'[d] \in Owning /\ ver'[d] = v
      BY <1>1, <2>1
    <2> QED BY <2>2
  <1> QED
    BY <1>2, <1>3 DEF Attended

\* A version is left by its call only when its status is no longer processing.
LEMMA StepAttended == IInv /\ Attended /\ [NextUndisturbed]_vars => Attended'
  <1> SUFFICES ASSUME IInv, Attended, [NextUndisturbed]_vars PROVE Attended'
    OBVIOUS
  <1>1. /\ stage \in [Calls -> Stages] /\ ver \in [Calls -> 0..MaxVersion]
        /\ snapshot \in [Calls -> Snapshots] /\ status \in [Versions -> VersionStatus]
        /\ fileReady /\ verdict \in [Calls -> {"failed", "cleanup_required"}]
    BY DEF IInv, TypeOK, Attended
  <1>2. CASE UNCHANGED vars
    BY <1>2 DEF vars, Attended
  <1>3. ASSUME NEW c \in Calls, Starts(c) PROVE Attended'
    <2>1. PICK y \in Stages, z \in Versions :
            /\ stage[c] = "idle" /\ stage' = [stage EXCEPT ![c] = y]
            /\ ver' = [ver EXCEPT ![c] = z] /\ snapshot' = [snapshot EXCEPT ![c] = "ready"]
            /\ fileReady' = fileReady /\ status' = status
      BY <1>3 DEF Starts, BeginPrepare, BeginIndex, BeginRetry, Goto, Opens, Stages, table
    <2>2. "ready" \in Snapshots \ {"gone"} /\ stage[c] \notin Owning
      BY <2>1 DEF Snapshots, Owning
    <2> QED BY <2>1, <2>2, KeepsAttended
  <1>4. ASSUME NEW c \in Calls,
               \/ PersistVersion(c) \/ ReuseVersion(c) \/ RefuseVersion(c)
               \/ ReturnPrepared(c) \/ IngestPrepared(c)
               \/ RetryCleanup(c) \/ RetryCleanupFails(c) \/ Requeue(c) \/ ClaimLost(c)
        PROVE  Attended'
    <2>1. /\ stage[c] \notin Owning
          /\ fileReady' = fileReady
          /\ \A v \in Versions : status'[v] = "processing" => status[v] = "processing"
      BY <1>1, <1>4 DEF PersistVersion, ReuseVersion, RefuseVersion, ReturnPrepared,
         IngestPrepared, RetryCleanup, RetryCleanupFails, Requeue, ClaimLost, Owning, table
    <2>2. PICK x \in Snapshots \ {"gone"} : snapshot' = [snapshot EXCEPT ![c] = x]
      <3>1. \/ snapshot' = snapshot
            \/ snapshot' = [snapshot EXCEPT ![c] = "none"]
            \/ snapshot' = [snapshot EXCEPT ![c] = "ready"]
        BY <1>1, <1>4 DEF PersistVersion, ReuseVersion, RefuseVersion, ReturnPrepared,
           IngestPrepared, RetryCleanup, RetryCleanupFails, Requeue, ClaimLost, Ends, Opens,
           CurrentSnapshot
      <3>2. snapshot = [snapshot EXCEPT ![c] = snapshot[c]] /\ snapshot[c] \in Snapshots \ {"gone"}
        BY <1>1 DEF Attended
      <3>3. {"none", "ready"} \subseteq Snapshots \ {"gone"}
        BY DEF Snapshots
      <3> QED BY <3>1, <3>2, <3>3
    <2>3. PICK y \in Stages : stage' = [stage EXCEPT ![c] = y]
      BY <1>4 DEF PersistVersion, ReuseVersion, RefuseVersion, ReturnPrepared,
         IngestPrepared, RetryCleanup, RetryCleanupFails, Requeue, ClaimLost, Ends, Goto, Stages
    <2>4. \E z : ver' = [ver EXCEPT ![c] = z]
      <3>1. ver' = ver \/ \E z : ver' = [ver EXCEPT ![c] = z]
        BY <1>4 DEF PersistVersion, ReuseVersion, RefuseVersion, ReturnPrepared,
           IngestPrepared, RetryCleanup, RetryCleanupFails, Requeue, ClaimLost, Ends
      <3>2. ver = [ver EXCEPT ![c] = ver[c]]
        BY <1>1
      <3> QED BY <3>1, <3>2
    <2>5. PICK z : ver' = [ver EXCEPT ![c] = z]
      BY <2>4
    <2> QED BY <2>1, <2>2, <2>3, <2>5, KeepsAttended
  <1>5. ASSUME NEW c \in Calls, Claim(c) PROVE Attended'
    <2>1. /\ stage' = [stage EXCEPT ![c] = "embed"] /\ ver' = ver /\ fileReady' = fileReady
          /\ stage[c] = "claim"
          /\ status' = [status EXCEPT ![ver[c]] = "processing"]
          /\ snapshot' = [snapshot EXCEPT ![c] = "ready"]
      BY <1>1, <1>5 DEF Claim, Goto, Opens, CurrentSnapshot
    <2>2. \A d \in Calls : snapshot'[d] # "gone"
      BY <1>1, <2>1 DEF Attended
    <2>3. ASSUME NEW v \in Versions, status'[v] = "processing"
          PROVE  \E d \in Calls : stage'[d] \in Owning /\ ver'[d] = v
      <3>1. CASE v = ver[c]
        <4>1. stage'[c] \in Owning /\ ver'[c] = v
          BY <1>1, <2>1, <3>1 DEF Owning
        <4> QED BY <4>1
      <3>2. CASE v # ver[c]
        <4>1. status[v] = "processing"
          BY <1>1, <2>1, <2>3, <3>2
        <4>2. PICK d \in Calls : stage[d] \in Owning /\ ver[d] = v
          BY <4>1 DEF Attended
        <4>3. stage'[d] \in Owning /\ ver'[d] = v
          BY <1>1, <2>1, <4>2 DEF Owning
        <4> QED BY <4>3
      <3> QED BY <3>1, <3>2
    <2> QED
      BY <1>1, <2>1, <2>2, <2>3 DEF Attended
  <1>6. ASSUME NEW c \in Calls,
               \/ Embed(c) \/ EmbedFails(c) \/ UpsertBatch(c) \/ UpsertFails(c)
               \/ Compensate(c) \/ CompensateFails(c) \/ CompleteFails(c)
        PROVE  Attended'
    <2>1. fileReady' = fileReady /\ status' = status /\ ver' = [ver EXCEPT ![c] = ver[c]]
      BY <1>1, <1>6 DEF Embed, EmbedFails, UpsertBatch, UpsertFails, Compensate,
         CompensateFails, CompleteFails, table
    <2>2. PICK y \in Owning : stage' = [stage EXCEPT ![c] = y]
      BY <1>6 DEF Embed, EmbedFails, UpsertBatch, UpsertFails, Compensate, CompensateFails,
         CompleteFails, Goto, Owning
    <2>3. PICK x \in Snapshots \ {"gone"} : snapshot' = [snapshot EXCEPT ![c] = x]
      <3>1. snapshot' = snapshot \/ snapshot' = [snapshot EXCEPT ![c] = "ready"]
        BY <1>1, <1>6 DEF Embed, EmbedFails, UpsertBatch, UpsertFails, Compensate,
           CompensateFails, CompleteFails, Opens, CurrentSnapshot
      <3>2. snapshot = [snapshot EXCEPT ![c] = snapshot[c]] /\ snapshot[c] \in Snapshots \ {"gone"}
        BY <1>1 DEF Attended
      <3>3. "ready" \in Snapshots \ {"gone"}
        BY DEF Snapshots
      <3> QED BY <3>1, <3>2, <3>3
    <2>4. y \in Stages
      BY <2>2 DEF Owning, Stages
    <2> QED BY <2>1, <2>2, <2>3, <2>4, KeepsAttended
  <1>7. ASSUME NEW c \in Calls, Complete(c) \/ MarkFailed(c) PROVE Attended'
    <2>1. /\ stage[c] \in Owning /\ ver[c] \in Versions /\ status[ver[c]] = "processing"
          /\ \A d \in Calls : stage[d] \in Owning /\ ver[d] = ver[c] => d = c
      <3>1. stage[c] \in Owning
        BY <1>7 DEF Complete, MarkFailed, Owning
      <3> QED BY <3>1 DEF IInv, OneOwner
    <2>2. /\ fileReady' = fileReady
          /\ stage' = [stage EXCEPT ![c] = "idle"] /\ ver' = [ver EXCEPT ![c] = 0]
          /\ snapshot' = [snapshot EXCEPT ![c] = "none"]
      BY <1>7 DEF Complete, MarkFailed, Ends, Goto, Opens
    <2>3. PICK st \in {"indexed", "failed", "cleanup_required"} :
             status' = [status EXCEPT ![ver[c]] = st]
      BY <1>1, <1>7, <2>1 DEF Complete, MarkFailed
    <2>4. \A d \in Calls : snapshot'[d] # "gone"
      BY <1>1, <2>2 DEF Attended
    <2>5. ASSUME NEW v \in Versions, status'[v] = "processing"
          PROVE  \E d \in Calls : stage'[d] \in Owning /\ ver'[d] = v
      <3>1. v # ver[c] /\ status[v] = "processing"
        BY <1>1, <2>1, <2>3, <2>5
      <3>2. PICK d \in Calls : stage[d] \in Owning /\ ver[d] = v
        BY <3>1 DEF Attended
      <3>3. stage'[d] \in Owning /\ ver'[d] = v
        BY <1>1, <2>2, <3>1, <3>2
      <3> QED BY <3>3
    <2> QED
      BY <1>1, <2>2, <2>4, <2>5 DEF Attended
  <1>8. ASSUME NEW c \in Calls, DocumentGone(c) PROVE FALSE
    BY <1>8 DEF DocumentGone, Attended
  <1> QED
    BY <1>2, <1>3, <1>4, <1>5, <1>6, <1>7, <1>8 DEF NextUndisturbed, Proceeds

\* The steps a call has left, at most.
StepsLeft(c) ==
    CASE stage[c] = "idle"        -> 0
      [] stage[c] = "mark_failed" -> 1
      [] stage[c] = "compensate"  -> 2
      [] stage[c] = "complete"    -> 3
      [] stage[c] = "upsert"      -> NumBatches - sent[c] + 3
      [] stage[c] = "embed"       -> NumBatches + 4
      [] stage[c] = "claim"       -> NumBatches + 5
      [] stage[c] \in {"prepared", "requeue"} -> NumBatches + 6
      [] stage[c] \in {"persist", "cleanup"}  -> NumBatches + 7

\* Every step of a call leaves it fewer of them, and the other calls theirs.
CallsAdvance ==
    \A c \in Calls : Proceeds(c) \/ Vanish(c) =>
        /\ StepsLeft(c)' < StepsLeft(c)
        /\ \A d \in Calls \ {c} : StepsLeft(d)' = StepsLeft(d)

\* The measure is a number, and a call that owns a version has the end of it ahead.
LEMMA StepsBounded ==
    ASSUME IInv, NEW c \in Calls
    PROVE  /\ StepsLeft(c) \in 0..(NumBatches + 7)
           /\ stage[c] \in Owning => StepsLeft(c) \in 1..(NumBatches + 4)
  <1>1. /\ stage[c] \in Stages /\ sent[c] \in 0..NumBatches /\ NumBatches \in Nat
        /\ stage[c] = "upsert" => sent[c] < NumBatches
    BY BoundsAssumption DEF IInv, TypeOK, CallInv
  <1>2. \/ stage[c] = "idle" /\ StepsLeft(c) = 0
        \/ stage[c] = "mark_failed" /\ StepsLeft(c) = 1
        \/ stage[c] = "compensate" /\ StepsLeft(c) = 2
        \/ stage[c] = "complete" /\ StepsLeft(c) = 3
        \/ stage[c] = "upsert" /\ StepsLeft(c) = NumBatches - sent[c] + 3
        \/ stage[c] = "embed" /\ StepsLeft(c) = NumBatches + 4
        \/ stage[c] = "claim" /\ StepsLeft(c) = NumBatches + 5
        \/ stage[c] \in {"prepared", "requeue"} /\ StepsLeft(c) = NumBatches + 6
        \/ stage[c] \in {"persist", "cleanup"} /\ StepsLeft(c) = NumBatches + 7
    BY <1>1 DEF StepsLeft, Stages
  <1>3. CASE stage[c] = "upsert"
    BY <1>1, <1>2, <1>3
  <1>4. CASE stage[c] # "upsert"
    BY <1>1, <1>2, <1>4 DEF Owning
  <1> QED
    BY <1>3, <1>4

\* A call whose stage and batches are as before has as many steps left as before.
LEMMA SameSteps ==
    ASSUME NEW d \in Calls, stage'[d] = stage[d], sent'[d] = sent[d]
    PROVE  StepsLeft(d)' = StepsLeft(d)
  BY DEF StepsLeft

\* The stages follow one another in the order of the measure.
LEMMA StepAdvances == IInv /\ [Next]_vars => CallsAdvance
  <1> SUFFICES ASSUME IInv, NEW c \in Calls, Proceeds(c) \/ Vanish(c)
               PROVE  /\ StepsLeft(c)' < StepsLeft(c)
                      /\ \A d \in Calls \ {c} : StepsLeft(d)' = StepsLeft(d)
    BY DEF CallsAdvance
  <1>1. /\ stage \in [Calls -> Stages] /\ sent \in [Calls -> 0..NumBatches]
        /\ NumBatches \in Nat \ {0}
        /\ stage[c] = "upsert" => sent[c] < NumBatches
        /\ stage[c] \notin {"upsert", "compensate", "complete", "mark_failed"} => sent[c] = 0
    BY BoundsAssumption DEF IInv, TypeOK, CallInv
  <1>2. \A d \in Calls \ {c} : stage'[d] = stage[d] /\ sent'[d] = sent[d]
    BY <1>1 DEF Proceeds, Vanish, Ends, Goto, PersistVersion, ReuseVersion, RefuseVersion,
       ReturnPrepared, IngestPrepared, RetryCleanup, RetryCleanupFails, Requeue, Claim,
       ClaimLost, Embed, EmbedFails, UpsertBatch, UpsertFails, Compensate, CompensateFails,
       Complete, CompleteFails, MarkFailed, DocumentGone
  <1>3. \A d \in Calls \ {c} : StepsLeft(d)' = StepsLeft(d)
    BY <1>2, SameSteps
  <1>4. StepsLeft(c)' < StepsLeft(c)
    <2>1. CASE stage'[c] = "idle" /\ stage[c] # "idle"
      BY <1>1, <2>1 DEF StepsLeft, Stages
    <2>2. CASE PersistVersion(c) \/ ReuseVersion(c)
      <3>1. stage[c] = "persist" /\ stage'[c] = "prepared"
        BY <1>1, <2>2 DEF PersistVersion, ReuseVersion, Goto
      <3> QED BY <1>1, <3>1 DEF StepsLeft
    <2>3. CASE RetryCleanup(c)
      <3>1. stage[c] = "cleanup" /\ stage'[c] = "requeue"
        BY <1>1, <2>3 DEF RetryCleanup, Goto
      <3> QED BY <1>1, <3>1 DEF StepsLeft
    <2>4. CASE IngestPrepared(c) \/ (Requeue(c) /\ stage'[c] # "idle")
      <3>1. stage[c] \in {"prepared", "requeue"} /\ stage'[c] = "claim"
        BY <1>1, <2>4 DEF IngestPrepared, Requeue, Goto, Ends
      <3> QED BY <1>1, <3>1 DEF StepsLeft
    <2>5. CASE Claim(c)
      <3>1. stage[c] = "claim" /\ stage'[c] = "embed"
        BY <1>1, <2>5 DEF Claim, Goto
      <3> QED BY <1>1, <3>1 DEF StepsLeft
    <2>6. CASE Embed(c)
      <3>1. stage[c] = "embed" /\ stage'[c] = "upsert" /\ sent'[c] = 0
        BY <1>1, <2>6 DEF Embed, Goto
      <3> QED BY <1>1, <3>1 DEF StepsLeft
    <2>7. CASE UpsertBatch(c)
      <3>1. /\ stage[c] = "upsert" /\ stage'[c] \in {"upsert", "complete"}
            /\ sent'[c] = sent[c] + 1
        BY <1>1, <2>7 DEF UpsertBatch, Goto
      <3>2. StepsLeft(c) = NumBatches - sent[c] + 3
        BY <3>1 DEF StepsLeft
      <3>3. StepsLeft(c)' \in {3, NumBatches - (sent[c] + 1) + 3}
        BY <3>1 DEF StepsLeft
      <3> QED BY <1>1, <3>1, <3>2, <3>3
    <2>8. CASE EmbedFails(c) \/ UpsertFails(c) \/ CompleteFails(c) \/ Compensate(c)
                 \/ CompensateFails(c)
      <3>1. \/ stage[c] \in {"embed", "compensate"} /\ stage'[c] = "mark_failed"
            \/ stage[c] \in {"upsert", "complete"} /\ stage'[c] = "compensate"
        BY <1>1, <2>8 DEF EmbedFails, UpsertFails, CompleteFails, Compensate, CompensateFails, Goto
      <3> QED BY <1>1, <3>1 DEF StepsLeft
    <2>9. CASE RefuseVersion(c) \/ ReturnPrepared(c) \/ RetryCleanupFails(c) \/ ClaimLost(c)
                 \/ Complete(c) \/ MarkFailed(c) \/ DocumentGone(c) \/ Vanish(c)
      <3>1. stage'[c] = "idle" /\ stage[c] # "idle"
        BY <1>1, <2>9 DEF RefuseVersion, ReturnPrepared, RetryCleanupFails, ClaimLost, Complete,
           MarkFailed, DocumentGone, Vanish, Ends, Goto
      <3> QED BY <2>1, <3>1
    <2>10. CASE Requeue(c) /\ stage'[c] = "idle"
      <3>1. stage[c] # "idle"
        BY <2>10 DEF Requeue
      <3> QED BY <2>1, <2>10, <3>1
    <2> QED
      BY <2>2, <2>3, <2>4, <2>5, <2>6, <2>7, <2>8, <2>9, <2>10 DEF Proceeds
  <1> QED
    BY <1>3, <1>4

\* While no call is killed and the file stays, a version that is processing is owned
\* by a call that finds its document at the end: what ProcessingSettles needs beside
\* fairness, and what a deletion of the file takes away (index_document_version).
THEOREM ProcessingAttended == UndisturbedSpec => []Attended
  <1>1. Init => IInv /\ Attended
    BY InitIInv DEF Init, Attended, Versions
  <1>2. IInv /\ Attended /\ [NextUndisturbed]_vars => IInv' /\ Attended'
    BY StepIInv, StepAttended DEF Next
  <1> QED
    BY <1>1, <1>2, PTL DEF UndisturbedSpec

\* However calls interleave, each ends: every step of a call leaves it fewer, and no
\* step of another one gives it more.  From its claim on, a call has at most
\* NumBatches + 4 steps, the last of which settles the version or loses it.
THEOREM CallsEnd ==
    Spec => /\ [](\A c \in Calls : /\ StepsLeft(c) \in 0..(NumBatches + 7)
                                   /\ stage[c] \in Owning => StepsLeft(c) \in 1..(NumBatches + 4))
            /\ [][CallsAdvance]_vars
  <1>1. IInv => \A c \in Calls : /\ StepsLeft(c) \in 0..(NumBatches + 7)
                                 /\ stage[c] \in Owning => StepsLeft(c) \in 1..(NumBatches + 4)
    BY StepsBounded
  <1>2. IInv /\ [Next]_vars => [CallsAdvance]_vars
    BY StepAdvances
  <1> QED
    BY <1>1, <1>2, AlwaysIInv, PTL DEF Spec

===============================================================================
