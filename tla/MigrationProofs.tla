--------------------------- MODULE MigrationProofs ---------------------------
(***************************************************************************)
(* Proofs about Migration for every set of migration ids and every value   *)
(* of the bounds: any number of migrations, crashes, failed writes, late   *)
(* or repeated requests.  First what holds whatever fails; then that the   *)
(* keys are never lost and the two servers implement KeyCustody, which     *)
(* holds as long as the writes of the migration state succeed.             *)
(***************************************************************************)
EXTENDS Migration, TLAPS

\* A migration that B is working on has an id: without this the requests B
\* sends would not be well typed.
IdKnown == bJob # "none" \/ bPhase # "none" => bId \in Ids

DataInv == TypeData /\ IdKnown

\* The flags of A, those of B and the history's.
FlagsA == aKeys \in BOOLEAN /\ aUp \in BOOLEAN /\ aBlocked \in BOOLEAN /\ aRun \in BOOLEAN
FlagsB ==
  /\ bBackup \in BOOLEAN /\ bUp \in BOOLEAN /\ bBlocked \in BOOLEAN
  /\ bRun \in BOOLEAN /\ bLogin \in BOOLEAN /\ bOnce \in BOOLEAN
FlagsH ==
  /\ forced \in BOOLEAN /\ bUsed \in BOOLEAN /\ lostOnce \in BOOLEAN
  /\ late \in BOOLEAN /\ unwritten \in BOOLEAN

\* A step of A leaves everything of B alone, and the other way round.
LEMMA NextAKeepsB == NextA => UNCHANGED bVars
BY DEF NextA, RecvLock, LockSnapshot, LockFails, RecvCommit, CommitPersist,
      RecvAbort, AdminUnlock, CrashA, BootA

LEMMA NextBKeepsA == NextB => UNCHANGED aVars
BY DEF NextB, StartImport, CallLost, FetchManifest, Download, Backup, PrepareFails,
      CloneTables, Reload, EnterConnecting, AccountLogsIn, HandleConnected,
      WaitConnected, CommitStart, CommitRetry, CommitDone, CommitRefused, Rollback,
      RollbackStop, RollbackKeepsClone, RollbackRestores, RollbackFails, AbortRetry,
      AbortEnds, FinishAborted, CrashB, BootB

\* The flags of A stay Boolean: that of blocksSource is a condition.
LEMMA FlagsAStep == FlagsA /\ NextA => FlagsA'
<1> SUFFICES ASSUME FlagsA, NextA PROVE FlagsA'
  OBVIOUS
<1> USE DEF FlagsA
<1>0. blocksSource(aPhase) \in BOOLEAN
  BY SMT DEF blocksSource
<1>1. CASE RecvLock
  BY <1>1 DEF RecvLock, LockAccepted, LockAnswered, aVars
<1>2. CASE LockSnapshot
  BY <1>2 DEF LockSnapshot
<1>3. CASE LockFails
  BY <1>3 DEF LockFails, UnlockSource
<1>4. CASE RecvCommit
  BY <1>4 DEF RecvCommit, CommitAnswered, CommitWipes, aVars
<1>5. CASE CommitPersist
  BY <1>5 DEF CommitPersist
<1>6. CASE RecvAbort
  BY <1>6 DEF RecvAbort, AbortAnswered, AbortUnlocks, UnlockSource, aVars
<1>7. CASE AdminUnlock
  BY <1>7 DEF AdminUnlock, UnlockSource
<1>8. CASE CrashA
  BY <1>8 DEF CrashA
<1>9. CASE BootA
  BY <1>9, <1>0 DEF BootA
<1> QED BY <1>1, <1>2, <1>3, <1>4, <1>5, <1>6, <1>7, <1>8, <1>9 DEF NextA

\* The flags of B stay Boolean: those of rollback and boot are conditions.
LEMMA FlagsBStep == FlagsB /\ NextB => FlagsB'
<1> SUFFICES ASSUME FlagsB, NextB PROVE FlagsB'
  OBVIOUS
<1> USE DEF FlagsB
<1>0. ASSUME NEW id \in Ids, StartImport(id) PROVE FlagsB'
  BY <1>0 DEF StartImport, logins
<1>1. CASE CallLost
  BY <1>1 DEF CallLost, bVars
<1>2. CASE FetchManifest
  BY <1>2 DEF FetchManifest, bDisk, bProc
<1>3. CASE Download
  BY <1>3 DEF Download, bDisk, bProc
<1>4. CASE Backup
  BY <1>4 DEF Backup, bProc
<1>5. CASE PrepareFails
  BY <1>5 DEF PrepareFails, FailBeforeImport, bDisk, logins
<1>6. CASE CloneTables
  BY <1>6 DEF CloneTables, bProc
<1>7. CASE Reload
  BY <1>7 DEF Reload, bDisk, logins
<1>8. CASE EnterConnecting
  BY <1>8 DEF EnterConnecting, bDisk, bProc
<1>9. CASE AccountLogsIn
  BY <1>9 DEF AccountLogsIn, bDisk
<1>10. CASE HandleConnected
  BY <1>10 DEF HandleConnected, bDisk
<1>11. CASE WaitConnected
  BY <1>11 DEF WaitConnected, bDisk, bProc
<1>12. CASE CommitStart
  BY <1>12 DEF CommitStart, bDisk, bProc
<1>13. CASE CommitRetry
  BY <1>13 DEF CommitRetry, bVars
<1>14. CASE CommitDone
  BY <1>14 DEF CommitDone, bProc
<1>15. CASE CommitRefused
  BY <1>15 DEF CommitRefused, bDisk, bProc
<1>16. CASE Rollback
  BY <1>16 DEF Rollback, bDisk, bProc
<1>17. CASE RollbackStop
  BY <1>17 DEF RollbackStop, bDisk, logins
<1>18. CASE RollbackKeepsClone
  BY <1>18 DEF RollbackKeepsClone, bDisk, logins
<1>19. CASE RollbackRestores
  BY <1>19 DEF RollbackRestores, Forget
<1>20. CASE RollbackFails
  BY <1>20 DEF RollbackFails, Forget, bDisk
<1>21. CASE AbortRetry
  BY <1>21 DEF AbortRetry, bDisk, bProc
<1>22. CASE AbortEnds
  BY <1>22 DEF AbortEnds, bProc
<1>23. CASE FinishAborted
  BY <1>23 DEF FinishAborted, bDisk, bProc
<1>24. CASE CrashB
  BY <1>24 DEF CrashB, bDisk
<1>25. CASE BootB
  BY <1>25 DEF BootB, bDisk, logins
<1> QED BY <1>0, <1>1, <1>2, <1>3, <1>4, <1>5, <1>6, <1>7, <1>8, <1>9, <1>10, <1>11,
           <1>12, <1>13, <1>14, <1>15, <1>16, <1>17, <1>18, <1>19, <1>20, <1>21,
           <1>22, <1>23, <1>24, <1>25 DEF NextB

\* What the history notes is Boolean.
LEMMA FlagsHStep == FlagsB /\ FlagsH /\ Next => FlagsH'
<1> SUFFICES ASSUME FlagsB, FlagsH, Next PROVE FlagsH'
  OBVIOUS
<1> USE DEF FlagsB, FlagsH
<1>0. CASE UNCHANGED hist
  BY <1>0 DEF hist
<1>1. CASE RecvLock
  BY <1>1 DEF RecvLock
<1>2. CASE AdminUnlock
  BY <1>2 DEF AdminUnlock, UnlockIsSafe
<1>3. CASE CrashA
  BY <1>3 DEF CrashA
<1>4. CASE AccountLogsIn
  BY <1>4 DEF AccountLogsIn
<1>5. CASE CommitStart
  BY <1>5 DEF CommitStart, past
<1>6. CASE Rollback
  BY <1>6 DEF Rollback, past
<1>7. CASE RollbackRestores
  BY <1>7 DEF RollbackRestores, Forget, others
<1>8. CASE RollbackFails
  BY <1>8 DEF RollbackFails, Forget, others
<1>9. CASE CrashB
  BY <1>9 DEF CrashB
<1>10. \/ UNCHANGED hist \/ RecvLock \/ AdminUnlock \/ CrashA \/ AccountLogsIn \/ CommitStart
     \/ Rollback \/ RollbackRestores \/ RollbackFails \/ CrashB
  BY DEF Next, NextA, NextB, StartImport, LockSnapshot, LockFails, RecvCommit,
         CommitPersist, RecvAbort, BootA, CallLost, FetchManifest, Download, Backup,
         PrepareFails, CloneTables, Reload, EnterConnecting, HandleConnected,
         WaitConnected, CommitRetry, CommitDone, CommitRefused, RollbackStop,
         RollbackKeepsClone, AbortRetry, AbortEnds, FinishAborted, BootB
<1> QED BY <1>0, <1>1, <1>2, <1>3, <1>4, <1>5, <1>6, <1>7, <1>8, <1>9, <1>10

\* Every action keeps the flags Boolean.
LEMMA FlagsStep == TypeFlags /\ [Next]_vars => TypeFlags'
<1> SUFFICES ASSUME TypeFlags, [Next]_vars PROVE TypeFlags'
  OBVIOUS
<1>1. FlagsA /\ FlagsB /\ FlagsH
  BY DEF TypeFlags, FlagsA, FlagsB, FlagsH
<1>2. FlagsA' /\ FlagsB' /\ FlagsH'
  <2>1. CASE UNCHANGED vars
    BY <1>1, <2>1 DEF vars, FlagsA, FlagsB, FlagsH
  <2>2. CASE NextA
    <3>1. FlagsB'
      BY <1>1, <2>2, NextAKeepsB DEF bVars, FlagsB
    <3> QED BY <1>1, <2>2, <3>1, FlagsAStep, FlagsHStep DEF Next
  <2>3. CASE NextB
    <3>1. FlagsA'
      BY <1>1, <2>3, NextBKeepsA DEF aVars, FlagsA
    <3> QED BY <1>1, <2>3, <3>1, FlagsBStep, FlagsHStep DEF Next
  <2> QED BY <2>1, <2>2, <2>3 DEF Next
<1> QED BY <1>2 DEF TypeFlags, FlagsA, FlagsB, FlagsH

\* Every action keeps the rest of the state well typed: the phases written by
\* update, the requests and the answers of migSourceClient.
LEMMA DataStep == DataInv /\ [Next]_vars => DataInv'
<1> SUFFICES ASSUME DataInv, [Next]_vars PROVE DataInv'
  OBVIOUS
<1> USE DEF DataInv, TypeData, IdKnown, aVars, aState, bVars, bState, bDisk, bProc,
            logins, netVars, hist, past, others, Forget, APhase, BPhase, BJob
<1>1. CASE UNCHANGED vars
  BY <1>1 DEF vars
<1>2. CASE NextA
  <2>1. CASE RecvLock
    <3>1. PICK m \in net : /\ seen' = seen \union {m.id}
                           /\ LockAccepted(m.id) \/ LockAnswered(m.id)
      BY <2>1 DEF RecvLock
    <3>2. m.id \in Ids
      BY DEF Requests
    <3>3. UNCHANGED <<bVars, crashes, forced, bUsed, lostOnce, late, unwritten, faults>>
      BY <2>1 DEF RecvLock
    <3>4. CASE LockAccepted(m.id)
      BY <3>1, <3>2, <3>3, <3>4 DEF LockAccepted
    <3>5. CASE LockAnswered(m.id)
      BY <3>1, <3>2, <3>3, <3>5 DEF LockAnswered, Answer
    <3> QED BY <3>1, <3>4, <3>5
  <2>2. CASE LockSnapshot
    BY <2>2 DEF LockSnapshot, Answer
  <2>3. CASE LockFails
    BY <2>3 DEF LockFails, UnlockSource, Answer
  <2>4. CASE RecvCommit
    <3>1. PICK m \in net : CommitAnswered(m) \/ CommitWipes(m)
      BY <2>4 DEF RecvCommit
    <3>2. UNCHANGED <<bVars, hist, faults>>
      BY <2>4 DEF RecvCommit
    <3>3. CASE CommitAnswered(m)
      BY <3>2, <3>3 DEF CommitAnswered, Answer
    <3>4. CASE CommitWipes(m)
      BY <3>2, <3>4 DEF CommitWipes
    <3> QED BY <3>1, <3>3, <3>4
  <2>5. CASE CommitPersist
    BY <2>5 DEF CommitPersist, Answer
  <2>6. CASE RecvAbort
    <3>1. PICK m \in net : AbortAnswered(m.id) \/ AbortUnlocks(m.id)
      BY <2>6 DEF RecvAbort
    <3>2. UNCHANGED <<bVars, hist>>
      BY <2>6 DEF RecvAbort
    <3>3. CASE AbortAnswered(m.id)
      BY <3>2, <3>3 DEF AbortAnswered, Answer
    <3>4. CASE AbortUnlocks(m.id)
      BY <3>2, <3>4 DEF AbortUnlocks, UnlockSource, Answer
    <3> QED BY <3>1, <3>3, <3>4
  <2>7. CASE AdminUnlock
    BY <2>7 DEF AdminUnlock, UnlockSource
  <2>8. CASE CrashA
    BY <2>8 DEF CrashA
  <2>9. CASE BootA
    BY <2>9 DEF BootA
  <2> QED BY <1>2, <2>1, <2>2, <2>3, <2>4, <2>5, <2>6, <2>7, <2>8, <2>9 DEF NextA
<1>3. CASE NextB
  <2>1. ASSUME NEW id \in Ids, StartImport(id) PROVE DataInv'
    BY <2>1 DEF StartImport, Send, Requests
  <2>2. CASE CallLost
    BY <2>2 DEF CallLost
  <2>3. CASE FetchManifest \/ Download \/ Backup \/ CloneTables
    BY <2>3 DEF FetchManifest, Download, Backup, CloneTables
  <2>4. CASE PrepareFails
    BY <2>4 DEF PrepareFails, FailBeforeImport, Send, Requests
  <2>5. CASE Reload \/ AccountLogsIn \/ HandleConnected \/ WaitConnected
    BY <2>5 DEF Reload, AccountLogsIn, HandleConnected, WaitConnected
  <2>6. CASE EnterConnecting \/ CommitDone \/ CommitRefused \/ Rollback
    BY <2>6 DEF EnterConnecting, CommitDone, CommitRefused, Rollback, Persist
  <2>7. CASE CommitStart \/ CommitRetry
    BY <2>7 DEF CommitStart, CommitRetry, Persist, Send, Requests
  <2>8. CASE RollbackStop \/ RollbackKeepsClone \/ RollbackFails
    BY <2>8 DEF RollbackStop, RollbackKeepsClone, RollbackFails
  <2>9. CASE RollbackRestores \/ AbortRetry
    BY <2>9 DEF RollbackRestores, AbortRetry, Send, Requests
  <2>10. CASE AbortEnds \/ FinishAborted
    BY <2>10 DEF AbortEnds, FinishAborted, Persist
  <2>11. CASE CrashB
    BY <2>11 DEF CrashB
  <2>12. CASE BootB
    BY <2>12 DEF BootB, resumeJob, Send, Requests
  <2> QED BY <1>3, <2>1, <2>2, <2>3, <2>4, <2>5, <2>6, <2>7, <2>8, <2>9, <2>10,
             <2>11, <2>12 DEF NextB
<1> QED BY <1>1, <1>2, <1>3 DEF Next

\* Every reachable state of the two migrators (migration.go) is well typed,
\* whatever the bounds.
THEOREM TypeCorrect == Spec => []TypeOK
<1>1. Init => TypeFlags
  BY Zenon DEF Init, TypeFlags
<1>2. Init => DataInv
  BY DEF Init, DataInv, TypeData, IdKnown, APhase, BPhase, BJob
<1>3. TypeFlags /\ DataInv => TypeOK
  BY DEF DataInv, TypeOK
<1> QED BY <1>1, <1>2, <1>3, FlagsStep, DataStep, PTL DEF Spec

-----------------------------------------------------------------------------
(***************************************************************************)
(* The golden rule.  B holds a live copy of the keys from its lock request *)
(* to the end of its rollback (Live).  While it does, nobody may release A *)
(* and A may not be locked by another migration.                           *)
(***************************************************************************)

Preparing == {"lock", "download", "import", "clone"}

\* B has the keys, or is on the way to get them.
Live == bJob \in Preparing \/ bData = "clone"

\* B has a snapshot of A: from the answer to its lock request on.
Holding ==
  \/ bData = "clone"
  \/ bJob \in {"download", "import", "clone"}
  \/ bJob = "lock" /\ bReply = "ok"

\* What B's job, phase and clients tell about its database.
DataFollowsJob ==
  /\ bJob \in Preparing => bPhase = "preparing"
  /\ bPhase \in {"none", "preparing", "aborted"} => bData # "clone"
  /\ bPhase = "failed" /\ bError = "unlock" => bData # "clone"
  /\ bJob \in {"abort", "finishOk", "finishErr"} => bData # "clone"
  /\ bRun \/ bLogin \/ bOnce \/ bJob = "reload" => bData = "clone"

\* A is locked during its operations, and not yet frozen while it locks.
OperationLocked ==
  /\ aOp = "lock" => aPhase = "locked" /\ aSnap = 0 /\ locks # 0
  /\ aOp = "commit" => aPhase = "locked"

\* Requests leave a trace: an id that A or B knows was sent before, and B asks
\* for an abort only when it does not hold the keys.
RequestsTrace ==
  /\ aId # NoId => \E m \in net : m.id = aId
  /\ \A m \in net : m.type = "abort" /\ m.id = bId => ~Live

\* The snapshot that B holds is that of a frozen A, locked by B's migration.
Frozen ==
  \/ forced
  \/ /\ Live /\ aId = bId /\ aSnap # 0 =>
          ~aRun /\ aPhase \in {"locked", "committed"}
     /\ Holding =>
          aId = bId /\ aSnap # 0 /\ aPhase \in {"locked", "committed"} /\ aOp # "lock"

\* B has a manifest from the answer to its lock request to the end of the job.
ManifestKept ==
  /\ bJob = "lock" /\ bReply = "ok" => rSnap # 0
  /\ bJob \notin {"none", "lock", "abort", "finishOk", "finishErr"} => bSnap # 0
  /\ ManifestPresent

GoldenParts ==
  DataFollowsJob /\ OperationLocked /\ RequestsTrace /\ Frozen /\ ManifestKept

\* The inductive invariant.
GoldenInv == DataInv /\ GoldenParts

\* Every handler of A (migration_source.go) and every step of B's job
\* (migration_target.go) keeps the frozen copy of the keys apart from A.
LEMMA GoldenStep == GoldenInv /\ [Next]_vars => GoldenInv'
<1> SUFFICES ASSUME GoldenInv, [Next]_vars PROVE GoldenParts'
  BY DataStep DEF GoldenInv, GoldenParts
<1> DataInv /\ DataInv'
  BY DataStep DEF GoldenInv
<1> USE DEF GoldenInv, GoldenParts, DataFollowsJob, OperationLocked, RequestsTrace,
            Frozen, ManifestKept, ManifestPresent, Live, Holding, Preparing,
            aVars, aState, bVars, bState, bDisk, bProc, logins, netVars, hist, past, others, Forget
<1>1. CASE UNCHANGED vars
  BY <1>1 DEF vars
<1>2. CASE NextA
  <2>1. CASE RecvLock
    <3>1. PICK m \in net : m.type = "lock" /\ (LockAccepted(m.id) \/ LockAnswered(m.id))
      BY <2>1 DEF RecvLock
    <3>2. aOp = "none" /\ UNCHANGED <<bVars, crashes, forced, bUsed, lostOnce, late, unwritten, faults>>
      BY <2>1 DEF RecvLock
    <3>3. CASE LockAccepted(m.id)
      BY <3>2, <3>3 DEF LockAccepted, blocksSource, TypeData, DataInv
    <3>4. CASE LockAnswered(m.id)
      BY <3>2, <3>4 DEF LockAnswered, Answer
    <3> QED BY <3>1, <3>3, <3>4
  <2>2. CASE LockSnapshot
    BY <2>2 DEF LockSnapshot, Answer
  <2>3. CASE LockFails
    BY <2>3 DEF LockFails, UnlockSource, Answer
  <2>4. CASE RecvCommit
    <3>1. PICK m \in net : CommitAnswered(m) \/ CommitWipes(m)
      BY <2>4 DEF RecvCommit
    <3>2. aOp = "none" /\ UNCHANGED <<bVars, hist, faults>>
      BY <2>4 DEF RecvCommit
    <3>3. CASE CommitAnswered(m)
      BY <3>2, <3>3 DEF CommitAnswered, Answer
    <3>4. CASE CommitWipes(m)
      BY <3>2, <3>4 DEF CommitWipes, CommitMatches
    <3> QED BY <3>1, <3>3, <3>4
  <2>5. CASE CommitPersist
    BY <2>5 DEF CommitPersist, Answer
  <2>6. CASE RecvAbort
    BY <2>6 DEF RecvAbort, AbortAnswered, AbortUnlocks, AbortMatches, UnlockSource,
                Answer
  <2>7. CASE AdminUnlock
    BY <2>7 DEF AdminUnlock, UnlockSource, UnlockIsSafe
  <2>8. CASE CrashA
    BY <2>8 DEF CrashA
  <2>9. CASE BootA
    BY <2>9 DEF BootA, blocksSource
  <2> QED BY <1>2, <2>1, <2>2, <2>3, <2>4, <2>5, <2>6, <2>7, <2>8, <2>9 DEF NextA
<1>3. CASE NextB
  <2>1. ASSUME NEW id \in Ids, StartImport(id) PROVE GoldenParts'
    <3>1. aId # id /\ \A m \in net : m.id # id
      BY <2>1, IdsAssumption DEF StartImport
    <3>2. net' = net \union {[type |-> "lock", id |-> id, snap |-> 0]}
      BY <2>1 DEF StartImport, Send
    <3>3. DataFollowsJob' /\ OperationLocked' /\ Frozen' /\ ManifestKept'
      BY <2>1, <3>1 DEF StartImport, Send
    <3>4. RequestsTrace'
      BY <2>1, <3>1, <3>2 DEF StartImport
    <3> QED BY <3>3, <3>4
  <2>2. CASE CallLost
    BY <2>2 DEF CallLost
  <2>3. CASE FetchManifest
    BY <2>3 DEF FetchManifest
  <2>4. CASE Download
    BY <2>4 DEF Download
  <2>5. CASE Backup
    BY <2>5 DEF Backup
  <2>6. CASE PrepareFails
    BY <2>6 DEF PrepareFails, FailBeforeImport, Send
  <2>7. CASE CloneTables
    BY <2>7 DEF CloneTables
  <2>8. CASE Reload
    BY <2>8 DEF Reload
  <2>9. CASE EnterConnecting
    BY <2>9 DEF EnterConnecting, Persist
  <2>10. CASE AccountLogsIn \/ HandleConnected
    BY <2>10 DEF AccountLogsIn, HandleConnected
  <2>11. CASE WaitConnected
    BY <2>11 DEF WaitConnected, EverConnected
  <2>12. CASE CommitStart
    BY <2>12 DEF CommitStart, Persist, Send
  <2>13. CASE CommitRetry
    BY <2>13 DEF CommitRetry, Send
  <2>14. CASE CommitDone
    BY <2>14 DEF CommitDone, Persist
  <2>15. CASE CommitRefused
    BY <2>15 DEF CommitRefused, Persist
  <2>16. CASE Rollback
    BY <2>16 DEF Rollback, Persist
  <2>17. CASE RollbackStop
    BY <2>17 DEF RollbackStop
  <2>18. CASE RollbackKeepsClone
    BY <2>18 DEF RollbackKeepsClone, EverConnected
  <2>19. CASE RollbackRestores
    BY <2>19 DEF RollbackRestores, EverConnected, Send
  <2>20. CASE RollbackFails
    BY <2>20 DEF RollbackFails
  <2>21. CASE AbortRetry
    BY <2>21 DEF AbortRetry, Send
  <2>22. CASE AbortEnds
    BY <2>22 DEF AbortEnds
  <2>23. CASE FinishAborted
    BY <2>23 DEF FinishAborted, Persist
  <2>24. CASE CrashB
    BY <2>24 DEF CrashB
  <2>25. CASE BootB
    BY <2>25 DEF BootB, resumeJob, blocksTarget, Send
  <2> QED BY <1>3, <2>1, <2>2, <2>3, <2>4, <2>5, <2>6, <2>7, <2>8, <2>9, <2>10, <2>11,
             <2>12, <2>13, <2>14, <2>15, <2>16, <2>17, <2>18, <2>19, <2>20, <2>21,
             <2>22, <2>23, <2>24, <2>25 DEF NextB
<1> QED BY <1>1, <1>2, <1>3 DEF Next

\* The inductive invariant holds of every reachable state: newMigrator starts
\* both servers in it, and every step keeps it.
LEMMA GoldenInvariant == Spec => []GoldenInv
<1>1. Init => DataInv
  BY DEF Init, DataInv, TypeData, IdKnown, APhase, BPhase, BJob
<1>2. Init => GoldenParts
  BY DEF Init, GoldenParts, DataFollowsJob, OperationLocked, RequestsTrace, Frozen,
         ManifestKept, ManifestPresent, Live, Holding, Preparing
<1>3. DataInv /\ GoldenParts => GoldenInv
  BY DEF GoldenInv
<1> QED BY <1>1, <1>2, <1>3, GoldenStep, PTL DEF Spec

\* The golden rule (migration.go:31) for any number of migrations, crashes,
\* failed writes and late or repeated requests: unless A is unlocked by hand
\* against B's word, the accounts never run on both servers.
THEOREM GoldenRuleHolds == Spec => []GoldenRule
<1>1. GoldenInv => GoldenRule
  BY DEF GoldenInv, GoldenParts, DataFollowsJob, Frozen, Live, Holding, GoldenRule
<1> QED BY <1>1, GoldenInvariant, PTL

\* commitLoop (migration_target.go:794, 943) never dereferences a missing
\* manifest, whatever write failed.
THEOREM ManifestAlwaysPresent == Spec => []ManifestPresent
<1>1. GoldenInv => ManifestPresent
  BY DEF GoldenInv, GoldenParts, ManifestKept
<1> QED BY <1>1, GoldenInvariant, PTL

\* No late lock, abort or unlock and no restart revives an origin that has been
\* migrated (migration_source.go): every action of A that writes the phase
\* needs another one.
THEOREM TombstoneIsForever == Spec => TombstoneForever
<1>1. GoldenInv /\ [Next]_vars => [aPhase = "committed" => aPhase' = "committed"]_vars
  <2> SUFFICES ASSUME OperationLocked, [Next]_vars, aPhase = "committed"
               PROVE aPhase' = "committed"
    BY DEF GoldenInv, GoldenParts
  <2> USE DEF aVars, aState, bVars
  <2>1. aOp = "none" \/ (aOp # "lock" /\ aOp # "commit")
    BY DEF OperationLocked
  <2>2. CASE UNCHANGED vars
    BY <2>2 DEF vars
  <2>3. CASE NextA
    <3>1. CASE RecvLock
      BY <3>1 DEF RecvLock, LockAccepted, LockAnswered, blocksSource
    <3>2. CASE LockSnapshot \/ LockFails \/ CommitPersist
      BY <2>1, <3>2 DEF LockSnapshot, LockFails, CommitPersist
    <3>3. CASE RecvCommit
      BY <3>3 DEF RecvCommit, CommitAnswered, CommitWipes
    <3>4. CASE RecvAbort
      BY <3>4 DEF RecvAbort, AbortAnswered, AbortUnlocks, AbortMatches
    <3>5. CASE AdminUnlock \/ CrashA \/ BootA
      BY <3>5 DEF AdminUnlock, CrashA, BootA
    <3> QED BY <2>3, <3>1, <3>2, <3>3, <3>4, <3>5 DEF NextA
  <2>4. CASE NextB
    BY <2>4 DEF NextB, StartImport, CallLost, FetchManifest, Download, Backup,
                PrepareFails, CloneTables, Reload, EnterConnecting,
                AccountLogsIn, HandleConnected, WaitConnected, CommitStart, CommitRetry,
                CommitDone, CommitRefused, Rollback, RollbackStop,
                RollbackKeepsClone, RollbackRestores, RollbackFails, AbortRetry,
                AbortEnds, FinishAborted, CrashB, BootB
  <2> QED BY <2>2, <2>3, <2>4 DEF Next
<1> QED BY <1>1, GoldenInvariant, PTL DEF TombstoneForever, Spec

-----------------------------------------------------------------------------
(* The custody of the keys (KeyCustody), for any failed write of the        *)
(* migration state but the two that rollback relies on (unwritten).  The    *)
(* invariant above says when A is frozen; the parts added here say at which *)
(* point of a migration each server may be.                                 *)

\* Jobs that run with the clone in place.
AfterImport == {"reload", "connect", "wait", "commitStart", "commit"}

\* runImport, resumeJobs and rollback: which phase is on disk at every step of
\* the job, and that no job is left once the migration is over.
PhaseFollowsJob ==
  /\ bJob \in {"reload", "connect"} => bPhase = "imported"
  /\ bJob = "wait" => bPhase \in {"imported", "connecting"}
  /\ bJob = "commitStart" => bPhase \in {"imported", "connecting", "committing", "rolling_back"}
  /\ bJob = "commit" => bPhase \in {"imported", "connecting", "committing"}
  /\ bJob = "rollback" => bPhase \in {"imported", "connecting", "rolling_back"}
  /\ bJob \in {"rbStop", "rbCheck"} => bPhase = "rolling_back"
  /\ bJob \in {"abort", "finishOk", "finishErr"} => bPhase \in {"preparing", "rolling_back"}
  /\ ~targetBusy(bPhase) => bJob = "none"
  /\ bJob \in AfterImport => bData = "clone"

\* commitLoop: a commit that was ever sent is that of the migration B is in or
\* ended with, and B never gives the clone up afterwards.
CommitsFinal ==
  \A m \in net : m.type = "commit" =>
    /\ bPhase \in {"imported", "connecting", "committing", "done", "failed"}
    /\ bJob \in {"none", "commitStart", "commit"}
    /\ bData = "clone"
    /\ m.id = bId /\ m.snap = bSnap

\* commitSource: only a commit of B makes A erase its keys.
WipedByCommit == ~aKeys => \E m \in net : m.type = "commit"

\* The snapshot that B has, or has been told of, is the last one that A took.
SameSnapshot ==
  /\ aSnap \in {0, locks}
  /\ ~forced => /\ bJob = "lock" /\ bReply = "ok" => rSnap = aSnap
                /\ bJob \in {"download", "import", "clone"} \/ bData = "clone"
                     => bSnap = aSnap

\* A refuses the commit only after an unlock by hand.
RefusalForced ==
  /\ bJob = "commit" /\ bReply = "conflict" => forced
  /\ CommitNeverRefused

\* The clients run with the keys of their server; rollback looks at
\* connectedOnce after the clients of the clone have stopped.
ClientsHaveKeys ==
  /\ aRun => aKeys
  /\ bJob = "rbCheck" => ~bRun

CustodyParts ==
  /\ PhaseFollowsJob /\ PhaseTellsData
  /\ CommitsFinal /\ WipedByCommit /\ SameSnapshot /\ RefusalForced
  /\ ClientsHaveKeys

CustodyInv == ~unwritten => CustodyParts

\* The decision that rollback (migration_target.go:775) could not write down
\* stays in the history.
LEMMA UnwrittenStays == [Next]_vars /\ unwritten => unwritten'
<1> SUFFICES ASSUME [Next]_vars, unwritten PROVE unwritten'
  OBVIOUS
<1> USE DEF hist, past, others, Forget
<1>1. CASE UNCHANGED vars
  BY <1>1 DEF vars
<1>2. CASE NextA
  BY <1>2 DEF NextA, RecvLock, LockSnapshot, LockFails, RecvCommit, CommitPersist,
              RecvAbort, AdminUnlock, CrashA, BootA
<1>3. CASE NextB
  BY <1>3 DEF NextB, StartImport, CallLost, FetchManifest, Download, Backup,
              PrepareFails, FailBeforeImport, CloneTables, Reload, EnterConnecting,
              AccountLogsIn, HandleConnected, WaitConnected, CommitStart, CommitRetry, CommitDone,
              CommitRefused, Rollback, RollbackStop, RollbackKeepsClone,
              RollbackRestores, RollbackFails, AbortRetry, AbortEnds, FinishAborted,
              CrashB, BootB
<1> QED BY <1>1, <1>2, <1>3 DEF Next

\* Unless rollback forgets, every handler of A (migration_source.go) and every
\* step of B's job (migration_target.go) leaves the phase, the database and
\* the requests of one migration in agreement.
LEMMA CustodyStep == GoldenInv /\ CustodyInv /\ [Next]_vars => CustodyInv'
<1> SUFFICES ASSUME GoldenInv, CustodyParts, [Next]_vars, ~unwritten, ~unwritten'
             PROVE CustodyParts'
  BY UnwrittenStays DEF CustodyInv
<1> TypeData /\ TypeData' /\ IdKnown
  BY DataStep DEF GoldenInv, DataInv
<1> USE DEF GoldenInv, GoldenParts, DataFollowsJob, OperationLocked, Frozen,
            Live, Holding, Preparing, CustodyParts, AfterImport, PhaseFollowsJob,
            PhaseTellsData, CommitsFinal, WipedByCommit, SameSnapshot, RefusalForced,
            CommitNeverRefused, ClientsHaveKeys, targetBusy,
            aVars, aState, bVars, bState, bDisk, bProc, logins, netVars, hist, past, others, Forget
<1>1. CASE UNCHANGED vars
  BY <1>1 DEF vars
<1>2. CASE NextA
  <2>1. CASE RecvLock
    <3>1. PICK m \in net : m.type = "lock" /\ (LockAccepted(m.id) \/ LockAnswered(m.id))
      BY <2>1 DEF RecvLock
    <3>2. aOp = "none" /\ UNCHANGED <<bVars, crashes, forced, bUsed, lostOnce, late, unwritten, faults>>
      BY <2>1 DEF RecvLock
    <3>3. CASE LockAccepted(m.id)
      BY <3>2, <3>3 DEF LockAccepted, blocksSource
    <3>4. CASE LockAnswered(m.id)
      BY <3>2, <3>4 DEF LockAnswered, Answer
    <3> QED BY <3>1, <3>3, <3>4
  <2>2. CASE LockSnapshot
    BY <2>2 DEF LockSnapshot, Answer
  <2>3. CASE LockFails
    BY <2>3 DEF LockFails, UnlockSource, Answer
  <2>4. CASE RecvCommit
    <3>1. PICK m \in net : m.type = "commit" /\ (CommitAnswered(m) \/ CommitWipes(m))
      BY <2>4 DEF RecvCommit
    <3>2. aOp = "none" /\ UNCHANGED <<bVars, hist, faults>>
      BY <2>4 DEF RecvCommit
    <3>3. CASE CommitAnswered(m)
      BY <3>1, <3>2, <3>3 DEF CommitAnswered, CommitMatches, Answer
    <3>4. CASE CommitWipes(m)
      BY <3>1, <3>2, <3>4 DEF CommitWipes
    <3> QED BY <3>1, <3>3, <3>4
  <2>5. CASE CommitPersist
    BY <2>5 DEF CommitPersist, Answer
  <2>6. CASE RecvAbort
    <3>1. PICK m \in net : AbortAnswered(m.id) \/ AbortUnlocks(m.id)
      BY <2>6 DEF RecvAbort
    <3>2. UNCHANGED <<bVars, hist>>
      BY <2>6 DEF RecvAbort
    <3>3. CASE AbortAnswered(m.id)
      BY <3>2, <3>3 DEF AbortAnswered, Answer
    <3>4. CASE AbortUnlocks(m.id)
      BY <3>2, <3>4 DEF AbortUnlocks, UnlockSource, Answer
    <3> QED BY <3>1, <3>3, <3>4
  <2>7. CASE AdminUnlock
    BY <2>7 DEF AdminUnlock, UnlockSource, UnlockIsSafe
  <2>8. CASE CrashA
    BY <2>8 DEF CrashA
  <2>9. CASE BootA
    BY <2>9 DEF BootA
  <2> QED BY <1>2, <2>1, <2>2, <2>3, <2>4, <2>5, <2>6, <2>7, <2>8, <2>9 DEF NextA
<1>3. CASE NextB
  <2>1. ASSUME NEW id \in Ids, StartImport(id) PROVE CustodyParts'
    BY <2>1 DEF StartImport, Send
  <2>2. CASE CallLost
    BY <2>2 DEF CallLost
  <2>3. CASE FetchManifest
    BY <2>3 DEF FetchManifest
  <2>4. CASE Download
    BY <2>4 DEF Download
  <2>5. CASE Backup
    BY <2>5 DEF Backup
  <2>6. CASE PrepareFails
    BY <2>6 DEF PrepareFails, FailBeforeImport, Send
  <2>7. CASE CloneTables
    BY <2>7 DEF CloneTables
  <2>8. CASE Reload
    BY <2>8 DEF Reload
  <2>9. CASE EnterConnecting
    BY <2>9 DEF EnterConnecting, Persist
  <2>10. CASE AccountLogsIn \/ HandleConnected
    BY <2>10 DEF AccountLogsIn, HandleConnected
  <2>11. CASE WaitConnected
    BY <2>11 DEF WaitConnected, EverConnected
  <2>12. CASE CommitStart
    <3>1. bPhase' # "rolling_back"
      BY <2>12, Zenon DEF CommitStart
    <3> QED BY <2>12, <3>1 DEF CommitStart, Persist, Send
  <2>13. CASE CommitRetry
    BY <2>13 DEF CommitRetry, Send
  <2>14. CASE CommitDone
    BY <2>14 DEF CommitDone, Persist
  <2>15. CASE CommitRefused
    BY <2>15 DEF CommitRefused, Persist
  <2>16. CASE Rollback
    BY <2>16 DEF Rollback, Persist
  <2>17. CASE RollbackStop
    BY <2>17 DEF RollbackStop
  <2>18. CASE RollbackKeepsClone
    BY <2>18 DEF RollbackKeepsClone, EverConnected
  <2>19. CASE RollbackRestores
    BY <2>19 DEF RollbackRestores, EverConnected, Send
  <2>20. CASE RollbackFails
    BY <2>20 DEF RollbackFails
  <2>21. CASE AbortRetry
    BY <2>21 DEF AbortRetry, Send
  <2>22. CASE AbortEnds
    BY <2>22 DEF AbortEnds
  <2>23. CASE FinishAborted
    BY <2>23 DEF FinishAborted, Persist
  <2>24. CASE CrashB
    BY <2>24 DEF CrashB
  <2>25. CASE BootB
    BY <2>25 DEF BootB, resumeJob, blocksTarget, Send
  <2> QED BY <1>3, <2>1, <2>2, <2>3, <2>4, <2>5, <2>6, <2>7, <2>8, <2>9, <2>10, <2>11,
             <2>12, <2>13, <2>14, <2>15, <2>16, <2>17, <2>18, <2>19, <2>20, <2>21,
             <2>22, <2>23, <2>24, <2>25 DEF NextB
<1> QED BY <1>1, <1>2, <1>3 DEF Next

\* The parts hold of every state that is reached before rollback forgets, from
\* the two servers that newMigrator starts.
LEMMA CustodyInvariant == Spec => []CustodyInv
<1>1. Init => CustodyParts
  BY DEF Init, CustodyParts, AfterImport, PhaseFollowsJob, PhaseTellsData, CommitsFinal,
         WipedByCommit, SameSnapshot, RefusalForced, CommitNeverRefused,
         ClientsHaveKeys, targetBusy
<1>2. Init => CustodyInv
  BY <1>1 DEF CustodyInv
<1> QED BY <1>2, GoldenInvariant, CustodyStep, PTL DEF Spec

\* wipeLocalKeys (migration_source.go) and restoreBackup (migration_target.go)
\* never together erase the keys everywhere: A erases them for a commit only,
\* and B gives the clone up only while it has not sent one.
THEOREM KeysAreNeverLost == Spec => []KeysNeverLost
<1>1. CustodyInv => KeysNeverLost
  BY DEF CustodyInv, CustodyParts, CommitsFinal, WipedByCommit, KeysNeverLost
<1> QED BY <1>1, CustodyInvariant, PTL

\* What boot and resumeJobs (migration_target.go:920) read from the phase is
\* true of the database.
THEOREM PhaseIsTrue == Spec => []PhaseTellsData
<1>1. CustodyInv => PhaseTellsData
  BY DEF CustodyInv, CustodyParts, PhaseTellsData
<1> QED BY <1>1, CustodyInvariant, PTL

\* commitLoop (migration_target.go) ends in failed only if A was unlocked by
\* hand against B's word.
THEOREM CommitIsNeverRefused == Spec => []CommitNeverRefused
<1>1. CustodyInv => CommitNeverRefused
  BY DEF CustodyInv, CustodyParts, RefusalForced, CommitNeverRefused
<1> QED BY <1>1, CustodyInvariant, PTL

\* A login of the clone is on its way to connectedOnce, or there, which keeps
\* rollback from bringing the backup back; only a crash in rolling_back loses
\* it, or a rollback that looks before it has arrived.
UsedKept ==
  bUsed /\ ~lostOnce /\ ~late =>
    /\ bData = "clone"
    /\ bLogin \/ bOnce \/ (bJob \in {"none", "commitStart", "commit"} /\ bPhase # "rolling_back")

\* No step of B's job gives up a clone that was used, or forgets that it was.
LEMMA UsedStep == GoldenInv /\ UsedKept /\ [Next]_vars => UsedKept'
<1> SUFFICES ASSUME GoldenInv, UsedKept, [Next]_vars PROVE UsedKept'
  OBVIOUS
<1> USE DEF UsedKept, GoldenInv, GoldenParts, DataFollowsJob, Preparing,
            bVars, bState, bDisk, bProc, logins, hist, past, others, Forget
<1>1. CASE UNCHANGED vars
  BY <1>1 DEF vars
<1>2. CASE NextA
  BY <1>2 DEF NextA, RecvLock, LockSnapshot, LockFails, RecvCommit, CommitPersist,
              RecvAbort, AdminUnlock, CrashA, BootA
<1>3. CASE NextB
  <2>1. ASSUME NEW id \in Ids, StartImport(id) PROVE UsedKept'
    BY <2>1 DEF StartImport
  <2>2. CASE CallLost \/ FetchManifest \/ Download \/ Backup \/ PrepareFails \/ CloneTables
    BY <2>2 DEF CallLost, FetchManifest, Download, Backup, PrepareFails, FailBeforeImport,
                CloneTables
  <2>3. CASE Reload \/ EnterConnecting \/ AccountLogsIn \/ HandleConnected \/ WaitConnected
    BY <2>3 DEF Reload, EnterConnecting, AccountLogsIn, HandleConnected, WaitConnected,
                EverConnected, Persist
  <2>4. CASE CommitStart \/ CommitRetry \/ CommitDone \/ CommitRefused
    BY <2>4 DEF CommitStart, CommitRetry, CommitDone, CommitRefused, Persist
  <2>5. CASE Rollback \/ RollbackStop \/ RollbackKeepsClone \/ RollbackRestores \/ RollbackFails
    BY <2>5 DEF Rollback, RollbackStop, RollbackKeepsClone, RollbackRestores, RollbackFails,
                EverConnected, Persist
  <2>6. CASE AbortRetry \/ AbortEnds \/ FinishAborted
    BY <2>6 DEF AbortRetry, AbortEnds, FinishAborted, Persist
  <2>7. CASE CrashB
    BY <2>7 DEF CrashB
  <2>8. CASE BootB
    BY <2>8 DEF BootB, resumeJob, blocksTarget
  <2> QED BY <1>3, <2>1, <2>2, <2>3, <2>4, <2>5, <2>6, <2>7, <2>8 DEF NextB
<1> QED BY <1>1, <1>2, <1>3 DEF Next

\* rollback (migration_target.go:788) hands the keys back to A after they were
\* used on B only where it looked before the login was noted, or a crash in
\* rolling_back lost connectedOnce, whatever write fails: else a used clone
\* stays, and while it stays A is frozen (GoldenInv).
THEOREM SeenLoginsKeepClone == Spec => []SeenLoginKeepsClone
<1>1. Init => UsedKept
  BY DEF Init, UsedKept
<1>2. GoldenInv /\ UsedKept => SeenLoginKeepsClone
  BY DEF GoldenInv, GoldenParts, Frozen, Live, Holding, UsedKept, SeenLoginKeepsClone
<1> QED BY <1>1, <1>2, UsedStep, GoldenInvariant, PTL DEF Spec

-----------------------------------------------------------------------------
(* Steps. *)

\* The only step in which the keys of A go is a commit that matches
\* (commitSource).
LEMMA WipeStep ==
  [Next]_vars /\ aKeys /\ ~aKeys' => \E m \in net : m.type = "commit" /\ CommitWipes(m)
<1> SUFFICES ASSUME [Next]_vars, aKeys, ~aKeys'
             PROVE \E m \in net : m.type = "commit" /\ CommitWipes(m)
  OBVIOUS
<1> USE DEF aVars, aState, bVars
<1>1. CASE UNCHANGED vars
  BY <1>1 DEF vars
<1>2. CASE NextA
  <2>1. CASE RecvCommit
    BY <2>1 DEF RecvCommit, CommitAnswered
  <2>2. CASE RecvLock
    BY <2>2 DEF RecvLock, LockAccepted, LockAnswered
  <2>3. CASE RecvAbort
    BY <2>3 DEF RecvAbort, AbortAnswered, AbortUnlocks, UnlockSource
  <2>4. CASE LockSnapshot \/ LockFails \/ CommitPersist \/ AdminUnlock \/ CrashA \/ BootA
    BY <2>4 DEF LockSnapshot, LockFails, CommitPersist, AdminUnlock, UnlockSource,
                CrashA, BootA
  <2> QED BY <1>2, <2>1, <2>2, <2>3, <2>4 DEF NextA
<1>3. CASE NextB
  BY <1>3 DEF NextB, StartImport, CallLost, FetchManifest, Download, Backup,
              PrepareFails, CloneTables, Reload, EnterConnecting, AccountLogsIn,
              HandleConnected, WaitConnected, CommitStart, CommitRetry, CommitDone, CommitRefused,
              Rollback, RollbackStop, RollbackKeepsClone, RollbackRestores,
              RollbackFails, AbortRetry, AbortEnds, FinishAborted, CrashB, BootB
<1> QED BY <1>1, <1>2, <1>3 DEF Next

\* commitSource erases only what B holds, even after an unlock by hand: the
\* sha256 that it compares is that of the clone and of A's last snapshot.
THEOREM WipesOnlyCloned == Spec => WipeOnlyCloned
<1>1. GoldenInv /\ CustodyInv /\ [Next]_vars
        => [aKeys /\ ~aKeys'
              => unwritten \/ (bData = "clone" /\ bSnap = aSnap /\ aSnap = locks)]_vars
  <2> SUFFICES ASSUME GoldenInv, CustodyInv, [Next]_vars, aKeys, ~aKeys'
               PROVE unwritten \/ (bData = "clone" /\ bSnap = aSnap /\ aSnap = locks)
    OBVIOUS
  <2>1. CASE unwritten
    BY <2>1
  <2>2. CASE ~unwritten
    <3>1. PICK m \in net : m.type = "commit" /\ CommitMatches(m)
      BY WipeStep DEF CommitWipes
    <3> QED BY <2>2, <3>1 DEF CommitMatches, CustodyInv, CustodyParts, CommitsFinal,
                              SameSnapshot
  <2> QED BY <2>1, <2>2
<1> QED BY <1>1, GoldenInvariant, CustodyInvariant, PTL DEF WipeOnlyCloned, Spec

-----------------------------------------------------------------------------
(***************************************************************************)
(* The refinement of KeyCustody: each handler of A and each step of B's    *)
(* job is one step of the custody, or none.                                *)
(***************************************************************************)

\* A step that moves neither keys nor clients (most handlers of migration.go)
\* is a stutter of the custody.
LEMMA NothingMoves ==
  ASSUME UNCHANGED <<aKeys, aRun, bData, bRun, forced>>
  PROVE  UNCHANGED Custody!vars
BY DEF Custody!vars

\* lockSource, rollback or a crash: clients stop, and no key moves.
LEMMA ClientsStop ==
  ASSUME UNCHANGED <<aKeys, bData, forced>>, aRun' => aRun, bRun' => bRun
  PROVE  Custody!Stop
BY DEF Custody!Stop

\* unlockSourceLocked and boot of A: the clients start where no clone is, or
\* stay down.
LEMMA OriginStarts ==
  ASSUME UNCHANGED <<aKeys, bData, bRun, forced>>,
         aRun' => aKeys /\ (forced \/ (~bRun /\ bData # "clone"))
  PROVE  Custody!Next
<1>1. CASE aRun'
  <2>1. Custody!Start("A")
    BY <1>1 DEF Custody!Start
  <2> QED BY <2>1 DEF Custody!Next, Custody!Server
<1>2. CASE ~aRun'
  BY <1>2, ClientsStop DEF Custody!Next
<1> QED BY <1>1, <1>2

\* reload, rollback and boot of B: the clients of the clone start beside a
\* frozen origin, or stay down.
LEMMA TargetStarts ==
  ASSUME UNCHANGED <<aKeys, bData, aRun, forced>>,
         bRun' => bData = "clone" /\ (forced \/ ~aRun)
  PROVE  Custody!Next
<1>1. CASE bRun'
  <2>1. Custody!Start("B")
    BY <1>1 DEF Custody!Start
  <2> QED BY <2>1 DEF Custody!Next, Custody!Server
<1>2. CASE ~bRun'
  BY <1>2, ClientsStop DEF Custody!Next
<1> QED BY <1>1, <1>2

\* cloneTables copies the keys of a frozen origin.
LEMMA CopyComes ==
  ASSUME UNCHANGED <<aKeys, aRun, bRun, forced>>, bData' = "clone",
         forced \/ (~aRun /\ ~bRun)
  PROVE  Custody!Copy
BY DEF Custody!Copy

\* restoreBackup drops the clone, whose clients are down, while A has the keys.
LEMMA CopyGoes ==
  ASSUME UNCHANGED <<aKeys, aRun, forced>>, bData' # "clone", ~bRun, ~bRun', aKeys
  PROVE  Custody!DropCopy
BY DEF Custody!DropCopy

\* wipeLocalKeys erases the keys of A while B has them.
LEMMA KeysGo ==
  ASSUME UNCHANGED <<bData, bRun, forced>>, bData = "clone", ~aKeys', ~aRun'
  PROVE  Custody!Wipe
BY DEF Custody!Wipe

\* The unlock by hand against B's word.
LEMMA OriginForced ==
  ASSUME UNCHANGED <<aKeys, bData, bRun>>, forced', forced' \in BOOLEAN,
         aRun => aKeys, aRun' <=> aKeys
  PROVE  Custody!Force
BY DEF Custody!Force

\* What the refinement needs of a state: the invariants, and Boolean flags.
RefinementInv == TypeFlags /\ GoldenInv /\ CustodyParts

\* The steps of A.
LEMMA OriginRefines ==
  RefinementInv /\ NextA => [Custody!Next]_(Custody!vars)
<1> SUFFICES ASSUME RefinementInv, NextA PROVE Custody!Next \/ UNCHANGED Custody!vars
  OBVIOUS
<1> USE DEF RefinementInv, aVars, aState, bVars, bDisk, bProc, logins, hist, past, others, Forget
<1>1. forced \/ ~(bRun /\ aRun)
  BY DEF GoldenInv, GoldenParts, DataFollowsJob, Frozen, Live, Holding
<1>2. bRun => bData = "clone"
  BY DEF GoldenInv, GoldenParts, DataFollowsJob
<1>3. aRun => aKeys
  BY DEF CustodyParts, ClientsHaveKeys
<1>4. CASE RecvLock
  <2>1. UNCHANGED <<aKeys, aRun, bData, bRun, forced>>
    BY <1>4 DEF RecvLock, LockAccepted, LockAnswered
  <2> QED BY <2>1, NothingMoves
<1>5. CASE LockSnapshot
  <2>1. UNCHANGED <<aKeys, bData, bRun, forced>> /\ ~aRun'
    BY <1>5 DEF LockSnapshot
  <2>2. Custody!Stop
    BY <2>1, ClientsStop
  <2> QED BY <2>2 DEF Custody!Next
<1>6. CASE LockFails
  <2>1. UNCHANGED <<aKeys, bData, bRun, forced>> /\ (aRun' <=> aKeys)
    BY <1>6 DEF LockFails, UnlockSource
  <2>2. forced \/ bData # "clone"
    BY <1>6 DEF LockFails, GoldenInv, GoldenParts, Frozen, Holding
  <2> QED BY <1>2, <2>1, <2>2, OriginStarts
<1>7. CASE RecvCommit
  <2>1. PICK m \in net : m.type = "commit" /\ (CommitAnswered(m) \/ CommitWipes(m))
    BY <1>7 DEF RecvCommit
  <2>2. UNCHANGED <<bData, bRun, forced>>
    BY <1>7 DEF RecvCommit
  <2>3. CASE CommitAnswered(m)
    BY <2>2, <2>3, NothingMoves DEF CommitAnswered
  <2>4. CASE CommitWipes(m)
    <3>1. bData = "clone"
      BY <2>1 DEF CustodyParts, CommitsFinal
    <3>2. ~aKeys' /\ ~aRun'
      BY <2>4 DEF CommitWipes
    <3>3. Custody!Wipe
      BY <2>2, <3>1, <3>2, KeysGo
    <3> QED BY <3>3 DEF Custody!Next
  <2> QED BY <2>1, <2>3, <2>4
<1>8. CASE CommitPersist
  <2>1. UNCHANGED <<aKeys, aRun, bData, bRun, forced>>
    BY <1>8 DEF CommitPersist
  <2> QED BY <2>1, NothingMoves
<1>9. CASE RecvAbort
  <2>1. PICK m \in net : /\ m.type = "abort"
                         /\ AbortAnswered(m.id) \/ AbortUnlocks(m.id)
    BY <1>9 DEF RecvAbort
  <2>2. UNCHANGED <<bData, bRun, forced>>
    BY <1>9 DEF RecvAbort
  <2>3. CASE AbortAnswered(m.id)
    BY <2>2, <2>3, NothingMoves DEF AbortAnswered
  <2>4. CASE AbortUnlocks(m.id)
    <3>1. UNCHANGED aKeys /\ (aRun' <=> aKeys)
      BY <2>4 DEF AbortUnlocks, UnlockSource
    <3>2. forced \/ bData # "clone"
      BY <2>1, <2>4 DEF AbortUnlocks, AbortMatches, GoldenInv, GoldenParts, RequestsTrace,
                        Frozen, Live, Holding
    <3> QED BY <1>2, <2>2, <3>1, <3>2, OriginStarts
  <2> QED BY <2>1, <2>3, <2>4
<1>10. CASE AdminUnlock
  <2>1. UNCHANGED <<aKeys, bData, bRun>> /\ (aRun' <=> aKeys)
    BY <1>10 DEF AdminUnlock, UnlockSource
  <2>2. CASE UnlockIsSafe
    <3>1. UNCHANGED forced
      BY <1>10, <2>2, Zenon DEF AdminUnlock, TypeFlags
    <3>2. bData # "clone"
      BY <2>2 DEF UnlockIsSafe, GoldenInv, GoldenParts, DataFollowsJob
    <3> QED BY <1>2, <2>1, <3>1, <3>2, OriginStarts
  <2>3. CASE ~UnlockIsSafe
    <3>1. forced' /\ forced' \in BOOLEAN
      BY <1>10, <2>3, Zenon DEF AdminUnlock
    <3>2. Custody!Force
      BY <1>3, <2>1, <3>1, OriginForced
    <3> QED BY <3>2 DEF Custody!Next
  <2> QED BY <2>2, <2>3
<1>11. CASE CrashA
  <2>1. UNCHANGED <<aKeys, bData, bRun, forced>> /\ ~aRun'
    BY <1>11 DEF CrashA
  <2>2. Custody!Stop
    BY <2>1, ClientsStop
  <2> QED BY <2>2 DEF Custody!Next
<1>12. CASE BootA
  <2>1. UNCHANGED <<aKeys, bData, bRun, forced>>
    BY <1>12 DEF BootA
  <2>2. aRun' => aKeys /\ ~blocksSource(aPhase)
    BY <1>12 DEF BootA
  <2>3. ~blocksSource(aPhase) => forced \/ bData # "clone"
    BY DEF blocksSource, GoldenInv, GoldenParts, Frozen, Holding
  <2> QED BY <1>2, <2>1, <2>2, <2>3, OriginStarts
<1> QED BY <1>4, <1>5, <1>6, <1>7, <1>8, <1>9, <1>10, <1>11, <1>12 DEF NextA

\* The steps of B.
LEMMA TargetRefines ==
  RefinementInv /\ NextB => [Custody!Next]_(Custody!vars)
<1> SUFFICES ASSUME RefinementInv, NextB PROVE Custody!Next \/ UNCHANGED Custody!vars
  OBVIOUS
<1> USE DEF RefinementInv, aVars, aState, bVars, bState, bDisk, bProc, logins, hist, past, others, Forget
<1>1. bData = "clone" => forced \/ ~aRun
  BY DEF GoldenInv, GoldenParts, Frozen, Live, Holding
<1>2. CASE UNCHANGED <<aKeys, aRun, bData, bRun, forced>>
  BY <1>2, NothingMoves
<1>3. CASE CloneTables
  <2>1. UNCHANGED <<aKeys, aRun, bRun, forced>> /\ bData' = "clone"
    BY <1>3 DEF CloneTables
  <2>2. forced \/ (~aRun /\ ~bRun)
    BY <1>3 DEF CloneTables, GoldenInv, GoldenParts, DataFollowsJob, Frozen, Live, Holding,
                Preparing
  <2>3. Custody!Copy
    BY <2>1, <2>2, CopyComes
  <2> QED BY <2>3 DEF Custody!Next
<1>4. CASE Reload \/ RollbackKeepsClone
  <2>1. UNCHANGED <<aKeys, aRun, bData, forced>>
    BY <1>4 DEF Reload, RollbackKeepsClone
  <2>2. bData = "clone"
    BY <1>4 DEF Reload, RollbackKeepsClone, EverConnected, GoldenInv, GoldenParts,
                DataFollowsJob
  <2> QED BY <1>1, <2>1, <2>2, TargetStarts
<1>5. CASE RollbackStop \/ CrashB
  <2>1. UNCHANGED <<aKeys, aRun, bData, forced>> /\ ~bRun'
    BY <1>5 DEF RollbackStop, CrashB
  <2>2. Custody!Stop
    BY <2>1, ClientsStop
  <2> QED BY <2>2 DEF Custody!Next
<1>6. CASE RollbackRestores
  <2>1. UNCHANGED <<aKeys, aRun, forced>> /\ bData' # "clone" /\ ~bRun'
    BY <1>6 DEF RollbackRestores
  <2>2. ~bRun
    BY <1>6 DEF RollbackRestores, CustodyParts, ClientsHaveKeys
  <2>3. aKeys
    BY <1>6 DEF RollbackRestores, CustodyParts, PhaseFollowsJob, CommitsFinal, WipedByCommit
  <2>4. Custody!DropCopy
    BY <2>1, <2>2, <2>3, CopyGoes
  <2> QED BY <2>4 DEF Custody!Next
<1>7. CASE BootB
  <2>1. UNCHANGED <<aKeys, aRun, bData, forced>> /\ (bRun' => bData = "clone")
    BY <1>7 DEF BootB
  <2> QED BY <1>1, <2>1, TargetStarts
<1>8. NextB => \/ UNCHANGED <<aKeys, aRun, bData, bRun, forced>>
               \/ CloneTables \/ Reload \/ RollbackKeepsClone \/ RollbackStop
               \/ RollbackRestores \/ CrashB \/ BootB
  BY DEF NextB, StartImport, CallLost, FetchManifest, Download, Backup, PrepareFails,
         FailBeforeImport, EnterConnecting, AccountLogsIn, HandleConnected, WaitConnected,
         CommitStart, CommitRetry, CommitDone, CommitRefused, Rollback,
         RollbackFails, AbortRetry, AbortEnds, FinishAborted
<1> QED BY <1>2, <1>3, <1>4, <1>5, <1>6, <1>7, <1>8

\* The migration keeps the custody of the keys: they run on one server at a
\* time, are copied from a frozen origin, and are erased only where the other
\* server has them (the golden rule of migration.go, as a refinement).
THEOREM KeepsCustody == Spec /\ []~unwritten => CustodySpec
<1>1. Init => Custody!Init
  BY DEF Init, Custody!Init
<1>2. RefinementInv /\ [Next]_vars => [Custody!Next]_(Custody!vars)
  <2>1. UNCHANGED vars => UNCHANGED Custody!vars
    BY NothingMoves DEF vars
  <2> QED BY <2>1, OriginRefines, TargetRefines DEF Next
<1>3. Init => TypeFlags
  BY Zenon DEF Init, TypeFlags
<1>4. TypeFlags /\ GoldenInv /\ CustodyInv /\ ~unwritten => RefinementInv
  BY DEF RefinementInv, CustodyInv
<1> QED BY <1>1, <1>2, <1>3, <1>4, FlagsStep, GoldenInvariant, CustodyInvariant, PTL
        DEF Spec, CustodySpec, Custody!Spec

=============================================================================
