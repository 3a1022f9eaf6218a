------------------------------ MODULE Migration ------------------------------
(***************************************************************************)
(* The migration of an instance from an origin server A to a destination   *)
(* server B: cmd/server/migration.go, migration_source.go and              *)
(* migration_target.go.                                                    *)
(*                                                                         *)
(* B drives: it asks A to lock, downloads the snapshot, imports it in one  *)
(* transaction, waits for the accounts to connect and then commits (A      *)
(* erases its keys), or rolls back to its own backup and aborts (A         *)
(* unlocks).  B's job is a goroutine whose control point is bJob; a call   *)
(* to A is a request added to net, and the call returns when bReply is not *)
(* "none".  A request may be delivered late, several times or never; both  *)
(* servers may crash between any two steps and reboot from what they       *)
(* persisted; a write of the migration state may fail.                     *)
(*                                                                         *)
(* The database of A is represented by whether it still holds the WhatsApp *)
(* keys (aKeys), that of B by which content it has (bData), a snapshot by  *)
(* its number (its sha256).  The accounts are represented by one: it is    *)
(* used from B by AccountLogsIn, which B's process learns later.           *)
(***************************************************************************)
EXTENDS Naturals

CONSTANTS
  Ids,         \* migration ids; newMigrationID draws a fresh one every time
  NoId,
  MaxLocks,    \* bound: locks A accepts
  MaxCrashes,  \* bound: crashes of the two servers together
  MaxFaults,   \* bound: writes of the migration state that fail
  AbortTries,  \* attempts of abortWithRetry (6 in the code)
  AdminForce,  \* whether the administrator may unlock A while B may have the keys
  Duplicates   \* whether the network may deliver a lock request again

ASSUME IdsAssumption == NoId \notin Ids
ASSUME BoundsAssumption ==
  /\ MaxLocks \in Nat /\ MaxCrashes \in Nat /\ MaxFaults \in Nat
  /\ AbortTries \in Nat \ {0}
ASSUME FlagsAssumption == AdminForce \in BOOLEAN /\ Duplicates \in BOOLEAN

VARIABLES
  \* A: persisted migration state (memory and disk change together, update)
  aPhase, aId, aSnap,
  \* A: keys in the database; process up; blocked flag; clients; operation under opMu
  aKeys, aUp, aBlocked, aRun, aOp,
  \* B: persisted migration state
  bPhase, bError, bId, bSnap,
  \* B: content of the database, backup file before.db
  bData, bBackup,
  \* B: process up, blocked flag, clients of the clone, a login whose Connected
  \* event is not handled yet, connectedOnce, job
  bUp, bBlocked, bRun, bLogin, bOnce, bJob, tries,
  \* requests sent by B, and the answer to the call B is waiting on
  net, bReply, rSnap,
  \* ids whose lock request has been delivered; locks accepted (they number
  \* the snapshots); crashes; failed writes
  seen, locks, crashes, faults,
  \* history: A unlocked by hand against the rules, an account has logged in
  \* from B, a crash lost this fact, rollback looked before it was noted, and a
  \* decision of rollback that could not be written: the phase on disk denies it
  forced, bUsed, lostOnce, late, unwritten

aState == <<aPhase, aId, aSnap>>
aVars == <<aPhase, aId, aSnap, aKeys, aUp, aBlocked, aRun, aOp>>
bState == <<bPhase, bError, bId, bSnap>>
bDisk == <<bData, bBackup>>
logins == <<bLogin, bOnce>>
bProc == <<bUp, bBlocked, bRun, bLogin, bOnce>>
bVars == <<bPhase, bError, bId, bSnap, bData, bBackup, bUp, bBlocked, bRun,
           bLogin, bOnce, bJob, tries>>
netVars == <<net, bReply, rSnap>>
past == <<seen, locks, crashes, forced, bUsed, lostOnce, late>>
others == <<seen, locks, crashes, forced, bUsed, lostOnce, unwritten>>
hist == <<seen, locks, crashes, forced, bUsed, lostOnce, late, unwritten>>
vars == <<aPhase, aId, aSnap, aKeys, aUp, aBlocked, aRun, aOp,
          bPhase, bError, bId, bSnap, bData, bBackup, bUp, bBlocked, bRun,
          bLogin, bOnce, bJob, tries, net, bReply, rSnap,
          seen, locks, crashes, faults, forced, bUsed, lostOnce, late, unwritten>>

APhase == {"none", "locked", "committed", "unlocked"}
BPhase == {"none", "preparing", "imported", "connecting", "committing",
           "rolling_back", "done", "aborted", "failed"}
BJob == {"none", "lock", "download", "import", "clone", "reload", "connect",
         "wait", "commitStart", "commit", "rollback", "rbStop", "rbCheck",
         "abort", "finishOk", "finishErr"}
Requests ==
  [type : {"lock", "abort"}, id : Ids, snap : {0}]
    \union [type : {"commit"}, id : Ids, snap : Nat]

\* Mutant: a restart forgets the lock.
blocksCommittedOnly(phase) == phase = "committed"
\* Phases in which no account of the server may connect (blocksSessions).
blocksSource(phase) == phase \in {"locked", "committed"}
blocksTarget(phase) == phase \in {"preparing", "rolling_back"}

\* B has a job that still has to end: no other import starts (targetBusy).
targetBusy(phase) == phase \notin {"none", "done", "aborted", "failed"}

Init ==
  /\ aPhase = "none" /\ aId = NoId /\ aSnap = 0
  /\ aKeys = TRUE /\ aUp = TRUE /\ aBlocked = FALSE /\ aRun = TRUE /\ aOp = "none"
  /\ bPhase = "none" /\ bError = "none" /\ bId = NoId /\ bSnap = 0
  /\ bData = "own" /\ bBackup = FALSE
  /\ bUp = TRUE /\ bBlocked = FALSE /\ bRun = FALSE
  /\ bLogin = FALSE /\ bOnce = FALSE
  /\ bJob = "none" /\ tries = 0
  /\ net = {} /\ bReply = "none" /\ rSnap = 0
  /\ seen = {} /\ locks = 0 /\ crashes = 0 /\ faults = 0
  /\ forced = FALSE /\ bUsed = FALSE /\ lostOnce = FALSE
  /\ late = FALSE /\ unwritten = FALSE

-----------------------------------------------------------------------------
(* Calls from B to A. *)

\* B issues a request and waits for its answer.
Send(type, id, snap) ==
  /\ net' = net \union {[type |-> type, id |-> id, snap |-> snap]}
  /\ bReply' = "none"
  /\ rSnap' = 0

\* A answers: the answer reaches B if B still waits on this very call.
Answer(type, id, status, snap) ==
  /\ UNCHANGED net
  /\ IF bJob = type /\ bId = id /\ bReply = "none"
       THEN bReply' = status /\ rSnap' = snap
       ELSE UNCHANGED <<bReply, rSnap>>

\* The call ends without an answer of A: time out, connection error, 5xx.
CallLost ==
  /\ bJob \in {"lock", "commit", "abort"}
  /\ bReply = "none"
  /\ bReply' = "error"
  /\ UNCHANGED <<net, rSnap, aVars, bVars, hist, faults>>

-----------------------------------------------------------------------------
(* The origin, A. *)

\* unlockSourceLocked: if the phase cannot be written A runs anyway, and is
\* locked again by its next boot.
UnlockSource ==
  /\ \/ aPhase' = "unlocked" /\ UNCHANGED faults
     \/ faults < MaxFaults /\ faults' = faults + 1 /\ UNCHANGED aPhase
  /\ aBlocked' = FALSE
  /\ aRun' = aKeys
  /\ aOp' = "none"
  /\ UNCHANGED <<aId, aSnap, aKeys, aUp>>

\* lockSource up to the persisted lock.
LockAccepted(id) ==
  /\ ~blocksSource(aPhase)
  /\ locks < MaxLocks
  /\ locks' = locks + 1
  /\ aPhase' = "locked" /\ aId' = id /\ aSnap' = 0
  /\ aBlocked' = TRUE
  /\ aOp' = "lock"
  /\ UNCHANGED <<aKeys, aUp, aRun, netVars>>

\* lockSource, answers that change nothing: the same manifest again, or a
\* conflict (another migration, already migrated, calls or recordings going on).
LockAnswered(id) ==
  /\ IF aPhase = "locked" /\ aId = id /\ aSnap # 0
       THEN Answer("lock", id, "ok", aSnap)
       ELSE Answer("lock", id, "conflict", 0)
  /\ UNCHANGED <<aVars, locks>>

RecvLock ==
  /\ aUp /\ aOp = "none"
  /\ \E m \in net :
       /\ m.type = "lock"
       /\ Duplicates \/ m.id \notin seen
       /\ seen' = seen \union {m.id}
       /\ LockAccepted(m.id) \/ LockAnswered(m.id)
  /\ UNCHANGED <<bVars, crashes, forced, bUsed, lostOnce, late, unwritten, faults>>

\* lockSource from rec.pause on: the clients stop, the snapshot is built and
\* its manifest persisted.
LockSnapshot ==
  /\ aOp = "lock"
  /\ aRun' = FALSE
  /\ aSnap' = locks
  /\ aOp' = "none"
  /\ Answer("lock", aId, "ok", locks)
  /\ UNCHANGED <<aPhase, aId, aKeys, aUp, aBlocked, bVars, hist, faults>>

\* rec.pause times out, or the snapshot or its manifest cannot be written.
LockFails ==
  /\ aOp = "lock"
  /\ UnlockSource
  /\ Answer("lock", aId, "conflict", 0)
  /\ UNCHANGED <<bVars, hist>>

\* Mutant: the sha256 is not compared.
CommitIgnoresSha(m) == aPhase = "locked" /\ aId = m.id /\ aSnap # 0
\* commitSource: this migration is locked here, and its snapshot is the one
\* that B imported.
CommitMatches(m) == aPhase = "locked" /\ aId = m.id /\ aSnap # 0 /\ aSnap = m.snap

\* commitSource refuses, or was done before.
CommitAnswered(m) ==
  /\ ~CommitMatches(m)
  /\ IF aPhase = "committed" /\ aId = m.id
       THEN Answer("commit", m.id, "ok", 0)
       ELSE Answer("commit", m.id, "conflict", 0)
  /\ UNCHANGED aVars

\* commitSource up to the transaction of wipeLocalKeys.
CommitWipes(m) ==
  /\ CommitMatches(m)
  /\ aKeys' = FALSE
  /\ aRun' = FALSE
  /\ aOp' = "commit"
  /\ UNCHANGED <<aPhase, aId, aSnap, aUp, aBlocked, netVars>>

RecvCommit ==
  /\ aUp /\ aOp = "none"
  /\ \E m \in net :
       /\ m.type = "commit"
       /\ CommitAnswered(m) \/ CommitWipes(m)
  /\ UNCHANGED <<bVars, hist, faults>>

\* commitSource persists the tombstone, or answers 500 and stays locked.
CommitPersist ==
  /\ aOp = "commit"
  /\ aOp' = "none"
  /\ \/ /\ aPhase' = "committed"
        /\ Answer("commit", aId, "ok", 0)
        /\ UNCHANGED faults
     \/ /\ faults < MaxFaults
        /\ faults' = faults + 1
        /\ Answer("commit", aId, "error", 0)
        /\ UNCHANGED aPhase
  /\ UNCHANGED <<aId, aSnap, aKeys, aUp, aBlocked, aRun, bVars, hist>>

\* Mutant: whichever migration is locked is aborted.
AbortIgnoresId(id) == aPhase = "locked"
\* abortSource: the migration to abort is the one that locked A.
AbortMatches(id) == aPhase = "locked" /\ aId = id

\* abortSource: a migration that never locked A, or another one, is a no-op.
AbortAnswered(id) ==
  /\ ~AbortMatches(id)
  /\ IF aId = id /\ aPhase = "committed"
       THEN Answer("abort", id, "conflict", 0)
       ELSE Answer("abort", id, "ok", 0)
  /\ UNCHANGED <<aVars, faults>>

AbortUnlocks(id) ==
  /\ AbortMatches(id)
  /\ UnlockSource
  /\ Answer("abort", id, "ok", 0)

RecvAbort ==
  /\ aUp /\ aOp = "none"
  /\ \E m \in net :
       /\ m.type = "abort"
       /\ AbortAnswered(m.id) \/ AbortUnlocks(m.id)
  /\ UNCHANGED <<bVars, hist>>

\* B tells its administrator that it does not have the keys: the origin was
\* unlocked, or did not answer and may be unlocked by hand.
UnlockIsSafe ==
  \/ bPhase = "aborted"
  \/ bPhase = "failed" /\ bError = "unlock"

\* The unlock button of A's panel: the abort route with A's own id.
AdminUnlock ==
  /\ aUp /\ aOp = "none"
  /\ aPhase = "locked"
  /\ UnlockIsSafe \/ AdminForce
  /\ forced' = (forced \/ ~UnlockIsSafe)
  /\ UnlockSource
  /\ UNCHANGED <<bVars, netVars, seen, locks, crashes, bUsed, lostOnce, late, unwritten>>

CrashA ==
  /\ aUp
  /\ crashes < MaxCrashes
  /\ crashes' = crashes + 1
  /\ aUp' = FALSE /\ aBlocked' = FALSE /\ aRun' = FALSE /\ aOp' = "none"
  /\ UNCHANGED <<aState, aKeys, bVars, netVars, seen, locks, forced, bUsed, lostOnce, late,
                 unwritten, faults>>

\* boot, then Restore: the accounts connect unless the phase blocks them.
BootA ==
  /\ ~aUp
  /\ aUp' = TRUE
  /\ aBlocked' = blocksSource(aPhase)
  /\ aRun' = (aKeys /\ ~blocksSource(aPhase))
  /\ UNCHANGED <<aState, aKeys, aOp, bVars, netVars, hist, faults>>

-----------------------------------------------------------------------------
(* The destination, B. *)

\* update: the phase changes in memory and on disk, or in neither.  Every
\* caller on this side ignores the error.
Persist(phase, error) ==
  \/ /\ bPhase' = phase /\ bError' = error
     /\ UNCHANGED faults
  \/ /\ faults < MaxFaults /\ faults' = faults + 1
     /\ UNCHANGED <<bPhase, bError>>

\* startImport and the head of runImport: a fresh id, an empty staging
\* directory, and the lock request.  B may hold no paired account.
StartImport(id) ==
  /\ bUp /\ bJob = "none"
  /\ ~targetBusy(bPhase)
  /\ bData # "clone"
  /\ \A m \in net : m.id # id
  /\ bPhase' = "preparing" /\ bError' = "none" /\ bId' = id /\ bSnap' = 0
  /\ bBackup' = FALSE
  /\ bBlocked' = TRUE
  /\ bJob' = "lock"
  /\ Send("lock", id, 0)
  /\ UNCHANGED <<bData, bUp, bRun, logins, tries, aVars, hist, faults>>

\* failBeforeImport: B is as it was; ask A to unlock.
FailBeforeImport ==
  /\ bBlocked' = FALSE
  /\ bJob' = "abort"
  /\ tries' = 1
  /\ Send("abort", bId, 0)
  /\ UNCHANGED <<bState, bDisk, bUp, bRun, logins>>

\* fetchAndVerify, the lock call answered with a manifest that is persisted.
FetchManifest ==
  /\ bJob = "lock" /\ bReply = "ok"
  /\ bSnap' = rSnap
  /\ bJob' = "download"
  /\ UNCHANGED <<bPhase, bError, bId, bDisk, bProc, tries, aVars, netVars, hist, faults>>

\* Every download succeeds and is what the manifest says (handleMigrationFile
\* serves only the locked migration), and the snapshot passes prepareSnapshot.
Download ==
  /\ bJob = "download"
  /\ aUp /\ aPhase = "locked" /\ aId = bId /\ aSnap = bSnap
  /\ bJob' = "import"
  /\ UNCHANGED <<bState, bDisk, bProc, tries, aVars, netVars, hist, faults>>

\* importClone: the accounts of B are dropped and B's database is backed up.
Backup ==
  /\ bJob = "import"
  /\ bBackup' = TRUE
  /\ bJob' = "clone"
  /\ UNCHANGED <<bState, bData, bProc, tries, aVars, netVars, hist, faults>>

\* Any error up to the transaction of the clone: refused lock, manifest not
\* persisted, download, verification, backup, transaction.
PrepareFails ==
  /\ \/ bJob = "lock" /\ bReply # "none"
     \/ bJob \in {"download", "import", "clone"}
  /\ FailBeforeImport
  /\ UNCHANGED <<aVars, hist, faults>>

\* Mutant: the phase is left to a later write.
CloneWithoutPhase ==
  /\ bJob = "clone"
  /\ bData' = "clone"
  /\ bJob' = "reload"
  /\ UNCHANGED <<bState, bBackup, bProc, tries, aVars, netVars, hist, faults>>
\* cloneTables: the data and the phase imported in one transaction.
CloneTables ==
  /\ bJob = "clone"
  /\ bData' = "clone"
  /\ bPhase' = "imported"
  /\ bJob' = "reload"
  /\ UNCHANGED <<bError, bId, bSnap, bBackup, bProc, tries, aVars, netVars, hist, faults>>

\* The end of importClone: unblock and start the imported accounts.
Reload ==
  /\ bJob = "reload"
  /\ bBlocked' = FALSE
  /\ bRun' = TRUE
  /\ bJob' = "connect"
  /\ UNCHANGED <<bState, bDisk, bUp, logins, tries, aVars, netVars, hist, faults>>

\* afterImport: phase connecting.
EnterConnecting ==
  /\ bJob = "connect"
  /\ Persist("connecting", bError)
  /\ bJob' = "wait"
  /\ UNCHANGED <<bId, bSnap, bDisk, bProc, tries, aVars, netVars, hist>>

\* An account of the clone logs in: its keys are used.  The event is handled
\* later, on a goroutine of whatsmeow's that nothing waits for.
AccountLogsIn ==
  /\ bRun
  /\ ~bLogin /\ ~bOnce
  /\ bLogin' = TRUE
  /\ bUsed' = TRUE
  /\ UNCHANGED <<bState, bDisk, bUp, bBlocked, bRun, bOnce, bJob, tries, aVars, netVars,
                 seen, locks, crashes, forced, lostOnce, late, unwritten, faults>>

\* handleEvent of Connected, even after stopForMigration; a blocked account is
\* disconnected again.
HandleConnected ==
  /\ bLogin
  /\ bLogin' = FALSE
  /\ bOnce' = TRUE
  /\ UNCHANGED <<bState, bDisk, bUp, bBlocked, bRun, bJob, tries, aVars, netVars, hist, faults>>

\* connectedCount, second result: accounts that ever connected in this process.
EverConnected == bOnce

\* waitConnected: connected, or the deadline with no account connected.
WaitConnected ==
  /\ bJob = "wait"
  /\ bJob' = IF EverConnected THEN "commitStart" ELSE "rollback"
  /\ UNCHANGED <<bState, bDisk, bProc, tries, aVars, netVars, hist, faults>>

\* Mutant: the phase is not persisted before the first attempt.
CommitUnpersisted ==
  /\ bJob = "commitStart"
  /\ bJob' = "commit"
  /\ Send("commit", bId, bSnap)
  /\ UNCHANGED <<bState, bDisk, bProc, tries, aVars, hist, faults>>
\* The head of commitLoop: phase committing and the first attempt.
CommitStart ==
  /\ bJob = "commitStart"
  /\ Persist("committing", bError)
  /\ unwritten' = (unwritten \/ bPhase' = "rolling_back")
  /\ bJob' = "commit"
  /\ Send("commit", bId, bSnap)
  /\ UNCHANGED <<bId, bSnap, bDisk, bProc, tries, aVars, past>>

\* Mutant: gives up after an attempt without an answer.
CommitGivesUp ==
  /\ bJob = "commit" /\ bReply = "error"
  /\ bJob' = "none"
  /\ UNCHANGED <<bState, bDisk, bProc, tries, netVars, aVars, hist, faults>>
\* commitLoop without an answer tries again, for ever.
CommitRetry ==
  /\ bJob = "commit" /\ bReply = "error"
  /\ Send("commit", bId, bSnap)
  /\ UNCHANGED <<bVars, aVars, hist, faults>>

\* commitLoop: A confirmed; the staging directory goes.
CommitDone ==
  /\ bJob = "commit" /\ bReply = "ok"
  /\ Persist("done", "none")
  /\ bBackup' = FALSE
  /\ bJob' = "none"
  /\ UNCHANGED <<bId, bSnap, bData, bProc, tries, aVars, netVars, hist>>

\* commitLoop: A refused for good; B goes on running the clone.
CommitRefused ==
  /\ bJob = "commit" /\ bReply = "conflict"
  /\ Persist("failed", "commit")
  /\ bJob' = "none"
  /\ UNCHANGED <<bId, bSnap, bDisk, bProc, tries, aVars, netVars, hist>>

\* The head of rollback: phase rolling_back.
Rollback ==
  /\ bJob = "rollback"
  /\ Persist("rolling_back", "none")
  /\ unwritten' = (unwritten \/ bPhase' # "rolling_back")
  /\ bJob' = "rbStop"
  /\ UNCHANGED <<bId, bSnap, bDisk, bProc, tries, aVars, netVars, past>>

\* rollback: block and stop the accounts.
RollbackStop ==
  /\ bJob = "rbStop"
  /\ bBlocked' = TRUE
  /\ bRun' = FALSE
  /\ bJob' = "rbCheck"
  /\ UNCHANGED <<bState, bDisk, bUp, logins, tries, aVars, netVars, hist, faults>>

\* rollback: an account connected meanwhile, so the clone stays.
RollbackKeepsClone ==
  /\ bJob = "rbCheck" /\ EverConnected
  /\ bBlocked' = FALSE
  /\ bRun' = TRUE
  /\ bJob' = "commitStart"
  /\ UNCHANGED <<bState, bDisk, bUp, logins, tries, aVars, netVars, hist, faults>>

\* dropAll, in restoreBackup: the sessions of the clone are forgotten, and a
\* login that is not handled yet will be noted in one that nobody asks.
Forget ==
  /\ bLogin' = FALSE
  /\ late' = (late \/ bLogin)

\* Mutant: an account that connected meanwhile is not noticed.
RestoreUnchecked ==
  /\ bJob = "rbCheck"
  /\ bData' = IF bBackup THEN "own" ELSE "empty"
  /\ bRun' = FALSE
  /\ Forget
  /\ bJob' = "abort"
  /\ tries' = 1
  /\ Send("abort", bId, 0)
  /\ UNCHANGED <<bState, bBackup, bUp, bBlocked, bOnce, aVars, others, faults>>
\* rollback: the backup comes back (an empty database if the file is gone),
\* and A may be released.  The blocked flag keeps its value.
RollbackRestores ==
  /\ bJob = "rbCheck" /\ ~EverConnected
  /\ bData' = IF bBackup THEN "own" ELSE "empty"
  /\ bRun' = FALSE
  /\ Forget
  /\ bJob' = "abort"
  /\ tries' = 1
  /\ Send("abort", bId, 0)
  /\ UNCHANGED <<bState, bBackup, bUp, bBlocked, bOnce, aVars, others, faults>>

\* rollback: the restore fails; the job ends and the next boot tries again.
RollbackFails ==
  /\ bJob = "rbCheck" /\ ~EverConnected
  /\ faults < MaxFaults /\ faults' = faults + 1
  /\ Forget
  /\ bJob' = "none"
  /\ UNCHANGED <<bState, bDisk, bUp, bBlocked, bRun, bOnce, tries, aVars, netVars, others>>

\* abortWithRetry: no answer, and attempts left.
AbortRetry ==
  /\ bJob = "abort" /\ bReply = "error"
  /\ tries < AbortTries
  /\ tries' = tries + 1
  /\ Send("abort", bId, 0)
  /\ UNCHANGED <<bState, bDisk, bProc, bJob, aVars, hist, faults>>

\* finishAborted, after abortWithRetry: the staging directory goes, and the
\* backup with it.
AbortEnds ==
  /\ bJob = "abort"
  /\ \/ bReply = "ok" /\ bJob' = "finishOk"
     \/ bReply = "conflict" /\ bJob' = "finishErr"
     \/ bReply = "error" /\ tries >= AbortTries /\ bJob' = "finishErr"
  /\ bBackup' = FALSE
  /\ UNCHANGED <<bState, bData, bProc, tries, aVars, netVars, hist, faults>>

\* finishAborted persists how the migration ended.
FinishAborted ==
  /\ \/ bJob = "finishOk" /\ Persist("aborted", "none")
     \/ bJob = "finishErr" /\ Persist("failed", "unlock")
  /\ bJob' = "none"
  /\ UNCHANGED <<bId, bSnap, bDisk, bProc, tries, aVars, netVars, hist>>

\* What has not been persisted is lost, connectedOnce among it.
CrashB ==
  /\ bUp
  /\ crashes < MaxCrashes
  /\ crashes' = crashes + 1
  /\ lostOnce' = (lostOnce \/ ((bLogin \/ bOnce) /\ bPhase = "rolling_back"))
  /\ bUp' = FALSE /\ bBlocked' = FALSE /\ bRun' = FALSE
  /\ bLogin' = FALSE /\ bOnce' = FALSE
  /\ bJob' = "none" /\ tries' = 0
  /\ bReply' = "none" /\ rSnap' = 0
  /\ UNCHANGED <<bState, bDisk, net, aVars, seen, locks, forced, bUsed, late, unwritten,
                 faults>>

\* Mutant: an interrupted rollback is not taken up again.
resumeWithoutRollback(phase) ==
  IF phase = "preparing" THEN "abort"
  ELSE IF phase \in {"imported", "connecting", "committing"} THEN "commitStart"
  ELSE "none"
\* resumeJobs: what a restarted B does, by its phase.
resumeJob(phase) ==
  IF phase = "preparing" THEN "abort"
  ELSE IF phase \in {"imported", "connecting", "committing"} THEN "commitStart"
  ELSE IF phase = "rolling_back" THEN "rollback"
  ELSE "none"

\* boot, Restore and resumeJobs.
BootB ==
  /\ ~bUp
  /\ bUp' = TRUE
  /\ bRun' = (bData = "clone" /\ ~blocksTarget(bPhase))
  /\ bBlocked' = (bPhase = "rolling_back")
  /\ bJob' = resumeJob(bPhase)
  /\ IF resumeJob(bPhase) = "abort"
       THEN tries' = 1 /\ Send("abort", bId, 0)
       ELSE UNCHANGED <<tries, netVars>>
  /\ UNCHANGED <<bState, bDisk, logins, aVars, hist, faults>>

-----------------------------------------------------------------------------
NextA ==
  \/ RecvLock \/ LockSnapshot \/ LockFails
  \/ RecvCommit \/ CommitPersist
  \/ RecvAbort
  \/ AdminUnlock
  \/ CrashA \/ BootA

NextB ==
  \/ \E id \in Ids : StartImport(id)
  \/ CallLost
  \/ FetchManifest \/ Download \/ Backup \/ PrepareFails \/ CloneTables
  \/ Reload \/ EnterConnecting \/ AccountLogsIn \/ HandleConnected \/ WaitConnected
  \/ CommitStart \/ CommitRetry \/ CommitDone \/ CommitRefused
  \/ Rollback \/ RollbackStop \/ RollbackKeepsClone \/ RollbackRestores
  \/ RollbackFails
  \/ AbortRetry \/ AbortEnds \/ FinishAborted
  \/ CrashB \/ BootB

Next == NextA \/ NextB

Spec == Init /\ [][Next]_vars

-----------------------------------------------------------------------------
(* Fairness.  A process that is up goes on with what it is doing, a process  *)
(* that died is started again by its supervisor, an HTTP call ends at the    *)
(* latest with its time out, and of the commits that B repeats for ever      *)
(* (commitLoop) some reach A while B waits.  Nothing is assumed of          *)
(* crashes, lost calls, failed writes, the administrator or the accounts.    *)

JobB ==
  \/ FetchManifest \/ Download \/ Backup \/ PrepareFails \/ CloneTables
  \/ Reload \/ EnterConnecting \/ WaitConnected
  \/ CommitStart \/ CommitRetry \/ CommitDone \/ CommitRefused
  \/ Rollback \/ RollbackStop \/ RollbackKeepsClone \/ RollbackRestores
  \/ RollbackFails
  \/ AbortRetry \/ AbortEnds \/ FinishAborted

OperationA == LockSnapshot \/ LockFails \/ CommitPersist

CommitDelivered ==
  /\ bJob = "commit" /\ bReply = "none"
  /\ RecvCommit
  /\ aOp' # aOp \/ bReply' # bReply

Fairness ==
  /\ WF_vars(JobB) /\ WF_vars(OperationA)
  /\ WF_vars(BootA) /\ WF_vars(BootB)
  /\ WF_vars(CallLost)
  /\ SF_vars(CommitDelivered)

FairSpec == Spec /\ Fairness

-----------------------------------------------------------------------------
(* Properties. *)

TypeFlags ==
  /\ aKeys \in BOOLEAN /\ aUp \in BOOLEAN /\ aBlocked \in BOOLEAN /\ aRun \in BOOLEAN
  /\ bBackup \in BOOLEAN /\ bUp \in BOOLEAN /\ bBlocked \in BOOLEAN
  /\ bRun \in BOOLEAN /\ bLogin \in BOOLEAN /\ bOnce \in BOOLEAN
  /\ forced \in BOOLEAN /\ bUsed \in BOOLEAN /\ lostOnce \in BOOLEAN
  /\ late \in BOOLEAN /\ unwritten \in BOOLEAN

TypeData ==
  /\ aPhase \in APhase /\ aId \in Ids \union {NoId} /\ aSnap \in Nat
  /\ aOp \in {"none", "lock", "commit"}
  /\ bPhase \in BPhase /\ bError \in {"none", "commit", "unlock"}
  /\ bId \in Ids \union {NoId} /\ bSnap \in Nat
  /\ bData \in {"own", "clone", "empty"} /\ bJob \in BJob /\ tries \in Nat
  /\ net \subseteq Requests
  /\ bReply \in {"none", "ok", "conflict", "error"} /\ rSnap \in Nat
  /\ seen \subseteq Ids /\ locks \in Nat /\ crashes \in Nat /\ faults \in Nat

\* The type invariant: phases, requests and counters of both servers.
TypeOK == TypeFlags /\ TypeData

\* The golden rule (migration.go:31): the same keys never run in two places,
\* whatever crashes, is lost or arrives late, unless the administrator unlocked
\* A by hand while B may hold the keys.
GoldenRule == ~(aRun /\ bRun) \/ forced

\* wipeLocalKeys and restoreBackup never together erase the keys everywhere,
\* whichever write of the migration state fails, but for the two that rollback
\* relies on: that of rolling_back, and that of committing which takes it back.
KeysNeverLost == aKeys \/ bData = "clone" \/ unwritten

\* boot and resumeJobs decide by the phase alone whether B has the keys
\* (migration_target.go:920): the phase tells the truth about the database.
PhaseTellsData ==
  ~unwritten =>
  /\ bPhase \in {"imported", "connecting", "committing", "done"} => bData = "clone"
  /\ bPhase \in {"none", "preparing", "aborted"} => bData # "clone"
  /\ bPhase = "failed" => (bData = "clone" <=> bError = "commit")

\* commitLoop, from resumeJobs and rollback, dereferences the manifest: it is
\* there whenever B can reach a commit.
ManifestPresent ==
  bPhase \in {"imported", "connecting", "committing", "rolling_back"} => bSnap # 0

\* A lock that B obtained stays its own until B ends it: unless A was unlocked
\* by hand, or B forgot that it gave the clone up, A never refuses the
\* confirmation of B.
CommitNeverRefused == bError = "commit" => forced \/ unwritten

\* A login that rollback could see keeps the clone at B: A goes back to work
\* with keys that B has used only by the administrator's order, or where the
\* Connected event was not handled when rollback looked, or connectedOnce was
\* lost to a crash in rolling_back (see StaleKeysNeverResume).
SeenLoginKeepsClone == aRun /\ bUsed => forced \/ lostOnce \/ late

\* commitSource erases only what B holds: at the moment the keys go, the
\* content of A is the very snapshot that B imported (sha256 check), unless
\* B forgot that it gave the clone up.
WipeOnlyCloned ==
  [][aKeys /\ ~aKeys' => unwritten \/ (bData = "clone" /\ bSnap = aSnap /\ aSnap = locks)]_vars

\* The tombstone is for ever: no late lock, abort, unlock or reboot brings an
\* origin back that has been migrated.
TombstoneForever == [][aPhase = "committed" => aPhase' = "committed"]_vars

\* A migration ends: done, aborted or failed, whatever is lost and whoever
\* crashes (finitely often).
MigrationEnds == bPhase = "preparing" ~> bPhase \in {"done", "aborted", "failed"}

\* The commit is repeated until it is done, across crashes of both: once B
\* commits, A ends as a tombstone unless it is unlocked by hand.
CommitReachesSource == bPhase = "committing" ~> aPhase = "committed" \/ forced

\* The keys as an abstract custody: see KeyCustody.
Custody == INSTANCE KeyCustody WITH
  has <- {n \in {"A", "B"} : IF n = "A" THEN aKeys ELSE bData = "clone"},
  run <- {n \in {"A", "B"} : IF n = "A" THEN aRun ELSE bRun}
CustodySpec == Custody!Spec

\* What the documentation says and the code does not keep.

\* "esta instancia voltou a como estava" (migration_target.go:820): after a
\* failed migration B can create, start and pair accounts again.
AbortedMeansUsable == bPhase = "aborted" /\ bUp /\ bJob = "none" => ~bBlocked

\* "as chaves ja foram usadas aqui, voltar atras deixaria A com estado velho"
\* (migration_target.go:788): A never resumes with keys used on B; and, where
\* the login had been noted in time, not even after a crash of B.
StaleKeysNeverResume == aRun /\ bUsed => forced
NotedLoginKeepsClone == aRun /\ bUsed => forced \/ late

\* "commit: A apaga as chaves locais e vira tombstone (deu certo)"
\* (migration.go:28): A erases its keys only when B has them.
ErasedMeansArrived == aKeys \/ bData = "clone"

=============================================================================
