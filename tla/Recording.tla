------------------------------ MODULE Recording ------------------------------
(***************************************************************************)
(* The recording of calls and its handoff: cmd/server/recording_ctl.go,    *)
(* recording_handoff.go, recording_notify.go and recordingstore.go.        *)
(*                                                                         *)
(* A recording is armed by the request that dials or accepts a call, opened *)
(* when the call is answered, closed when it ends, and then uploaded to B2 *)
(* and announced by a webhook by a pool of workers.  The table             *)
(* call_recordings (status, notified, attempts) and the WAV files survive  *)
(* a crash; the live map, the queue and the workers do not.                *)
(*                                                                         *)
(* The length of the audio captured is short (below minRecordingMs) or     *)
(* long, and the WAV on disk has that length while it exists.              *)
(***************************************************************************)
EXTENDS Naturals, Sequences, FiniteSets

CONSTANTS
  Calls,        \* ids of the calls that are to be recorded
  Workers,      \* the upload workers
  NoCall,
  Recoveries,   \* bound: goroutines resumeOnBoot that run at once; a boot and
                \* every pause start one, so MaxPauses + 1 are never too few
  QueueCap,     \* capacity of the channel jobs (512 in the code)
  MaxAttempts,  \* maxHandoffAttempts (24 in the code)
  MaxPauses,    \* bound: pauses for a migration
  MaxCrashes,   \* bound: crashes
  MaxFaults     \* bound: writes to the table or to the disk that fail

ASSUME CallsAssumption == NoCall \notin Calls
ASSUME RecordingBounds ==
  /\ QueueCap \in Nat /\ MaxAttempts \in Nat /\ MaxPauses \in Nat
  /\ MaxCrashes \in Nat /\ MaxFaults \in Nat

VARIABLES
  call,      \* the call itself: new, up, answered, over
  armed,     \* the request has armed the recording
  live,      \* c.live: no entry, armed, started (rec still nil), recording
  ans,       \* control point of onAnswered
  fin,       \* control point of finalizeRecording
  open,      \* the recorder is writing
  len, wav,  \* audio captured, WAV file on disk
  status, notified, \* row of call_recordings: none, recording, uploading, ready,
                    \* failed, skipped
  ups, nots, \* upload_attempts and notify_attempts of the row
  b2,        \* object in the bucket: none, part (of an open WAV) or whole
  hooks,     \* a webhook reached the receiver
  inflight, jobs,              \* upload dedupe and queue
  wp, wc, wrow,                \* workers: control point, call, row read
  config,    \* the session's B2 and webhook destination is complete
  paused, pauser, pauses,      \* c.paused, the migration that pauses
  resumer, todo, stale, \* each resumeOnBoot: control point, rows left, row looked at
  crashes, faults,
  \* history: calls resumeOnBoot took as stale while being recorded, and those
  \* that two of them took
  salvaged, twice

captureVars == <<call, armed, live, ans, fin, open>>
diskVars == <<len, wav>>
rowVars == <<status, notified, ups, nots>>
remoteVars == <<b2, hooks>>
queueVars == <<inflight, jobs>>
workVars == <<wp, wc, wrow>>
pauseVars == <<paused, pauser, pauses>>
resumeVars == <<resumer, todo, stale>>
history == <<salvaged, twice>>
vars == <<call, armed, live, ans, fin, open, len, wav, status, notified, ups, nots,
          b2, hooks, inflight, jobs, wp, wc, wrow, config, paused, pauser, pauses,
          resumer, todo, stale, crashes, faults, salvaged, twice>>

\* start runs one resumeOnBoot.
Starting ==
  LET first == CHOOSE r \in Recoveries : TRUE
  IN  [r \in Recoveries |-> IF r = first THEN "check" ELSE "idle"]
NoRows == [r \in Recoveries |-> {}]
NoStale == [r \in Recoveries |-> NoCall]

NoRow == [status |-> "none", notified |-> FALSE, sent |-> "none"]

Init ==
  /\ call = [c \in Calls |-> "new"] /\ armed = [c \in Calls |-> FALSE]
  /\ live = [c \in Calls |-> "no"] /\ ans = [c \in Calls |-> "idle"]
  /\ fin = [c \in Calls |-> "idle"] /\ open = [c \in Calls |-> FALSE]
  /\ len = [c \in Calls |-> "short"] /\ wav = [c \in Calls |-> FALSE]
  /\ status = [c \in Calls |-> "none"] /\ notified = [c \in Calls |-> FALSE]
  /\ ups = [c \in Calls |-> 0] /\ nots = [c \in Calls |-> 0]
  /\ b2 = [c \in Calls |-> "none"] /\ hooks = [c \in Calls |-> FALSE]
  /\ inflight = {} /\ jobs = << >>
  /\ wp = [w \in Workers |-> "idle"] /\ wc = [w \in Workers |-> NoCall]
  /\ wrow = [w \in Workers |-> NoRow]
  /\ config = TRUE
  /\ paused = FALSE /\ pauser = "idle" /\ pauses = 0
  /\ resumer = Starting /\ todo = NoRows /\ stale = NoStale
  /\ crashes = 0 /\ faults = 0 /\ salvaged = {} /\ twice = {}

-----------------------------------------------------------------------------
(* The row.  An UPDATE of a row that does not exist changes nothing, and     *)
(* every caller of these but markUploaded and markNotified ignores or only   *)
(* logs an error.                                                            *)

SetStatus(c, s) ==
  \/ /\ status' = [status EXCEPT ![c] = IF @ = "none" THEN "none" ELSE s]
     /\ UNCHANGED faults
  \/ /\ faults < MaxFaults /\ faults' = faults + 1
     /\ UNCHANGED status

\* begin inserts the row, or gives an existing one the status recording.
Begin(c) ==
  \/ /\ status' = [status EXCEPT ![c] = "recording"]
     /\ UNCHANGED faults
  \/ /\ faults < MaxFaults /\ faults' = faults + 1
     /\ UNCHANGED status

\* insertSkipped does not touch an existing row.
InsertSkipped(c) ==
  \/ /\ status' = [status EXCEPT ![c] = IF @ = "none" THEN "skipped" ELSE @]
     /\ UNCHANGED faults
  \/ /\ faults < MaxFaults /\ faults' = faults + 1
     /\ UNCHANGED status

\* pendingHandoff: finished and not uploaded, or uploaded and not acknowledged.
Pending(c) ==
  \/ status[c] \in {"uploading", "failed"}
  \/ status[c] = "ready" /\ ~notified[c]

\* Mutant: the queue takes a call that is already queued or being processed.
EnqueueTwice(c) ==
  IF Len(jobs) < QueueCap
    THEN jobs' = Append(jobs, c) /\ inflight' = inflight \union {c}
    ELSE UNCHANGED queueVars
\* enqueue: unless the call is queued or being processed, or the queue is full.
Enqueue(c) ==
  IF c \notin inflight /\ Len(jobs) < QueueCap
    THEN jobs' = Append(jobs, c) /\ inflight' = inflight \union {c}
    ELSE UNCHANGED queueVars

-----------------------------------------------------------------------------
(* Capture.  The call's life comes from the call manager.                    *)

\* A call is dialled or rings.  While A is locked the guard refuses new
\* requests, but one that passed it before the lock still goes on.
CallStarts(c) ==
  /\ call[c] = "new"
  /\ pauser # "paused"
  /\ call' = [call EXCEPT ![c] = "up"]
  /\ UNCHANGED <<armed, live, ans, fin, open, diskVars, rowVars, remoteVars, queueVars,
                 workVars, config, pauseVars, resumeVars, crashes, faults, history>>

CallAnswered(c) ==
  /\ call[c] = "up"
  /\ call' = [call EXCEPT ![c] = "answered"]
  /\ UNCHANGED <<armed, live, ans, fin, open, diskVars, rowVars, remoteVars, queueVars,
                 workVars, config, pauseVars, resumeVars, crashes, faults, history>>

\* arm, from the request, some time after the call was placed.
Arm(c) ==
  /\ call[c] # "new" /\ ~armed[c]
  /\ armed' = [armed EXCEPT ![c] = TRUE]
  /\ live' = [live EXCEPT ![c] = "armed"]
  /\ UNCHANGED <<call, ans, fin, open, diskVars, rowVars, remoteVars, queueVars,
                 workVars, config, pauseVars, resumeVars, crashes, faults, history>>

\* onAnswered under c.mu, on the change to Active or the first audio packet.
OnAnswered(c) ==
  /\ call[c] = "answered"
  /\ live[c] = "armed"
  /\ live' = [live EXCEPT ![c] = "started"]
  /\ ans' = [ans EXCEPT ![c] = "open"]
  /\ UNCHANGED <<call, armed, fin, open, diskVars, rowVars, remoteVars, queueVars,
                 workVars, config, pauseVars, resumeVars, crashes, faults, history>>

\* recording.New, which may fail: the entry goes.
OpenWav(c) ==
  /\ ans[c] = "open"
  /\ \/ /\ open' = [open EXCEPT ![c] = TRUE]
        /\ wav' = [wav EXCEPT ![c] = TRUE]
        /\ ans' = [ans EXCEPT ![c] = "begin"]
        /\ UNCHANGED <<live, faults>>
     \/ /\ faults < MaxFaults /\ faults' = faults + 1
        /\ live' = [live EXCEPT ![c] = "no"]
        /\ ans' = [ans EXCEPT ![c] = "idle"]
        /\ UNCHANGED <<open, wav>>
  /\ UNCHANGED <<call, armed, fin, len, rowVars, remoteVars, queueVars,
                 workVars, config, pauseVars, resumeVars, crashes, history>>

BeginRow(c) ==
  /\ ans[c] = "begin"
  /\ Begin(c)
  /\ ans' = [ans EXCEPT ![c] = "attach"]
  /\ UNCHANGED <<call, armed, live, fin, open, diskVars, notified, ups, nots, remoteVars,
                 queueVars, workVars, config, pauseVars, resumeVars, crashes, history>>

\* Mutant: a call that ended while the WAV was being set up is forgotten.
AttachOnly(c) ==
  /\ ans[c] = "attach"
  /\ ans' = [ans EXCEPT ![c] = "idle"]
  /\ live' = [live EXCEPT ![c] = IF @ = "started" THEN "recording" ELSE @]
  /\ UNCHANGED <<call, armed, fin, open, diskVars, rowVars, remoteVars, queueVars,
                 workVars, config, pauseVars, resumeVars, crashes, faults, history>>
\* The end of onAnswered: the call goes on, or ended meanwhile and is
\* finalized here.
Attach(c) ==
  /\ ans[c] = "attach"
  /\ ans' = [ans EXCEPT ![c] = "idle"]
  /\ IF live[c] = "started"
       THEN live' = [live EXCEPT ![c] = "recording"] /\ UNCHANGED fin
       ELSE fin' = [fin EXCEPT ![c] = "close"] /\ UNCHANGED live
  /\ UNCHANGED <<call, armed, open, diskVars, rowVars, remoteVars, queueVars,
                 workVars, config, pauseVars, resumeVars, crashes, faults, history>>

\* The recorder commits five seconds of audio.
Capture(c) ==
  /\ open[c] /\ len[c] = "short"
  /\ len' = [len EXCEPT ![c] = "long"]
  /\ UNCHANGED <<captureVars, wav, rowVars, remoteVars, queueVars,
                 workVars, config, pauseVars, resumeVars, crashes, faults, history>>

\* onCallEnded: not answered, still being set up, or recording.
CallEnds(c) ==
  /\ call[c] \in {"up", "answered"}
  /\ call' = [call EXCEPT ![c] = "over"]
  /\ live' = [live EXCEPT ![c] = "no"]
  /\ IF live[c] = "armed" THEN InsertSkipped(c) ELSE UNCHANGED <<status, faults>>
  /\ fin' = [fin EXCEPT ![c] = IF live[c] = "recording" THEN "close" ELSE @]
  /\ UNCHANGED <<armed, ans, open, diskVars, notified, ups, nots, remoteVars, queueVars,
                 workVars, config, pauseVars, resumeVars, crashes, history>>

\* finalizeRecording: the WAV is closed.
FinClose(c) ==
  /\ fin[c] = "close"
  /\ open' = [open EXCEPT ![c] = FALSE]
  /\ \/ fin' = [fin EXCEPT ![c] = "store"] /\ UNCHANGED <<status, faults>>
     \/ /\ faults < MaxFaults /\ faults' = faults + 1
        /\ status' = [status EXCEPT ![c] = IF @ = "none" THEN "none" ELSE "failed"]
        /\ fin' = [fin EXCEPT ![c] = "idle"]
  /\ UNCHANGED <<call, armed, live, ans, diskVars, notified, ups, nots, remoteVars,
                 queueVars, workVars, config, pauseVars, resumeVars, crashes, history>>

\* finalizeRecording: markSkipped or finishRecording.
FinStore(c) ==
  /\ fin[c] = "store"
  /\ IF len[c] = "short"
       THEN SetStatus(c, "skipped") /\ fin' = [fin EXCEPT ![c] = "remove"]
       ELSE SetStatus(c, "uploading") /\ fin' = [fin EXCEPT ![c] = "enqueue"]
  /\ UNCHANGED <<call, armed, live, ans, open, diskVars, notified, ups, nots, remoteVars,
                 queueVars, workVars, config, pauseVars, resumeVars, crashes, history>>

FinRemove(c) ==
  /\ fin[c] = "remove"
  /\ wav' = [wav EXCEPT ![c] = FALSE]
  /\ fin' = [fin EXCEPT ![c] = "idle"]
  /\ UNCHANGED <<call, armed, live, ans, open, len, rowVars, remoteVars, queueVars,
                 workVars, config, pauseVars, resumeVars, crashes, faults, history>>

FinEnqueue(c) ==
  /\ fin[c] = "enqueue"
  /\ Enqueue(c)
  /\ fin' = [fin EXCEPT ![c] = "idle"]
  /\ UNCHANGED <<call, armed, live, ans, open, diskVars, rowVars, remoteVars,
                 workVars, config, pauseVars, resumeVars, crashes, faults, history>>

-----------------------------------------------------------------------------
(* The workers.                                                              *)

Go(w, to) == wp' = [wp EXCEPT ![w] = to]

Take(w) ==
  /\ wp[w] = "idle"
  /\ jobs # << >>
  /\ Go(w, "taken")
  /\ wc' = [wc EXCEPT ![w] = Head(jobs)]
  /\ jobs' = Tail(jobs)
  /\ UNCHANGED <<captureVars, diskVars, rowVars, remoteVars, inflight, wrow, config,
                 pauseVars, resumeVars, crashes, faults, history>>

\* Mutant: busy is counted after the look at paused.
BusyLate(w) == wp[w] \notin {"idle", "taken", "busy", "get", "done"}
\* c.busy counts the worker, until it is done with the job.
Busy(w) == wp[w] \notin {"idle", "taken", "done"}

MarkBusy(w) ==
  /\ wp[w] = "taken"
  /\ Go(w, "busy")
  /\ UNCHANGED <<captureVars, diskVars, rowVars, remoteVars, queueVars, wc, wrow, config,
                 pauseVars, resumeVars, crashes, faults, history>>

CheckPaused(w) ==
  /\ wp[w] = "busy"
  /\ Go(w, IF paused THEN "done" ELSE "get")
  /\ UNCHANGED <<captureVars, diskVars, rowVars, remoteVars, queueVars, wc, wrow, config,
                 pauseVars, resumeVars, crashes, faults, history>>

\* Mutant: whatever the row says, the call is uploaded.
GetRowBlind(w) ==
  LET c == wc[w] IN
  /\ wp[w] = "get"
  /\ Go(w, IF config THEN "upload" ELSE "done")
  /\ wrow' = [wrow EXCEPT ![w] =
                [status |-> status[c], notified |-> notified[c], sent |-> "none"]]
  /\ UNCHANGED <<captureVars, diskVars, rowVars, remoteVars, queueVars, wc, config,
                 pauseVars, resumeVars, crashes, faults, history>>
\* processRecording reads the row and the configuration once.
GetRow(w) ==
  LET c == wc[w] IN
  /\ wp[w] = "get"
  /\ Go(w, IF ~config THEN "done"
           ELSE IF status[c] \in {"uploading", "failed"} THEN "upload"
           ELSE IF Pending(c) THEN "notify"
           ELSE "done")
  /\ wrow' = [wrow EXCEPT ![w] =
                [status |-> status[c], notified |-> notified[c], sent |-> "none"]]
  /\ UNCHANGED <<captureVars, diskVars, rowVars, remoteVars, queueVars, wc, config,
                 pauseVars, resumeVars, crashes, faults, history>>

\* Attempts are counted up to MaxAttempts, which is all that the sweep asks.
Counted(n) == IF n < MaxAttempts THEN n + 1 ELSE n

\* Mutant: a WAV that is gone counts as uploaded.
UploadMissingIsDone(w) ==
  LET c == wc[w] IN
  /\ wp[w] = "upload"
  /\ ups' = [ups EXCEPT ![c] = Counted(@)]
  /\ \/ wav[c] /\ Go(w, "put")
     \/ ~wav[c] /\ Go(w, "notify")
  /\ UNCHANGED <<captureVars, diskVars, status, faults, notified, nots, remoteVars,
                 queueVars, wc, wrow, config, pauseVars, resumeVars, crashes, history>>
\* uploadAndVerify: count the attempt and open the WAV, which may be gone.
Upload(w) ==
  LET c == wc[w] IN
  /\ wp[w] = "upload"
  /\ ups' = [ups EXCEPT ![c] = Counted(@)]
  /\ \/ wav[c] /\ Go(w, "put") /\ UNCHANGED <<status, faults>>
     \/ ~wav[c] /\ Go(w, "done") /\ SetStatus(c, "failed")
  /\ UNCHANGED <<captureVars, diskVars, notified, nots, remoteVars, queueVars, wc, wrow,
                 config, pauseVars, resumeVars, crashes, history>>

\* PutObject sends what the WAV holds; the object is stored or it is not,
\* whatever the answer.
Put(w) ==
  LET c == wc[w]
      sent == IF open[c] THEN "part" ELSE "whole" IN
  /\ wp[w] = "put"
  /\ b2' \in {b2, [b2 EXCEPT ![c] = sent]}
  /\ wrow' = [wrow EXCEPT ![w].sent = sent]
  /\ \/ Go(w, "verify") /\ UNCHANGED <<status, faults>>
     \/ Go(w, "done") /\ SetStatus(c, "failed")
  /\ UNCHANGED <<captureVars, diskVars, notified, ups, nots, hooks, queueVars, wc,
                 config, pauseVars, resumeVars, crashes, history>>

\* Mutant: the answer to the upload is trusted.
VerifyTrusts(w) ==
  /\ wp[w] = "verify"
  /\ Go(w, "mark")
  /\ UNCHANGED <<captureVars, diskVars, rowVars, remoteVars, queueVars, wc,
                 wrow, config, pauseVars, resumeVars, crashes, faults, history>>
\* HeadObject: the object is there with the size of the WAV, or the row fails.
Verify(w) ==
  /\ wp[w] = "verify"
  /\ \/ /\ b2[wc[w]] = wrow[w].sent
        /\ Go(w, "mark")
        /\ UNCHANGED <<status, faults>>
     \/ /\ Go(w, "done")
        /\ SetStatus(wc[w], "failed")
  /\ UNCHANGED <<captureVars, diskVars, notified, ups, nots, remoteVars, queueVars, wc,
                 wrow, config, pauseVars, resumeVars, crashes, history>>

MarkUploaded(w) ==
  /\ wp[w] = "mark"
  /\ \/ /\ Go(w, "unlink")
        /\ status' = [status EXCEPT ![wc[w]] = "ready"]
        /\ UNCHANGED faults
     \/ /\ faults < MaxFaults /\ faults' = faults + 1
        /\ Go(w, "done")
        /\ UNCHANGED status
  /\ UNCHANGED <<captureVars, diskVars, notified, ups, nots, remoteVars, queueVars, wc,
                 wrow, config, pauseVars, resumeVars, crashes, history>>

\* The WAV goes; then the webhook, unless the row read said it was acknowledged.
Unlink(w) ==
  /\ wp[w] = "unlink"
  /\ Go(w, IF wrow[w].notified THEN "done" ELSE "notify")
  /\ wav' = [wav EXCEPT ![wc[w]] = FALSE]
  /\ UNCHANGED <<captureVars, len, rowVars, remoteVars, queueVars, wc, wrow,
                 config, pauseVars, resumeVars, crashes, faults, history>>

\* notify: the webhook arrives or not; without a 2xx answer the sweep retries.
Notify(w) ==
  /\ wp[w] = "notify"
  /\ nots' = [nots EXCEPT ![wc[w]] = Counted(@)]
  /\ \/ Go(w, "ack") /\ hooks' = [hooks EXCEPT ![wc[w]] = TRUE]
     \/ Go(w, "done") /\ hooks' \in {hooks, [hooks EXCEPT ![wc[w]] = TRUE]}
  /\ UNCHANGED <<captureVars, diskVars, status, notified, ups, b2, queueVars, wc, wrow,
                 config, pauseVars, resumeVars, crashes, faults, history>>

MarkNotified(w) ==
  /\ wp[w] = "ack"
  /\ Go(w, "done")
  /\ \/ notified' = [notified EXCEPT ![wc[w]] = TRUE] /\ UNCHANGED faults
     \/ faults < MaxFaults /\ faults' = faults + 1 /\ UNCHANGED notified
  /\ UNCHANGED <<captureVars, diskVars, status, ups, nots, remoteVars, queueVars, wc, wrow,
                 config, pauseVars, resumeVars, crashes, history>>

\* Mutant: the claim on the call is not released.
ReleaseForgets(w) ==
  /\ wp[w] = "done"
  /\ Go(w, "idle")
  /\ wc' = [wc EXCEPT ![w] = NoCall]
  /\ wrow' = [wrow EXCEPT ![w] = NoRow]
  /\ UNCHANGED <<captureVars, diskVars, rowVars, remoteVars, queueVars, config,
                 pauseVars, resumeVars, crashes, faults, history>>
\* The worker is free, and the call may be queued again.
Release(w) ==
  /\ wp[w] = "done"
  /\ Go(w, "idle")
  /\ inflight' = inflight \ {wc[w]}
  /\ wc' = [wc EXCEPT ![w] = NoCall]
  /\ wrow' = [wrow EXCEPT ![w] = NoRow]
  /\ UNCHANGED <<captureVars, diskVars, rowVars, remoteVars, jobs, config,
                 pauseVars, resumeVars, crashes, faults, history>>

Work(w) ==
  \/ Take(w) \/ MarkBusy(w) \/ CheckPaused(w) \/ GetRow(w)
  \/ Upload(w) \/ Put(w) \/ Verify(w) \/ MarkUploaded(w) \/ Unlink(w)
  \/ Notify(w) \/ MarkNotified(w) \/ Release(w)

-----------------------------------------------------------------------------
(* The sweep, the migration's pause, the recovery and the environment.       *)

Attempts(c) == IF nots[c] > ups[c] THEN nots[c] ELSE ups[c]

\* retrySweep takes up a row whose backoff is over.
Sweep(c) ==
  /\ ~paused
  /\ Pending(c)
  /\ Attempts(c) < MaxAttempts
  /\ config
  /\ Enqueue(c)
  /\ UNCHANGED <<captureVars, diskVars, rowVars, remoteVars, workVars, config,
                 pauseVars, resumeVars, crashes, faults, history>>

\* lockSource: no call, no recording; the lock is persisted; pause begins.
PauseStarts ==
  /\ pauser = "idle" /\ pauses < MaxPauses
  /\ \A c \in Calls : call[c] \in {"new", "over"} /\ live[c] = "no"
  /\ pauses' = pauses + 1
  /\ pauser' = "pausing"
  /\ paused' = TRUE
  /\ UNCHANGED <<captureVars, diskVars, rowVars, remoteVars, queueVars, workVars, config,
                 resumeVars, crashes, faults, history>>

\* pause saw no worker busy.
PauseReturns ==
  /\ pauser = "pausing"
  /\ \A w \in Workers : ~Busy(w)
  /\ pauser' = "paused"
  /\ UNCHANGED <<captureVars, diskVars, rowVars, remoteVars, queueVars, workVars, config,
                 paused, pauses, resumeVars, crashes, faults, history>>

\* unlockSourceLocked up to reconnectAll: pause timed out, or the migration
\* failed; the accounts work again.
Unlock ==
  /\ pauser \in {"pausing", "paused"}
  /\ pauser' = "unlocking"
  /\ UNCHANGED <<captureVars, diskVars, rowVars, remoteVars, queueVars, workVars, config,
                 paused, pauses, resumeVars, crashes, faults, history>>

\* resume, at the end of unlockSourceLocked: another resumeOnBoot is started,
\* whether or not an earlier one is still running.
Resume ==
  /\ pauser = "unlocking"
  /\ \E r \in Recoveries : resumer[r] = "idle"
  /\ pauser' = "idle"
  /\ paused' = FALSE
  /\ LET free == CHOOSE r \in Recoveries : resumer[r] = "idle"
     IN  resumer' = [resumer EXCEPT ![free] = "check"]
  /\ UNCHANGED <<captureVars, diskVars, rowVars, remoteVars, queueVars, workVars, config,
                 pauses, todo, stale, crashes, faults, history>>

\* A resumeOnBoot that has read the rows left in recording and not dealt with
\* all of them.
Salvaging(r) == resumer[r] \in {"stale", "failed", "skipped", "uploading"}

\* resumeOnBoot reads the rows left in recording.
ResumeCheck(r) ==
  /\ resumer[r] = "check"
  /\ IF paused
       THEN resumer' = [resumer EXCEPT ![r] = "idle"] /\ UNCHANGED <<todo, history>>
       ELSE LET rows == {c \in Calls : status[c] = "recording"} IN
            /\ resumer' = [resumer EXCEPT ![r] = "stale"]
            /\ todo' = [todo EXCEPT ![r] = rows]
            /\ salvaged' = salvaged \union {c \in rows : open[c] \/ fin[c] # "idle"}
            /\ twice' = twice \union
                 {c \in rows : \E x \in Recoveries \ {r} : Salvaging(x) /\ c \in todo[x]}
  /\ UNCHANGED <<captureVars, diskVars, rowVars, remoteVars, queueVars, workVars, config,
                 pauseVars, stale, crashes, faults>>

\* os.Stat of a stale row's WAV: the row is to fail without a usable one, to be
\* skipped with a short one and finished with a long one.
ResumeStat(r, c) ==
  /\ resumer[r] = "stale" /\ c \in todo[r]
  /\ stale' = [stale EXCEPT ![r] = c]
  /\ \/ /\ ~wav[c] \/ len[c] = "short"
        /\ resumer' = [resumer EXCEPT ![r] = "failed"]
     \/ /\ wav[c] /\ len[c] = "short"
        /\ resumer' = [resumer EXCEPT ![r] = "skipped"]
     \/ /\ wav[c] /\ len[c] = "long"
        /\ resumer' = [resumer EXCEPT ![r] = "uploading"]
  /\ UNCHANGED <<captureVars, diskVars, rowVars, remoteVars, queueVars, workVars, config,
                 pauseVars, todo, crashes, faults, history>>

\* The row is written, and the WAV of a skipped one removed.
ResumeStale(r) ==
  LET c == stale[r] IN
  /\ resumer[r] \in {"failed", "skipped", "uploading"}
  /\ SetStatus(c, resumer[r])
  /\ wav' = [wav EXCEPT ![c] = @ /\ resumer[r] # "skipped"]
  /\ resumer' = [resumer EXCEPT ![r] = "stale"]
  /\ todo' = [todo EXCEPT ![r] = @ \ {c}]
  /\ stale' = [stale EXCEPT ![r] = NoCall]
  /\ UNCHANGED <<captureVars, len, notified, ups, nots, remoteVars, queueVars, workVars,
                 config, pauseVars, crashes, history>>

ResumePending(r) ==
  LET rows == {c \in Calls : Pending(c)} IN
  /\ resumer[r] = "stale" /\ todo[r] = {}
  /\ todo' = [todo EXCEPT ![r] = rows]
  /\ resumer' = [resumer EXCEPT ![r] = IF rows = {} THEN "idle" ELSE "pending"]
  /\ UNCHANGED <<captureVars, diskVars, rowVars, remoteVars, queueVars, workVars, config,
                 pauseVars, stale, crashes, faults, history>>

\* The recovery ends with the last row.
ResumeEnqueue(r, c) ==
  /\ resumer[r] = "pending" /\ c \in todo[r]
  /\ Enqueue(c)
  /\ todo' = [todo EXCEPT ![r] = @ \ {c}]
  /\ resumer' = [resumer EXCEPT ![r] = IF todo[r] = {c} THEN "idle" ELSE @]
  /\ UNCHANGED <<captureVars, diskVars, rowVars, remoteVars, workVars, config,
                 pauseVars, stale, crashes, faults, history>>

\* PATCH recording-config: complete or empty, nothing in between.
SetConfig ==
  /\ config' = ~config
  /\ UNCHANGED <<captureVars, diskVars, rowVars, remoteVars, queueVars, workVars,
                 pauseVars, resumeVars, crashes, faults, history>>

\* The process dies and is started again: the calls are over, what is in
\* memory is lost, and a persisted lock pauses the handoff from the start.
Crash ==
  /\ crashes < MaxCrashes
  /\ crashes' = crashes + 1
  /\ call' = [c \in Calls |-> IF call[c] = "new" THEN "new" ELSE "over"]
  /\ armed' = [c \in Calls |-> call[c] # "new"]
  /\ live' = [c \in Calls |-> "no"] /\ ans' = [c \in Calls |-> "idle"]
  /\ fin' = [c \in Calls |-> "idle"] /\ open' = [c \in Calls |-> FALSE]
  /\ inflight' = {} /\ jobs' = << >>
  /\ wp' = [w \in Workers |-> "idle"] /\ wc' = [w \in Workers |-> NoCall]
  /\ wrow' = [w \in Workers |-> NoRow]
  /\ paused' = (pauser \in {"pausing", "paused"})
  /\ pauser' = IF pauser \in {"pausing", "paused"} THEN "paused" ELSE "idle"
  /\ resumer' = Starting /\ todo' = NoRows /\ stale' = NoStale
  /\ UNCHANGED <<diskVars, rowVars, remoteVars, config, pauses, faults, history>>

-----------------------------------------------------------------------------
Recovery(r) ==
  \/ ResumeCheck(r) \/ ResumeStale(r) \/ ResumePending(r)
  \/ \E c \in Calls : ResumeStat(r, c) \/ ResumeEnqueue(r, c)

Finalize(c) == FinClose(c) \/ FinStore(c) \/ FinRemove(c) \/ FinEnqueue(c)

Answering(c) == OpenWav(c) \/ BeginRow(c) \/ Attach(c)

Next ==
  \/ \E c \in Calls :
       \/ CallStarts(c) \/ CallAnswered(c) \/ Arm(c) \/ OnAnswered(c)
       \/ Answering(c) \/ Capture(c) \/ CallEnds(c) \/ Finalize(c) \/ Sweep(c)
  \/ \E w \in Workers : Work(w)
  \/ \E r \in Recoveries : Recovery(r)
  \/ PauseStarts \/ PauseReturns \/ Unlock \/ Resume \/ SetConfig \/ Crash

Spec == Init /\ [][Next]_vars

(* Fairness.  Goroutines that can go on do so; the ticker sweeps every 30 s,  *)
(* so that a pending row that can be queued again and again is queued.  The   *)
(* ends of calls, pauses, the configuration, faults and crashes are free.     *)
Fairness ==
  /\ \A w \in Workers : WF_vars(Work(w))
  /\ \A c \in Calls : WF_vars(Answering(c)) /\ WF_vars(Finalize(c)) /\ WF_vars(Sweep(c))
  /\ \A r \in Recoveries : WF_vars(Recovery(r))
  /\ WF_vars(Resume)

FairSpec == Spec /\ Fairness

-----------------------------------------------------------------------------
(* Properties. *)

\* "o WAV fica no disco aguardando (nao e perdido)" (README, Gravacao): audio of
\* at least five seconds is on disk or whole in the bucket, through crashes,
\* failed writes and uploads, unless resumeOnBoot took the row of a call that
\* was still being recorded (see ReadyMeansWhole).
AudioNotLost ==
  \A c \in Calls : len[c] = "long" => wav[c] \/ b2[c] = "whole" \/ c \in salvaged

\* A webhook is sent only for a recording that is in the bucket (uploadAndVerify
\* before notify), whatever the row read at the start of the job said.
NotifiedMeansStored == \A c \in Calls : hooks[c] => b2[c] # "none"

\* enqueue's dedupe: a call is in the queue or with a worker, once.
OneWorkerPerCall ==
  \A c \in Calls :
    Cardinality({i \in DOMAIN jobs : jobs[i] = c})
      + Cardinality({w \in Workers : wc[w] = c}) <= 1

\* "pause ve o upload que ja passou do teste" (recording_ctl.go:262): between the
\* return of pause and the unlock no worker touches a row, a WAV or the bucket.
PauseQuiesces ==
  pauser = "paused" => \A w \in Workers : wp[w] \in {"idle", "taken", "busy", "done"}

\* A recording that is delivered or discarded is never taken up again, by a
\* worker, a sweep or a recovery, but for the call of which resumeOnBoot took the
\* live row, and that of which two resumeOnBoot took the row (see
\* SalvagedOnceIsFinal).
DeliveredIsFinal ==
  [][\A c \in Calls :
       status[c] = "skipped" \/ (status[c] = "ready" /\ notified[c]) =>
         status'[c] = status[c] \/ c \in salvaged \/ c \in twice]_vars

\* "Retry com backoff ... persistido e retomado no boot" (README): a pending
\* recording is delivered unless the attempts are used up, the destination is
\* not configured or a migration pauses the handoff.
HandoffEnds ==
  \A c \in Calls :
    Pending(c) ~> ~Pending(c) \/ Attempts(c) >= MaxAttempts \/ ~config \/ paused

\* A call that is over does not stay in the state recording: whoever sees the
\* end, onCallEnded or an onAnswered that was still at work, finalizes it, and
\* after a crash resumeOnBoot does, unless a migration pauses the handoff.
RecordingCloses ==
  \A c \in Calls :
    call[c] = "over" /\ status[c] = "recording" ~>
      status[c] # "recording" \/ paused \/ faults > 0

\* What comments say and the code does not keep.

\* uploadAndVerify "confirms it is really there with a matching size"
\* (recording_handoff.go:57): a ready recording is complete in the bucket.
ReadyMeansWhole == \A c \in Calls : status[c] = "ready" => b2[c] = "whole"

\* resumeOnBoot "recovers recordings interrupted by a restart: a row left in
\* 'recording' is salvaged if its WAV is intact" (recording_handoff.go:149): a
\* recording that was delivered after its recovery does not become a failed one.
SalvagedOnceIsFinal ==
  [][\A c \in Calls :
       status[c] = "ready" /\ notified[c] =>
         status'[c] = "ready" \/ c \in salvaged]_vars
=============================================================================
