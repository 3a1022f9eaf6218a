---------------------------- MODULE RecordingProofs ----------------------------
(***************************************************************************)
(* Proofs about Recording for every set of calls and of workers, and every *)
(* value of the bounds: any queue, any number of attempts, pauses, crashes *)
(* and failed writes; and below, about Recorder.                           *)
(***************************************************************************)
EXTENDS Recording, Recorder, FiniteSetTheorems, SequenceTheorems, TLAPS

RowStatus == {"none", "recording", "uploading", "ready", "failed", "skipped"}
Working == {"upload", "put", "verify", "mark", "unlink", "notify", "ack"}
Control == {"idle", "taken", "busy", "get", "done"} \union Working

\* The shape of the state.
CaptureTyped ==
  /\ call \in [Calls -> {"new", "up", "answered", "over"}]
  /\ armed \in [Calls -> BOOLEAN]
  /\ live \in [Calls -> {"no", "armed", "started", "recording"}]
  /\ ans \in [Calls -> {"idle", "open", "begin", "attach"}]
  /\ fin \in [Calls -> {"idle", "close", "store", "remove", "enqueue"}]
  /\ open \in [Calls -> BOOLEAN]
  /\ len \in [Calls -> {"short", "long"}] /\ wav \in [Calls -> BOOLEAN]
RowsTyped ==
  /\ status \in [Calls -> RowStatus]
  /\ notified \in [Calls -> BOOLEAN]
  /\ b2 \in [Calls -> {"none", "part", "whole"}] /\ hooks \in [Calls -> BOOLEAN]
  /\ resumer \in [Recoveries -> {"idle", "check", "stale", "failed", "skipped", "uploading",
                              "pending"}]
  /\ todo \in [Recoveries -> SUBSET Calls]
  /\ stale \in [Recoveries -> Calls \union {NoCall}]
  /\ \A r \in Recoveries :
       resumer[r] \in {"failed", "skipped", "uploading"} => stale[r] \in todo[r]
  /\ salvaged \subseteq Calls /\ twice \subseteq Calls
  /\ wrow \in [Workers -> [status : RowStatus, notified : BOOLEAN,
                           sent : {"none", "part", "whole"}]]
QueueTyped ==
  /\ inflight \subseteq Calls /\ jobs \in Seq(Calls)
  /\ wp \in [Workers -> Control]
  /\ wc \in [Workers -> Calls \union {NoCall}]
Typed == CaptureTyped /\ RowsTyped /\ QueueTyped

\* enqueue's dedupe: inflight covers the queue and the workers, and no call is
\* there twice.
QueueInv ==
  /\ \A w \in Workers : wp[w] # "idle" => wc[w] \in inflight
  /\ \A w \in Workers : wp[w] = "idle" => wc[w] = NoCall
  /\ \A i \in 1..Len(jobs) : jobs[i] \in inflight
  /\ \A i, j \in 1..Len(jobs) : jobs[i] = jobs[j] => i = j
  /\ \A w \in Workers, i \in 1..Len(jobs) : jobs[i] # wc[w]
  /\ \A v, w \in Workers : wc[v] = wc[w] => v = w \/ wc[v] = NoCall

\* c.paused is set from the lock to the unlock, and no worker passes it.
PauseInv ==
  /\ pauser \in {"pausing", "paused"} => paused
  /\ PauseQuiesces

\* The WAV has yet to be opened, which happens once for a call.
Opening(c) == ~armed[c] \/ live[c] = "armed" \/ ans[c] = "open"

\* The audio is still being captured or the end of it not yet stored.
Capturing(c) == open[c] \/ fin[c] \in {"close", "store"}

\* arm, onAnswered, onCallEnded and finalizeRecording take a recording through
\* its life once, in this order.
LifeOnce ==
  \A c \in Calls :
    /\ call[c] = "new" => ~armed[c]
    /\ ~armed[c] => live[c] = "no" /\ ans[c] = "idle"
    /\ live[c] = "armed" => ans[c] = "idle"
    /\ Opening(c) => ~open[c] /\ ~wav[c] /\ len[c] = "short"
    /\ Opening(c) \/ ans[c] = "begin" =>
         /\ status[c] = "none" /\ fin[c] = "idle" /\ c \notin inflight
         /\ \A r \in Recoveries : c \notin todo[r]
    /\ ans[c] \in {"begin", "attach"} => open[c] /\ fin[c] = "idle"
    /\ live[c] = "started" => ans[c] # "idle"
    /\ live[c] = "recording" => open[c] /\ fin[c] = "idle" /\ ans[c] = "idle"
    /\ fin[c] = "close" => open[c]
    /\ fin[c] \in {"store", "remove", "enqueue"} => ~open[c]
    /\ fin[c] = "remove" => len[c] = "short"

\* A resumeOnBoot has the row of c among those it has to deal with.
Took(r, c) == Salvaging(r) /\ c \in todo[r]

\* Unless resumeOnBoot took a live row: a row is settled only after its audio
\* was captured, a stale row is that of a call nobody records any more, and a
\* worker has a whole WAV.
RowsSettled ==
  \A c \in Calls : c \notin salvaged =>
    /\ Capturing(c) => status[c] \in {"none", "recording"}
    /\ open[c] => wav[c]
    /\ \A r \in Recoveries :
         /\ Took(r, c) => ~open[c] /\ fin[c] = "idle"
         /\ resumer[r] = "skipped" /\ stale[r] = c => len[c] = "short"
    /\ \A w \in Workers : wc[w] = c =>
         /\ wp[w] \in Working => ~Capturing(c)
         /\ wp[w] = "verify" => wrow[w].sent = "whole"
         /\ wp[w] \in {"mark", "unlink"} => b2[c] = "whole"
    /\ len[c] = "long" => wav[c] \/ b2[c] = "whole"

\* Unless two resumeOnBoot took the row, one of them at most has it, and then it
\* still is in recording; and a worker has a row that waits for it.
RowsOnce ==
  \A c \in Calls : c \notin salvaged \union twice =>
    /\ \A r \in Recoveries : Took(r, c) => status[c] = "recording"
    /\ \A r, x \in Recoveries : Took(r, c) /\ Took(x, c) => r = x
    /\ \A w \in Workers :
         wc[w] = c /\ wp[w] \in {"upload", "put", "verify", "mark"} =>
           status[c] \in {"uploading", "failed"}

\* What has been uploaded stays in the bucket.
Stored ==
  /\ \A c \in Calls : status[c] = "ready" \/ hooks[c] => b2[c] # "none"
  /\ \A w \in Workers :
       /\ wp[w] = "verify" => wrow[w].sent # "none"
       /\ wp[w] \in {"mark", "unlink", "notify", "ack"} => b2[wc[w]] # "none"

RecordingInv ==
  Typed /\ QueueInv /\ PauseInv /\ LifeOnce /\ RowsSettled /\ RowsOnce /\ Stored

\* A worker that has a call goes on with it.
GoesOn(w) ==
  /\ wp[w] # "idle"
  /\ \E to \in Control \ {"idle"} : Go(w, to)
  /\ UNCHANGED <<queueVars, wc>>

\* What a step may do to the queue and the workers: the sweep, resumeOnBoot and
\* finalizeRecording enqueue, and each worker takes a call, goes on, or releases it.
LEMMA QueueSteps ==
  [Next]_vars =>
    \/ UNCHANGED <<inflight, jobs, wp, wc>>
    \/ \E c \in Calls : Enqueue(c) /\ UNCHANGED <<wp, wc>>
    \/ \E w \in Workers : Take(w) \/ GoesOn(w) \/ Release(w)
    \/ Crash
<1> SUFFICES ASSUME Next
             PROVE  \/ UNCHANGED <<inflight, jobs, wp, wc>>
                    \/ \E c \in Calls : Enqueue(c) /\ UNCHANGED <<wp, wc>>
                    \/ \E w \in Workers : Take(w) \/ GoesOn(w) \/ Release(w)
                    \/ Crash
  BY DEF vars
<1> USE DEF queueVars, workVars
<1>1. ASSUME NEW c \in Calls,
             CallStarts(c) \/ CallAnswered(c) \/ Arm(c) \/ OnAnswered(c) \/ Answering(c)
               \/ Capture(c) \/ CallEnds(c) \/ Finalize(c) \/ Sweep(c)
      PROVE  UNCHANGED <<inflight, jobs, wp, wc>> \/ (Enqueue(c) /\ UNCHANGED <<wp, wc>>)
  BY <1>1 DEF CallStarts, CallAnswered, Arm, OnAnswered, Answering, OpenWav, BeginRow,
              Attach, Capture, CallEnds, Finalize, FinClose, FinStore, FinRemove,
              FinEnqueue, Sweep
<1>2. ASSUME NEW w \in Workers, Work(w) PROVE Take(w) \/ GoesOn(w) \/ Release(w)
  BY <1>2 DEF Work, GoesOn, Control, Working, Go, MarkBusy, CheckPaused, GetRow, Upload, Put,
              Verify, MarkUploaded, Unlink, Notify, MarkNotified
<1>3. CASE PauseStarts \/ PauseReturns \/ Unlock \/ Resume \/ SetConfig
  BY <1>3 DEF PauseStarts, PauseReturns, Unlock, Resume, SetConfig
<1>4. ASSUME NEW r \in Recoveries, ResumeCheck(r) \/ ResumeStale(r) \/ ResumePending(r)
      PROVE  UNCHANGED <<inflight, jobs, wp, wc>>
  BY <1>4 DEF ResumeCheck, ResumeStale, ResumePending
<1>5. ASSUME NEW r \in Recoveries, NEW c \in Calls, ResumeStat(r, c) \/ ResumeEnqueue(r, c)
      PROVE  UNCHANGED <<inflight, jobs, wp, wc>> \/ (Enqueue(c) /\ UNCHANGED <<wp, wc>>)
  BY <1>5 DEF ResumeStat, ResumeEnqueue
<1> QED BY <1>1, <1>2, <1>3, <1>4, <1>5 DEF Next, Recovery

\* enqueue and the end of processRecording (recording_handoff.go) keep the dedupe.
LEMMA QueueStep == QueueTyped /\ QueueInv /\ [Next]_vars => QueueTyped' /\ QueueInv'
<1> SUFFICES ASSUME QueueTyped, QueueInv, [Next]_vars PROVE QueueTyped' /\ QueueInv'
  OBVIOUS
<1> USE CallsAssumption DEF QueueTyped, QueueInv, queueVars, workVars
<1>1. CASE UNCHANGED <<inflight, jobs, wp, wc>>
  BY <1>1
<1>2. ASSUME NEW c \in Calls, Enqueue(c), UNCHANGED <<wp, wc>>
      PROVE  QueueTyped' /\ QueueInv'
  <2>1. CASE c \notin inflight /\ jobs' = Append(jobs, c) /\ inflight' = inflight \union {c}
    <3>1. /\ jobs' \in Seq(Calls) /\ Len(jobs') = Len(jobs) + 1 /\ Len(jobs) \in Nat
          /\ jobs'[Len(jobs) + 1] = c
          /\ \A i \in 1..Len(jobs) : jobs'[i] = jobs[i]
      BY <2>1
    <3>2. \A i \in 1..Len(jobs') : i = Len(jobs) + 1 \/ i \in 1..Len(jobs)
      BY <3>1
    <3>3. \A w \in Workers : wc[w] # c
      BY <2>1
    <3>4. \A i \in 1..Len(jobs) : jobs[i] # c
      BY <2>1
    <3> QED BY <1>2, <2>1, <3>1, <3>2, <3>3, <3>4
  <2>2. CASE UNCHANGED queueVars
    BY <1>2, <2>2
  <2> QED BY <1>2, <2>1, <2>2 DEF Enqueue
<1>3. ASSUME NEW w \in Workers, Take(w) PROVE QueueTyped' /\ QueueInv'
  <2>1. /\ jobs # << >> /\ jobs' = Tail(jobs) /\ inflight' = inflight
        /\ wp[w] = "idle" /\ wp' = [wp EXCEPT ![w] = "taken"]
        /\ wc' = [wc EXCEPT ![w] = jobs[1]]
    BY <1>3 DEF Take, Go
  <2>2. /\ Len(jobs) \in Nat \ {0} /\ jobs[1] \in Calls
        /\ jobs' \in Seq(Calls) /\ Len(jobs') = Len(jobs) - 1
        /\ \A i \in 1..Len(jobs') : jobs'[i] = jobs[i + 1] /\ i + 1 \in 1..Len(jobs)
    BY <2>1
  <2>3. QueueTyped'
    BY <2>1, <2>2 DEF Control
  <2>4. \A i, j \in 1..Len(jobs') : jobs'[i] = jobs'[j] => i = j
    <3> SUFFICES ASSUME NEW i \in 1..Len(jobs'), NEW j \in 1..Len(jobs'), jobs'[i] = jobs'[j]
                 PROVE  i = j
      OBVIOUS
    <3>1. i + 1 = j + 1
      BY <2>2
    <3>2. i \in Int /\ j \in Int
      OBVIOUS
    <3> HIDE DEF QueueTyped, QueueInv
    <3> QED BY <3>1, <3>2
  <2>5. \A i \in 1..Len(jobs') : jobs'[i] # jobs[1]
    BY <2>2
  <2>6. \A v \in Workers : v # w => wp'[v] = wp[v] /\ wc'[v] = wc[v]
    BY <2>1
  <2>7. wp'[w] = "taken" /\ wc'[w] = jobs[1] /\ jobs[1] \in inflight /\ jobs[1] # NoCall
    BY <2>1, <2>2
  <2>8. \A v \in Workers : wc[v] # jobs[1]
    BY <2>2
  <2>9. \A v \in Workers, i \in 1..Len(jobs') : jobs'[i] # wc'[v]
    BY <2>2, <2>5, <2>6, <2>7
  <2>10. \A v, x \in Workers : wc'[v] = wc'[x] => v = x \/ wc'[v] = NoCall
    BY <2>6, <2>7, <2>8
  <2>11. \A i \in 1..Len(jobs') : jobs'[i] \in inflight'
    BY <2>1, <2>2
  <2>12. \A v \in Workers : wp'[v] # "idle" => wc'[v] \in inflight'
    BY <2>1, <2>6, <2>7
  <2>13. \A v \in Workers : wp'[v] = "idle" => wc'[v] = NoCall
    BY <2>6, <2>7
  <2> HIDE DEF QueueTyped
  <2>14. QueueInv'
    BY <2>4, <2>9, <2>10, <2>11, <2>12, <2>13
  <2> QED BY <2>3, <2>14, Zenon
<1>4. ASSUME NEW w \in Workers, GoesOn(w) PROVE QueueTyped' /\ QueueInv'
  BY <1>4 DEF GoesOn, Go
<1>5. ASSUME NEW w \in Workers, Release(w) PROVE QueueTyped' /\ QueueInv'
  BY <1>5 DEF Release, Go, Control
<1>6. CASE Crash
  BY <1>6 DEF Crash, Control
<1> QED BY <1>1, <1>2, <1>3, <1>4, <1>5, <1>6, QueueSteps

\* pause and CheckPaused (recording_ctl.go:262): a worker that is past the look
\* at paused is busy, and pause returns when none is.
LEMMA PauseStep == QueueTyped /\ PauseInv /\ [Next]_vars => PauseInv'
<1> SUFFICES ASSUME QueueTyped, PauseInv, [Next]_vars PROVE PauseInv'
  OBVIOUS
<1> USE DEF QueueTyped, PauseInv, PauseQuiesces, Control, Working, pauseVars, workVars, Go
<1>1. CASE UNCHANGED <<wp, paused, pauser>>
  BY <1>1
<1>2. ASSUME NEW w \in Workers, Work(w) PROVE PauseInv'
  <2>1. CASE Take(w) \/ MarkBusy(w) \/ Release(w)
    BY <2>1 DEF Take, MarkBusy, Release
  <2>2. CASE CheckPaused(w)
    BY <2>2 DEF CheckPaused
  <2>3. CASE GetRow(w) \/ Upload(w) \/ Put(w) \/ Verify(w)
    BY <2>3 DEF GetRow, Upload, Put, Verify
  <2>4. CASE MarkUploaded(w) \/ Unlink(w) \/ Notify(w) \/ MarkNotified(w)
    BY <2>4 DEF MarkUploaded, Unlink, Notify, MarkNotified
  <2> QED BY <1>2, <2>1, <2>2, <2>3, <2>4 DEF Work
<1>3. CASE PauseStarts
  BY <1>3 DEF PauseStarts
<1>4. CASE PauseReturns
  BY <1>4 DEF PauseReturns, Busy
<1>5. CASE Unlock \/ Resume
  BY <1>5 DEF Unlock, Resume
<1>6. CASE Crash
  BY <1>6 DEF Crash
<1>7. ASSUME NEW c \in Calls,
             CallStarts(c) \/ CallAnswered(c) \/ Arm(c) \/ OnAnswered(c) \/ Answering(c)
               \/ Capture(c) \/ CallEnds(c) \/ Finalize(c) \/ Sweep(c)
      PROVE  UNCHANGED <<wp, paused, pauser>>
  BY <1>7 DEF CallStarts, CallAnswered, Arm, OnAnswered, Answering, OpenWav, BeginRow,
              Attach, Capture, CallEnds, Finalize, FinClose, FinStore, FinRemove,
              FinEnqueue, Sweep
<1>8. CASE SetConfig \/ \E r \in Recoveries : Recovery(r)
  BY <1>8 DEF Recovery, ResumeCheck, ResumeStat, ResumeStale, ResumePending, ResumeEnqueue,
              SetConfig
<1>9. CASE UNCHANGED vars
  BY <1>9 DEF vars
<1> QED BY <1>1, <1>2, <1>3, <1>4, <1>5, <1>6, <1>7, <1>8, <1>9 DEF Next

\* The life of a recording keeps its shape (recording_ctl.go).
LEMMA CaptureTypedStep == CaptureTyped /\ [Next]_vars => CaptureTyped'
<1> SUFFICES ASSUME CaptureTyped, [Next]_vars PROVE CaptureTyped'
  OBVIOUS
<1> USE DEF CaptureTyped, captureVars, diskVars
<1>1. CASE UNCHANGED <<captureVars, diskVars>>
  BY <1>1
<1>2. ASSUME NEW c \in Calls,
             CallStarts(c) \/ CallAnswered(c) \/ Arm(c) \/ OnAnswered(c) \/ Answering(c)
               \/ Capture(c) \/ CallEnds(c) \/ Finalize(c) \/ Sweep(c)
      PROVE CaptureTyped'
  <2>1. CASE CallStarts(c) \/ CallAnswered(c) \/ Arm(c)
    BY <2>1 DEF CallStarts, CallAnswered, Arm
  <2>2. CASE OnAnswered(c)
    BY <2>2 DEF OnAnswered
  <2>3. CASE OpenWav(c)
    BY <2>3 DEF OpenWav
  <2>4. CASE BeginRow(c) \/ Capture(c)
    BY <2>4 DEF BeginRow, Capture
  <2>5. CASE Attach(c)
    BY <2>5 DEF Attach
  <2>6. CASE CallEnds(c)
    BY <2>6 DEF CallEnds
  <2>7. CASE FinClose(c)
    BY <2>7 DEF FinClose
  <2>8. CASE FinStore(c) \/ FinRemove(c) \/ FinEnqueue(c)
    BY <2>8, ZenonT(30) DEF FinStore, FinRemove, FinEnqueue
  <2>9. CASE Sweep(c)
    BY <2>9 DEF Sweep
  <2> QED BY <1>2, <2>1, <2>2, <2>3, <2>4, <2>5, <2>6, <2>7, <2>8, <2>9 DEF Answering, Finalize
<1>3. ASSUME NEW w \in Workers, Work(w) PROVE CaptureTyped'
  <2>1. CASE Unlink(w)
    BY <2>1 DEF Unlink
  <2>2. CASE UNCHANGED <<captureVars, diskVars>>
    BY <2>2
  <2> QED BY <1>3, <2>1, <2>2 DEF Work, Take, MarkBusy, CheckPaused, GetRow, Upload, Put, Verify,
             MarkUploaded, Notify, MarkNotified, Release
<1>4. ASSUME NEW r \in Recoveries, ResumeStale(r) PROVE CaptureTyped'
  BY <1>4 DEF ResumeStale
<1>5. CASE Crash
  BY <1>5 DEF Crash
<1>6. CASE \/ PauseStarts \/ PauseReturns \/ Unlock \/ Resume \/ SetConfig
           \/ \E r \in Recoveries : ResumeCheck(r) \/ ResumePending(r)
           \/ \E r \in Recoveries, c \in Calls : ResumeStat(r, c) \/ ResumeEnqueue(r, c)
  BY <1>6 DEF PauseStarts, PauseReturns, Unlock, Resume, ResumeCheck, ResumePending,
              SetConfig, ResumeStat, ResumeEnqueue
<1>7. CASE UNCHANGED vars
  BY <1>7 DEF vars
<1> QED BY <1>1, <1>2, <1>3, <1>4, <1>5, <1>6, <1>7 DEF Next, Recovery

\* Every status a row takes is one of recordingstore.go, and the bucket holds a
\* part of a WAV or all of it.
LEMMA RowsTypedStep ==
  RowsTyped /\ QueueTyped /\ QueueInv /\ [Next]_vars => RowsTyped'
<1> SUFFICES ASSUME RowsTyped, QueueTyped, QueueInv, [Next]_vars PROVE RowsTyped'
  OBVIOUS
<1> USE DEF RowsTyped, RowStatus, rowVars, remoteVars, workVars, resumeVars, history
<1>0. \A w \in Workers : wp[w] # "idle" => wc[w] \in Calls
  BY DEF QueueTyped, QueueInv
<1>1. CASE UNCHANGED <<rowVars, remoteVars, workVars, resumeVars, history>>
  BY <1>1
<1>2. ASSUME NEW c \in Calls,
             CallStarts(c) \/ CallAnswered(c) \/ Arm(c) \/ OnAnswered(c) \/ Answering(c)
               \/ Capture(c) \/ CallEnds(c) \/ Finalize(c) \/ Sweep(c)
      PROVE RowsTyped'
  <2>1. CASE BeginRow(c) \/ CallEnds(c)
    BY <2>1 DEF BeginRow, Begin, CallEnds, InsertSkipped
  <2>2. CASE FinClose(c) \/ FinStore(c)
    BY <2>2 DEF FinClose, FinStore, SetStatus
  <2>3. CASE UNCHANGED <<rowVars, remoteVars, workVars, resumeVars, history>>
    BY <2>3
  <2> QED BY <1>2, <2>1, <2>2, <2>3 DEF CallStarts, CallAnswered, Arm, OnAnswered, Answering,
             OpenWav, Attach, Capture, Finalize, FinRemove, FinEnqueue, Sweep
<1>3. ASSUME NEW w \in Workers, Work(w) PROVE RowsTyped'
  <2>1. CASE Take(w) \/ MarkBusy(w) \/ CheckPaused(w) \/ Unlink(w)
    BY <2>1 DEF Take, MarkBusy, CheckPaused, Unlink
  <2>2. CASE GetRow(w)
    BY <1>0, <2>2 DEF GetRow
  <2>3. CASE Upload(w) \/ MarkUploaded(w)
    BY <1>0, <2>3 DEF Upload, SetStatus, MarkUploaded
  <2>4. CASE Put(w)
    BY <1>0, <2>4 DEF Put, SetStatus
  <2>5. CASE Verify(w)
    BY <1>0, <2>5 DEF Verify, SetStatus
  <2>6. CASE Notify(w)
    BY <1>0, <2>6 DEF Notify
  <2>7. CASE MarkNotified(w)
    BY <1>0, <2>7 DEF MarkNotified
  <2>8. CASE Release(w)
    BY <2>8 DEF Release, NoRow
  <2> QED BY <1>3, <2>1, <2>2, <2>3, <2>4, <2>5, <2>6, <2>7, <2>8 DEF Work
<1>4. ASSUME NEW r \in Recoveries, Recovery(r) PROVE RowsTyped'
  <2>1. CASE ResumeCheck(r)
    BY <2>1 DEF ResumeCheck
  <2>2. ASSUME NEW c \in Calls, ResumeStat(r, c) PROVE RowsTyped'
    BY <2>2 DEF ResumeStat
  <2>3. CASE ResumeStale(r)
    BY <2>3 DEF ResumeStale, SetStatus
  <2>4. CASE ResumePending(r)
    BY <2>4 DEF ResumePending
  <2>5. ASSUME NEW c \in Calls, ResumeEnqueue(r, c) PROVE RowsTyped'
    BY <2>5 DEF ResumeEnqueue
  <2> QED BY <1>4, <2>1, <2>2, <2>3, <2>4, <2>5 DEF Recovery
<1>5. CASE Crash
  BY <1>5 DEF Crash, NoRow, Starting, NoRows, NoStale
<1>6. CASE Resume
  BY <1>6 DEF Resume
<1>7. CASE PauseStarts \/ PauseReturns \/ Unlock \/ SetConfig
  BY <1>7 DEF PauseStarts, PauseReturns, Unlock, SetConfig
<1>8. CASE UNCHANGED vars
  BY <1>8 DEF vars
<1> QED BY <1>1, <1>2, <1>3, <1>4, <1>5, <1>6, <1>7, <1>8 DEF Next

\* Every step of a recording goes on with its life (recording_ctl.go): armed once,
\* opened once, closed once.
LEMMA LifeStep == Typed /\ QueueInv /\ LifeOnce /\ [Next]_vars => LifeOnce'
<1> SUFFICES ASSUME Typed, QueueInv, LifeOnce, [Next]_vars PROVE LifeOnce'
  OBVIOUS
<1> USE DEF Typed, CaptureTyped, RowsTyped, QueueTyped, QueueInv, LifeOnce, Opening, RowStatus,
            captureVars, diskVars, rowVars, remoteVars, queueVars, workVars,
            pauseVars, resumeVars, history
<1>1. CASE UNCHANGED vars
  BY <1>1 DEF vars
<1>2. ASSUME NEW c \in Calls,
             CallStarts(c) \/ CallAnswered(c) \/ Arm(c) \/ OnAnswered(c) \/ Answering(c)
               \/ Capture(c) \/ CallEnds(c) \/ Finalize(c) \/ Sweep(c)
      PROVE LifeOnce'
  <2>1. CASE CallStarts(c)
    BY <2>1 DEF CallStarts
  <2>2. CASE CallAnswered(c)
    BY <2>2 DEF CallAnswered
  <2>3. CASE Arm(c)
    BY <2>3 DEF Arm
  <2>4. CASE OnAnswered(c)
    BY <2>4 DEF OnAnswered
  <2>5. CASE OpenWav(c)
    BY <2>5 DEF OpenWav
  <2>6. CASE BeginRow(c)
    BY <2>6 DEF BeginRow, Begin
  <2>7. CASE Attach(c)
    BY <2>7 DEF Attach
  <2>8. CASE Capture(c)
    BY <2>8 DEF Capture
  <2>9. CASE CallEnds(c)
    BY <2>9 DEF CallEnds, InsertSkipped
  <2>10. CASE FinClose(c)
    BY <2>10 DEF FinClose
  <2>11. CASE FinStore(c)
    BY <2>11 DEF FinStore, SetStatus
  <2>12. CASE FinRemove(c)
    BY <2>12 DEF FinRemove
  <2>13. CASE FinEnqueue(c)
    BY <2>13 DEF FinEnqueue, Enqueue
  <2>14. CASE Sweep(c)
    BY <2>14 DEF Sweep, Enqueue, Pending
  <2> QED BY <1>2, <2>1, <2>2, <2>3, <2>4, <2>5, <2>6, <2>7, <2>8, <2>9, <2>10, <2>11,
             <2>12, <2>13, <2>14 DEF Answering, Finalize
<1>3. ASSUME NEW w \in Workers, Work(w) PROVE LifeOnce'
  <2>1. CASE Take(w)
    BY <2>1 DEF Take, Go
  <2>2. CASE MarkBusy(w)
    BY <2>2 DEF MarkBusy, Go
  <2>3. CASE CheckPaused(w)
    BY <2>3 DEF CheckPaused, Go
  <2>4. CASE GetRow(w)
    BY <2>4 DEF GetRow, Go, Pending
  <2>5. CASE Upload(w)
    BY <2>5 DEF Upload, Go, SetStatus
  <2>6. CASE Put(w)
    BY <2>6 DEF Put, Go, SetStatus
  <2>7. CASE Verify(w)
    BY <2>7 DEF Verify, Go, SetStatus
  <2>8. CASE MarkUploaded(w)
    BY <2>8 DEF MarkUploaded, Go
  <2>9. CASE Unlink(w)
    BY <2>9 DEF Unlink, Go
  <2>10. CASE Notify(w)
    BY <2>10 DEF Notify, Go
  <2>11. CASE MarkNotified(w)
    BY <2>11 DEF MarkNotified, Go
  <2>12. CASE Release(w)
    BY <2>12 DEF Release, Go
  <2> QED BY <1>3, <2>1, <2>2, <2>3, <2>4, <2>5, <2>6, <2>7, <2>8, <2>9, <2>10, <2>11,
             <2>12 DEF Work
<1>4. CASE PauseStarts
  BY <1>4 DEF PauseStarts
<1>5. CASE PauseReturns
  BY <1>5 DEF PauseReturns, Busy
<1>6. CASE Unlock
  BY <1>6 DEF Unlock
<1>7. CASE Resume
  BY <1>7 DEF Resume
<1>8. ASSUME NEW r \in Recoveries, Recovery(r) PROVE LifeOnce'
  <2>1. CASE ResumeCheck(r)
    BY <2>1 DEF ResumeCheck
  <2>2. ASSUME NEW c \in Calls, ResumeStat(r, c) PROVE LifeOnce'
    BY <2>2 DEF ResumeStat
  <2>3. CASE ResumeStale(r)
    BY <2>3 DEF ResumeStale, SetStatus
  <2>4. CASE ResumePending(r)
    BY <2>4 DEF ResumePending, Pending
  <2>5. ASSUME NEW c \in Calls, ResumeEnqueue(r, c) PROVE LifeOnce'
    BY <2>5 DEF ResumeEnqueue, Enqueue
  <2> QED BY <1>8, <2>1, <2>2, <2>3, <2>4, <2>5 DEF Recovery
<1>9. CASE SetConfig
  BY <1>9 DEF SetConfig
<1>10. CASE Crash
  BY <1>10 DEF Crash, NoRow, Starting, NoRows, NoStale
<1> QED BY <1>1, <1>2, <1>3, <1>4, <1>5, <1>6, <1>7, <1>8, <1>9, <1>10 DEF Next

\* Whoever writes a row or removes a WAV (recording_ctl.go, recording_handoff.go)
\* does so at the right time of the recording's life, but for resumeOnBoot.
LEMMA SettledStep ==
  Typed /\ QueueInv /\ LifeOnce /\ RowsSettled /\ [Next]_vars => RowsSettled'
<1> SUFFICES ASSUME Typed, QueueInv, LifeOnce, RowsSettled, [Next]_vars
             PROVE  RowsSettled'
  OBVIOUS
<1> USE DEF Typed, CaptureTyped, RowsTyped, QueueTyped, QueueInv, LifeOnce, Opening, RowStatus,
            RowsSettled, Capturing, Working, Took, Salvaging,
            captureVars, diskVars, rowVars, remoteVars, queueVars, workVars,
            pauseVars, resumeVars, history
<1>1. CASE UNCHANGED vars
  BY <1>1 DEF vars
<1>2. ASSUME NEW c \in Calls,
             CallStarts(c) \/ CallAnswered(c) \/ Arm(c) \/ OnAnswered(c) \/ Answering(c)
               \/ Capture(c) \/ CallEnds(c) \/ Finalize(c) \/ Sweep(c)
      PROVE RowsSettled'
  <2>1. CASE CallStarts(c)
    BY <2>1 DEF CallStarts
  <2>2. CASE CallAnswered(c)
    BY <2>2 DEF CallAnswered
  <2>3. CASE Arm(c)
    BY <2>3 DEF Arm
  <2>4. CASE OnAnswered(c)
    BY <2>4 DEF OnAnswered
  <2>5. CASE OpenWav(c)
    BY <2>5 DEF OpenWav
  <2>6. CASE BeginRow(c)
    BY <2>6 DEF BeginRow, Begin
  <2>7. CASE Attach(c)
    BY <2>7 DEF Attach
  <2>8. CASE Capture(c)
    BY <2>8 DEF Capture
  <2>9. CASE CallEnds(c)
    BY <2>9 DEF CallEnds, InsertSkipped
  <2>10. CASE FinClose(c)
    BY <2>10 DEF FinClose
  <2>11. CASE FinStore(c)
    BY <2>11 DEF FinStore, SetStatus
  <2>12. CASE FinRemove(c)
    BY <2>12 DEF FinRemove
  <2>13. CASE FinEnqueue(c)
    BY <2>13 DEF FinEnqueue, Enqueue
  <2>14. CASE Sweep(c)
    BY <2>14 DEF Sweep, Enqueue, Pending
  <2> QED BY <1>2, <2>1, <2>2, <2>3, <2>4, <2>5, <2>6, <2>7, <2>8, <2>9, <2>10, <2>11,
             <2>12, <2>13, <2>14 DEF Answering, Finalize
<1>3. ASSUME NEW w \in Workers, Work(w) PROVE RowsSettled'
  <2>1. CASE Take(w)
    BY <2>1 DEF Take, Go
  <2>2. CASE MarkBusy(w)
    BY <2>2 DEF MarkBusy, Go
  <2>3. CASE CheckPaused(w)
    BY <2>3 DEF CheckPaused, Go
  <2>4. CASE GetRow(w)
    BY <2>4 DEF GetRow, Go, Pending
  <2>5. CASE Upload(w)
    BY <2>5 DEF Upload, Go, SetStatus
  <2>6. CASE Put(w)
    BY <2>6 DEF Put, Go, SetStatus
  <2>7. CASE Verify(w)
    BY <2>7 DEF Verify, Go, SetStatus
  <2>8. CASE MarkUploaded(w)
    <3>1. /\ wp[w] = "mark" /\ wc[w] \in Calls
          /\ UNCHANGED <<captureVars, diskVars, b2, wc, wrow, resumeVars, history>>
      BY <2>8 DEF MarkUploaded
    <3>2. CASE /\ wp' = [wp EXCEPT ![w] = "unlink"]
               /\ status' = [status EXCEPT ![wc[w]] = "ready"]
      <4>1. wc[w] \notin salvaged => ~Capturing(wc[w])
        BY <3>1, SMTT(20)
      <4>2. \A v \in Workers : v # w => wc[v] # wc[w] /\ wp'[v] = wp[v]
        BY <3>1, <3>2, CallsAssumption
      <4> QED BY <3>1, <3>2, <4>1, <4>2
    <3>3. CASE wp' = [wp EXCEPT ![w] = "done"] /\ UNCHANGED status
      BY <3>1, <3>3
    <3> QED BY <2>8, <3>2, <3>3 DEF MarkUploaded, Go
  <2>9. CASE Unlink(w)
    BY <2>9 DEF Unlink, Go
  <2>10. CASE Notify(w)
    BY <2>10 DEF Notify, Go
  <2>11. CASE MarkNotified(w)
    BY <2>11 DEF MarkNotified, Go
  <2>12. CASE Release(w)
    BY <2>12 DEF Release, Go
  <2> QED BY <1>3, <2>1, <2>2, <2>3, <2>4, <2>5, <2>6, <2>7, <2>8, <2>9, <2>10, <2>11,
             <2>12 DEF Work
<1>4. CASE PauseStarts
  BY <1>4 DEF PauseStarts
<1>5. CASE PauseReturns
  BY <1>5 DEF PauseReturns, Busy
<1>6. CASE Unlock
  BY <1>6 DEF Unlock
<1>7. CASE Resume
  BY <1>7 DEF Resume
<1>8. ASSUME NEW r \in Recoveries, Recovery(r) PROVE RowsSettled'
  <2>1. CASE ResumeCheck(r)
    BY <2>1 DEF ResumeCheck
  <2>2. ASSUME NEW c \in Calls, ResumeStat(r, c) PROVE RowsSettled'
    BY <2>2 DEF ResumeStat
  <2>3. CASE ResumeStale(r)
    BY <2>3 DEF ResumeStale, SetStatus
  <2>4. CASE ResumePending(r)
    BY <2>4 DEF ResumePending, Pending
  <2>5. ASSUME NEW c \in Calls, ResumeEnqueue(r, c) PROVE RowsSettled'
    BY <2>5 DEF ResumeEnqueue, Enqueue
  <2> QED BY <1>8, <2>1, <2>2, <2>3, <2>4, <2>5 DEF Recovery
<1>9. CASE SetConfig
  BY <1>9 DEF SetConfig
<1>10. CASE Crash
  BY <1>10 DEF Crash, NoRow, Starting, NoRows, NoStale
<1> QED BY <1>1, <1>2, <1>3, <1>4, <1>5, <1>6, <1>7, <1>8, <1>9, <1>10 DEF Next

\* A row that one resumeOnBoot took at most is written by that one alone, until
\* it is settled (recording_handoff.go).
LEMMA OnceStep ==
  Typed /\ QueueInv /\ LifeOnce /\ RowsSettled /\ RowsOnce /\ [Next]_vars => RowsOnce'
<1> SUFFICES ASSUME Typed, QueueInv, LifeOnce, RowsSettled, RowsOnce, [Next]_vars
             PROVE  RowsOnce'
  OBVIOUS
<1> USE DEF Typed, CaptureTyped, RowsTyped, QueueTyped, QueueInv, LifeOnce, Opening, RowStatus,
            RowsSettled, RowsOnce, Capturing, Working, Took, Salvaging,
            captureVars, diskVars, rowVars, remoteVars, queueVars, workVars,
            pauseVars, resumeVars, history
<1>1. CASE UNCHANGED <<status, workVars, resumeVars, history>>
  BY <1>1
<1>2. ASSUME NEW c \in Calls,
             CallStarts(c) \/ CallAnswered(c) \/ Arm(c) \/ OnAnswered(c) \/ Answering(c)
               \/ Capture(c) \/ CallEnds(c) \/ Finalize(c) \/ Sweep(c)
      PROVE RowsOnce'
  <2>1. CASE BeginRow(c)
    BY <2>1 DEF BeginRow, Begin
  <2>2. CASE CallEnds(c)
    BY <2>2 DEF CallEnds, InsertSkipped
  <2>3. CASE FinClose(c)
    BY <2>3 DEF FinClose
  <2>4. CASE FinStore(c)
    BY <2>4 DEF FinStore, SetStatus
  <2>5. CASE \/ CallStarts(c) \/ CallAnswered(c) \/ Arm(c) \/ OnAnswered(c) \/ OpenWav(c)
             \/ Attach(c) \/ Capture(c) \/ FinRemove(c) \/ FinEnqueue(c) \/ Sweep(c)
    BY <1>1, <2>5 DEF CallStarts, CallAnswered, Arm, OnAnswered, OpenWav, Attach, Capture,
       FinRemove, FinEnqueue, Sweep
  <2> QED BY <1>2, <2>1, <2>2, <2>3, <2>4, <2>5 DEF Answering, Finalize
<1>3. ASSUME NEW w \in Workers, Work(w) PROVE RowsOnce'
  <2>1. CASE Take(w)
    BY <2>1 DEF Take, Go
  <2>2. CASE MarkBusy(w) \/ CheckPaused(w)
    BY <2>2 DEF MarkBusy, CheckPaused, Go
  <2>3. CASE GetRow(w)
    BY <2>3 DEF GetRow, Go, Pending
  <2>4. CASE Upload(w)
    BY <2>4 DEF Upload, Go, SetStatus
  <2>5. CASE Put(w)
    BY <2>5 DEF Put, Go, SetStatus
  <2>6. CASE Verify(w)
    BY <2>6 DEF Verify, Go, SetStatus
  <2>7. CASE MarkUploaded(w)
    <3>1. /\ wp[w] = "mark" /\ wc[w] \in Calls
          /\ UNCHANGED <<wc, resumeVars, history>>
      BY <2>7 DEF MarkUploaded
    <3>2. CASE /\ wp' = [wp EXCEPT ![w] = "unlink"]
               /\ status' = [status EXCEPT ![wc[w]] = "ready"]
      <4>1. \A v \in Workers : v # w => wc[v] # wc[w] /\ wp'[v] = wp[v]
        BY <3>1, <3>2, CallsAssumption
      <4>2. wc[w] \notin salvaged \union twice =>
              \A r \in Recoveries : ~Took(r, wc[w])
        BY <3>1
      <4> QED BY <3>1, <3>2, <4>1, <4>2
    <3>3. CASE wp' = [wp EXCEPT ![w] = "done"] /\ UNCHANGED status
      BY <3>1, <3>3
    <3> QED BY <2>7, <3>2, <3>3 DEF MarkUploaded, Go
  <2>8. CASE Unlink(w) \/ Notify(w) \/ MarkNotified(w)
    BY <2>8 DEF Unlink, Notify, MarkNotified, Go
  <2>9. CASE Release(w)
    BY <2>9 DEF Release, Go
  <2> QED BY <1>3, <2>1, <2>2, <2>3, <2>4, <2>5, <2>6, <2>7, <2>8, <2>9 DEF Work
<1>4. ASSUME NEW r \in Recoveries, Recovery(r) PROVE RowsOnce'
  <2>1. CASE ResumeCheck(r)
    BY <2>1 DEF ResumeCheck
  <2>2. ASSUME NEW c \in Calls, ResumeStat(r, c) PROVE RowsOnce'
    BY <2>2 DEF ResumeStat
  <2>3. CASE ResumeStale(r)
    BY <2>3 DEF ResumeStale, SetStatus
  <2>4. CASE ResumePending(r)
    BY <2>4 DEF ResumePending
  <2>5. ASSUME NEW c \in Calls, ResumeEnqueue(r, c) PROVE RowsOnce'
    BY <2>5 DEF ResumeEnqueue
  <2> QED BY <1>4, <2>1, <2>2, <2>3, <2>4, <2>5 DEF Recovery
<1>5. CASE Resume
  BY <1>5 DEF Resume
<1>6. CASE PauseStarts \/ PauseReturns \/ Unlock \/ SetConfig
  BY <1>1, <1>6 DEF PauseStarts, PauseReturns, Unlock, SetConfig
<1>7. CASE Crash
  BY <1>7 DEF Crash, Starting
<1>8. CASE UNCHANGED vars
  BY <1>1, <1>8 DEF vars
<1> QED BY <1>2, <1>3, <1>4, <1>5, <1>6, <1>7, <1>8 DEF Next

\* uploadAndVerify comes before notify (recording_handoff.go), and nothing takes an
\* object out of the bucket.
LEMMA StoredStep == Typed /\ QueueInv /\ Stored /\ [Next]_vars => Stored'
<1> SUFFICES ASSUME Typed, QueueInv, Stored, [Next]_vars PROVE Stored'
  OBVIOUS
<1> USE DEF Typed, RowsTyped, QueueTyped, QueueInv, RowStatus, Control, Working, Stored,
            rowVars, remoteVars, queueVars, workVars, Go
<1>1. CASE UNCHANGED <<rowVars, remoteVars, workVars>>
  BY <1>1
<1>2. ASSUME NEW c \in Calls,
             CallStarts(c) \/ CallAnswered(c) \/ Arm(c) \/ OnAnswered(c) \/ Answering(c)
               \/ Capture(c) \/ CallEnds(c) \/ Finalize(c) \/ Sweep(c)
      PROVE Stored'
  <2>1. CASE BeginRow(c) \/ CallEnds(c)
    BY <2>1 DEF BeginRow, Begin, CallEnds, InsertSkipped
  <2>2. CASE FinClose(c) \/ FinStore(c)
    BY <2>2 DEF FinClose, FinStore, SetStatus
  <2>3. CASE UNCHANGED <<rowVars, remoteVars, workVars>>
    BY <2>3
  <2> QED BY <1>2, <2>1, <2>2, <2>3 DEF CallStarts, CallAnswered, Arm, OnAnswered, Answering,
             OpenWav, Attach, Capture, Finalize, FinRemove, FinEnqueue, Sweep
<1>3. ASSUME NEW w \in Workers, Work(w) PROVE Stored'
  <2>1. CASE Take(w) \/ MarkBusy(w) \/ CheckPaused(w)
    BY <2>1 DEF Take, MarkBusy, CheckPaused
  <2>2. CASE GetRow(w)
    BY <2>2 DEF GetRow, Pending
  <2>3. CASE Upload(w)
    BY <2>3 DEF Upload, SetStatus
  <2>4. CASE Put(w)
    BY <2>4 DEF Put, SetStatus
  <2>5. CASE Verify(w)
    BY <2>5 DEF Verify, SetStatus
  <2>6. CASE MarkUploaded(w)
    BY <2>6 DEF MarkUploaded
  <2>7. CASE Unlink(w)
    BY <2>7 DEF Unlink
  <2>8. CASE Notify(w)
    <3>1. wp[w] = "notify" /\ b2[wc[w]] # "none" /\ UNCHANGED <<status, b2, wc, wrow>>
      BY <2>8 DEF Notify
    <3>2. \A c \in Calls : hooks'[c] => hooks[c] \/ c = wc[w]
      BY <2>8 DEF Notify
    <3>3. \E to \in {"ack", "done"} : wp' = [wp EXCEPT ![w] = to]
      BY <2>8 DEF Notify
    <3> QED BY <3>1, <3>2, <3>3
  <2>9. CASE MarkNotified(w) \/ Release(w)
    BY <2>9 DEF MarkNotified, Release
  <2> QED BY <1>3, <2>1, <2>2, <2>3, <2>4, <2>5, <2>6, <2>7, <2>8, <2>9
         DEF Work
<1>4. ASSUME NEW r \in Recoveries, Recovery(r) PROVE Stored'
  <2>1. CASE ResumeStale(r)
    BY <2>1 DEF ResumeStale, SetStatus
  <2>2. CASE \/ ResumeCheck(r) \/ ResumePending(r)
             \/ \E c \in Calls : ResumeStat(r, c) \/ ResumeEnqueue(r, c)
    BY <2>2 DEF ResumeCheck, ResumePending, ResumeStat, ResumeEnqueue
  <2> QED BY <1>4, <2>1, <2>2 DEF Recovery
<1>5. CASE Crash
  BY <1>5 DEF Crash
<1>6. CASE PauseStarts \/ PauseReturns \/ Unlock \/ Resume \/ SetConfig
  BY <1>6 DEF PauseStarts, PauseReturns, Unlock, Resume, SetConfig
<1>7. CASE UNCHANGED vars
  BY <1>7 DEF vars
<1> QED BY <1>1, <1>2, <1>3, <1>4, <1>5, <1>6, <1>7 DEF Next, Recovery

\* The invariant holds from the first start of the service (newRecordingControl).
LEMMA RecordingInvariant == Spec => []RecordingInv
<1>1. Init => RecordingInv
  BY DEF Init, RecordingInv, Typed, CaptureTyped, RowsTyped, QueueTyped, QueueInv, PauseInv,
         PauseQuiesces, LifeOnce, Opening, RowsSettled, RowsOnce, Took, Salvaging, Capturing,
         Stored, RowStatus, Control, Working, NoRow, Starting, NoRows, NoStale
<1>2. RecordingInv /\ [Next]_vars => RecordingInv'
  BY CaptureTypedStep, RowsTypedStep, QueueStep, PauseStep, LifeStep, SettledStep, OnceStep,
     StoredStep
     DEF RecordingInv, Typed
<1> QED BY <1>1, <1>2, PTL DEF Spec

-----------------------------------------------------------------------------
(* The theorems. *)

\* finalizeRecording, uploadAndVerify and resumeOnBoot remove a WAV of five seconds
\* or more only when all of it is in the bucket, unless resumeOnBoot took the row
\* of a call that was still being recorded.
THEOREM AudioIsKept == Spec => []AudioNotLost
<1>1. RecordingInv => AudioNotLost
  BY DEF RecordingInv, RowsSettled, AudioNotLost
<1> QED BY <1>1, RecordingInvariant, PTL

\* notify (recording_notify.go) announces only what was uploaded.
THEOREM OnlyStoredIsNotified == Spec => []NotifiedMeansStored
<1>1. RecordingInv => NotifiedMeansStored
  BY DEF RecordingInv, Stored, NotifiedMeansStored
<1> QED BY <1>1, RecordingInvariant, PTL

\* Between the return of pause (recording_ctl.go:262) and the unlock no worker
\* touches a row, a WAV or the bucket, however many workers there are.
THEOREM PauseIsQuiet == Spec => []PauseQuiesces
<1>1. RecordingInv => PauseQuiesces
  BY DEF RecordingInv, PauseInv
<1> QED BY <1>1, RecordingInvariant, PTL

\* enqueue (recording_handoff.go) hands a call to one worker at a time, whoever
\* asks for it: finalizeRecording, the sweep or resumeOnBoot.
THEOREM NeverTwoWorkers == Spec => []OneWorkerPerCall
<1>1. RecordingInv => OneWorkerPerCall
  <2> SUFFICES ASSUME QueueTyped, QueueInv, NEW c \in Calls
               PROVE  Cardinality({i \in DOMAIN jobs : jobs[i] = c})
                        + Cardinality({w \in Workers : wc[w] = c}) <= 1
    BY DEF RecordingInv, Typed, OneWorkerPerCall
  <2> DEFINE Q == {i \in DOMAIN jobs : jobs[i] = c}
             H == {w \in Workers : wc[w] = c}
  <2>1. DOMAIN jobs = 1..Len(jobs)
    BY DEF QueueTyped
  <2>2. Q = {} \/ \E i \in DOMAIN jobs : Q = {i}
    BY <2>1 DEF QueueInv
  <2>3. H = {} \/ \E w \in Workers : H = {w}
    BY CallsAssumption DEF QueueInv
  <2>4. Q = {} \/ H = {}
    BY <2>1 DEF QueueInv
  <2>5. Cardinality({}) = 0
    BY FS_EmptySet
  <2>6. \A x : Cardinality({x}) = 1
    BY FS_Singleton
  <2> HIDE DEF Q, H
  <2>7. Cardinality(Q) \in {0, 1} /\ Cardinality(H) \in {0, 1}
    BY <2>2, <2>3, <2>5, <2>6
  <2>8. Cardinality(Q) = 0 \/ Cardinality(H) = 0
    BY <2>4, <2>5
  <2>9. Cardinality(Q) + Cardinality(H) <= 1
    BY <2>7, <2>8
  <2> QED BY <2>9 DEF Q, H
<1> QED BY <1>1, RecordingInvariant, PTL

\* Who changes the status of a recording that was delivered or discarded: only a
\* thread that works on the call of which resumeOnBoot took the live row, or two
\* of them took the row.
LEMMA FinalStep ==
  ASSUME RecordingInv, [Next]_vars, NEW c \in Calls, c \notin salvaged \union twice,
         status[c] = "skipped" \/ status[c] = "ready"
  PROVE  status'[c] = status[c]
<1> USE DEF RecordingInv, Typed, RowsTyped, QueueTyped, QueueInv, LifeOnce, Opening, RowsSettled,
            RowsOnce, Took, Salvaging, Capturing, Working, RowStatus, rowVars
<1>1. CASE UNCHANGED status
  BY <1>1
<1>2. ASSUME NEW d \in Calls, BeginRow(d) \/ CallEnds(d) PROVE status'[c] = status[c]
  BY <1>2 DEF BeginRow, Begin, CallEnds, InsertSkipped
<1>3. ASSUME NEW d \in Calls, FinClose(d) \/ FinStore(d) PROVE status'[c] = status[c]
  BY <1>3 DEF FinClose, FinStore, SetStatus
<1>4. ASSUME NEW w \in Workers, Upload(w) \/ Put(w) \/ Verify(w) \/ MarkUploaded(w)
      PROVE  status'[c] = status[c]
  <2>1. wp[w] \in {"upload", "put", "verify", "mark"}
    BY <1>4 DEF Upload, Put, Verify, MarkUploaded
  <2>2. wc[w] # c
    BY <2>1
  <2> QED BY <1>4, <2>2 DEF Upload, Put, Verify, MarkUploaded, SetStatus
<1>5. ASSUME NEW r \in Recoveries, ResumeStale(r) PROVE status'[c] = status[c]
  BY <1>5 DEF ResumeStale, SetStatus
<1>6. ASSUME NEW d \in Calls,
             CallStarts(d) \/ CallAnswered(d) \/ Arm(d) \/ OnAnswered(d) \/ OpenWav(d)
               \/ Attach(d) \/ Capture(d) \/ FinRemove(d) \/ FinEnqueue(d) \/ Sweep(d)
      PROVE  UNCHANGED status
  BY <1>6 DEF CallStarts, CallAnswered, Arm, OnAnswered, OpenWav, Attach, Capture,
              FinRemove, FinEnqueue, Sweep
<1>7. ASSUME NEW w \in Workers,
             Take(w) \/ MarkBusy(w) \/ CheckPaused(w) \/ GetRow(w) \/ Unlink(w)
               \/ Notify(w) \/ MarkNotified(w) \/ Release(w)
      PROVE  UNCHANGED status
  BY <1>7 DEF Take, MarkBusy, CheckPaused, GetRow, Unlink, Notify, MarkNotified, Release
<1>8. CASE \/ PauseStarts \/ PauseReturns \/ Unlock \/ Resume \/ SetConfig \/ Crash
           \/ \E r \in Recoveries : ResumeCheck(r) \/ ResumePending(r)
           \/ \E r \in Recoveries, d \in Calls : ResumeStat(r, d) \/ ResumeEnqueue(r, d)
  BY <1>8 DEF PauseStarts, PauseReturns, Unlock, Resume, SetConfig, Crash, ResumeCheck,
              ResumePending, ResumeStat, ResumeEnqueue
<1>9. CASE UNCHANGED vars
  BY <1>9 DEF vars
<1> QED BY <1>1, <1>2, <1>3, <1>4, <1>5, <1>6, <1>7, <1>8, <1>9
        DEF Next, Answering, Finalize, Work, Recovery

\* A recording that is delivered or discarded is never taken up again
\* (recordingstore.go), but for the call of which resumeOnBoot took the live row and
\* that of which two resumeOnBoot took the row: any number of them may run at once
\* (recording_ctl.go:298), with lists of rows read at any time.
THEOREM DeliveredStaysDelivered == Spec => DeliveredIsFinal
<1>1. RecordingInv /\ [Next]_vars =>
        [\A c \in Calls :
           status[c] = "skipped" \/ (status[c] = "ready" /\ notified[c]) =>
             status'[c] = status[c] \/ c \in salvaged \/ c \in twice]_vars
  BY FinalStep
<1> QED BY <1>1, RecordingInvariant, PTL DEF Spec, DeliveredIsFinal

-----------------------------------------------------------------------------
(***************************************************************************)
(* The file has the call as it was (Recorder), for any cap, any limit of   *)
(* the legs' buffers, any buffer of the file and any pace of the two legs. *)
(*                                                                         *)
(* Faithful is nearly inductive: a flush takes from a leg's buffer the     *)
(* samples that come next in its channel, because the buffer is what the   *)
(* channel lacks, in order.  What has to be added is that nothing is       *)
(* flushed after Close has the goroutine's end (Ended).                    *)
(***************************************************************************)

\* A channel f of L frames has the samples 1..g in order, and a buffer b of k samples
\* the next ones.
InPlace(f, L, g, b, k) ==
  /\ \A i \in 1..L : f[i] \in 0..g
  /\ \A s \in 1..g : \E i \in 1..L : f[i] = s
  /\ \A i, j \in 1..L : i < j /\ f[i] # 0 /\ f[j] # 0 => f[i] < f[j]
  /\ \A i \in 1..k : b[i] = g + i

FileTyped ==
  /\ now \in Nat
  /\ fed \in [Legs -> Nat] /\ buf \in [Legs -> Seq(Nat)]
  /\ \A l \in Legs : Len(buf[l]) <= fed[l]
  /\ frames \in Seq([Legs -> Nat])
Channel(l) == [i \in 1..Written |-> frames[i][l]]
InPlaces == \A l \in Legs : InPlace(Channel(l), Written, Given(l), buf[l], Len(buf[l]))
Ended ==
  /\ close \in {"ok", "failed"} => run = "done"
  /\ close = "ok" => disk = Written

RecorderInv == FileTyped /\ InPlaces /\ Ended

\* The samples of a callback go behind what the buffer keeps (appendLeg).
LEMMA AppendInPlace ==
  ASSUME NEW f, NEW L \in Nat, NEW g \in Nat, NEW k \in Nat, NEW b, NEW n \in Nat, NEW c,
         InPlace(f, L, g, b, k),
         \A i \in 1..(k + n) : c[i] = IF i <= k THEN b[i] ELSE g + k + (i - k)
  PROVE  InPlace(f, L, g, c, k + n)
<1>1. ASSUME NEW i \in 1..(k + n) PROVE c[i] = g + i
  <2>1. CASE i <= k
    BY <2>1 DEF InPlace
  <2>2. CASE ~(i <= k)
    BY <2>2
  <2> QED BY <2>1, <2>2
<1> QED BY <1>1 DEF InPlace

\* The channel e is f and the front of b, n frames of it, with silence for what b lacks;
\* c is what b has behind its first n samples.
Flushed(e, f, L, n, b, k) ==
  /\ \A i \in 1..L : e[i] = f[i]
  /\ \A i \in 1..n : e[L + i] = IF i <= k THEN b[i] ELSE 0
Left(c, n, b, k, m) ==
  /\ m = IF n <= k THEN n ELSE k
  /\ \A i \in 1..(k - m) : c[i] = b[n + i]

\* A flush of n frames takes the next samples of a leg, m of them, and leaves the others
\* in the buffer (consume).
LEMMA FlushInPlace ==
  ASSUME NEW L \in Nat, NEW n \in Nat, NEW g \in Nat, NEW k \in Nat,
         NEW f, NEW b, InPlace(f, L, g, b, k),
         NEW m \in Nat, NEW e, Flushed(e, f, L, n, b, k), NEW c, Left(c, n, b, k, m)
  PROVE  InPlace(e, L + n, g + m, c, k - m)
<1>1. m <= n /\ m <= k /\ (m = n \/ m = k)
  BY DEF Left
<1>2. \A i \in 1..k : b[i] = g + i
  BY DEF InPlace
<1>3. ASSUME NEW i \in 1..L PROVE e[i] = f[i] /\ e[i] \in 0..g
  BY DEF InPlace, Flushed
<1>4. ASSUME NEW i \in 1..n PROVE e[L + i] = IF i <= m THEN g + i ELSE 0
  <2>1. i <= k <=> i <= m
    BY <1>1
  <2> QED BY <1>2, <2>1 DEF Flushed
<1>5. ASSUME NEW i \in 1..(L + n), ~(i <= L)
      PROVE  \E x \in 1..n : i = L + x /\ e[i] = IF x <= m THEN g + x ELSE 0
  <2>1. i - L \in 1..n /\ i = L + (i - L)
    BY <1>5
  <2> QED BY <1>4, <2>1
<1>6. ASSUME NEW i \in 1..(L + n) PROVE e[i] \in 0..(g + m)
  <2>1. CASE i <= L
    BY <1>3, <2>1
  <2>2. CASE ~(i <= L)
    BY <1>5, <2>2
  <2> QED BY <2>1, <2>2
<1>7. ASSUME NEW s \in 1..(g + m) PROVE \E i \in 1..(L + n) : e[i] = s
  <2>1. CASE s <= g
    <3>1. PICK i \in 1..L : f[i] = s
      BY <2>1 DEF InPlace
    <3>2. i \in 1..(L + n) /\ e[i] = s
      BY <1>3, <3>1
    <3> QED BY <3>2
  <2>2. CASE ~(s <= g)
    <3>1. s - g \in 1..n /\ s - g <= m /\ s = g + (s - g)
      BY <1>1, <2>2
    <3>2. L + (s - g) \in 1..(L + n) /\ e[L + (s - g)] = s
      BY <1>4, <3>1
    <3> QED BY <3>2
  <2> QED BY <2>1, <2>2
<1>8. ASSUME NEW i \in 1..(L + n), NEW j \in 1..(L + n), i < j, e[i] # 0, e[j] # 0
      PROVE  e[i] < e[j]
  <2>1. CASE j <= L
    BY <1>3, <1>8, <2>1 DEF InPlace
  <2>2. CASE ~(j <= L)
    <3>1. PICK y \in 1..n : j = L + y /\ e[j] = g + y
      BY <1>5, <1>8, <2>2
    <3>2. CASE i <= L
      BY <1>3, <3>1, <3>2
    <3>3. CASE ~(i <= L)
      <4>1. PICK x \in 1..n : i = L + x /\ e[i] = g + x
        BY <1>5, <1>8, <3>3
      <4> QED BY <1>8, <3>1, <4>1
    <3> QED BY <3>2, <3>3
  <2> QED BY <2>1, <2>2
<1>9. ASSUME NEW i \in 1..(k - m) PROVE c[i] = (g + m) + i
  <2>1. n = m /\ n + i \in 1..k
    BY <1>1
  <2> QED BY <1>2, <2>1 DEF Left
<1> QED BY <1>6, <1>7, <1>8, <1>9 DEF InPlace

\* A sequence and what a callback or a flush puts behind it.
LEMMA Behind ==
  ASSUME NEW S, NEW s \in Seq(S), NEW n \in Nat, NEW x(_), \A i \in 1..n : x(i) \in S
  PROVE  LET t == s \o [i \in 1..n |-> x(i)]
         IN  /\ t \in Seq(S) /\ Len(t) = Len(s) + n
             /\ \A i \in 1..(Len(s) + n) : t[i] = IF i <= Len(s) THEN s[i] ELSE x(i - Len(s))
<1> DEFINE d == [i \in 1..n |-> x(i)]
<1>1. d \in Seq(S) /\ Len(d) = n /\ \A i \in 1..n : d[i] = x(i)
  OBVIOUS
<1> HIDE DEF d
<1>2. /\ s \o d \in Seq(S) /\ Len(s \o d) = Len(s) + n
      /\ \A i \in 1..(Len(s) + n) : (s \o d)[i] = IF i <= Len(s) THEN s[i] ELSE d[i - Len(s)]
  BY <1>1, ConcatProperties
<1>3. ASSUME NEW i \in 1..(Len(s) + n), ~(i <= Len(s)) PROVE d[i - Len(s)] = x(i - Len(s))
  <2>1. i - Len(s) \in 1..n
    BY <1>3
  <2> QED BY <1>1, <2>1
<1> QED BY <1>2, <1>3 DEF d

LEMMA Longer == ASSUME FileTyped PROVE Longest \in Nat
<1>1. \A l \in Legs : Waiting[l] \in Nat
  <2> SUFFICES ASSUME NEW l \in Legs PROVE Len(buf[l]) \in Nat
    BY DEF Waiting
  <2>1. buf[l] \in Seq(Nat)
    BY DEF FileTyped
  <2> QED BY <2>1
<1>2. PICK a, b \in Legs : Legs = {a, b}
  BY RecorderLegs
<1>3. \E n \in {Waiting[l] : l \in Legs} : \A l \in Legs : Waiting[l] <= n
  <2>1. CASE Waiting[a] <= Waiting[b]
    BY <1>1, <1>2, <2>1
  <2>2. CASE ~(Waiting[a] <= Waiting[b])
    BY <1>1, <1>2, <2>2
  <2> QED BY <2>1, <2>2
<1>4. Longest \in {Waiting[l] : l \in Legs}
  BY <1>3 DEF Longest
<1> QED BY <1>1, <1>4

\* A media callback: the leg's buffer is longer, its channel is as it was.
LEMMA Appends ==
  ASSUME RecorderInv, NEW l \in Legs, NEW n \in Nat, appendLeg(l, n)
  PROVE  RecorderInv'
<1>1. /\ UNCHANGED <<now, frames, run, close, disk>>
      /\ fed' = [fed EXCEPT ![l] = @ + n]
      /\ buf' = [buf EXCEPT ![l] = @ \o [i \in 1..n |-> fed[l] + i]]
  BY DEF appendLeg, file, loop, ends
<1> DEFINE b == buf[l]
           t == b \o [i \in 1..n |-> fed[l] + i]
<1>2. b \in Seq(Nat) /\ Len(b) \in Nat /\ fed[l] \in Nat /\ Len(b) <= fed[l]
  BY DEF RecorderInv, FileTyped
<1>3. /\ t \in Seq(Nat) /\ Len(t) = Len(b) + n
      /\ \A i \in 1..(Len(b) + n) : t[i] = IF i <= Len(b) THEN b[i] ELSE fed[l] + (i - Len(b))
  <2> DEFINE x(i) == fed[l] + i
  <2>1. \A i \in 1..n : x(i) \in Nat
    BY <1>2
  <2>2. t = b \o [i \in 1..n |-> x(i)]
    OBVIOUS
  <2> HIDE DEF x, t, b
  <2>3. /\ t \in Seq(Nat) /\ Len(t) = Len(b) + n
        /\ \A i \in 1..(Len(b) + n) : t[i] = IF i <= Len(b) THEN b[i] ELSE x(i - Len(b))
    BY <1>2, <2>1, <2>2, Behind
  <2> QED BY <2>3 DEF x
<1> HIDE DEF t
<1>4. /\ fed'[l] = fed[l] + n /\ buf'[l] = t
      /\ \A x \in Legs \ {l} : fed'[x] = fed[x] /\ buf'[x] = buf[x]
      /\ fed' \in [Legs -> Nat] /\ buf' \in [Legs -> Seq(Nat)]
  BY <1>1, <1>2, <1>3 DEF RecorderInv, FileTyped, t
<1>5. FileTyped'
  BY <1>1, <1>2, <1>3, <1>4 DEF RecorderInv, FileTyped
<1>6. ASSUME NEW x \in Legs
      PROVE  InPlace(Channel(x), Written, fed'[x] - Len(buf'[x]), buf'[x], Len(buf'[x]))
  <2>1. InPlace(Channel(x), Written, fed[x] - Len(buf[x]), buf[x], Len(buf[x]))
    BY DEF RecorderInv, InPlaces, Given
  <2>2. CASE x = l
    <3>1. PICK g \in Nat : g = fed[l] - Len(b) /\ g + Len(b) = fed[l]
      BY <1>2
    <3>2. Written \in Nat
      BY DEF Written, RecorderInv, FileTyped
    <3>3. InPlace(Channel(l), Written, g, t, Len(b) + n)
      BY <1>2, <1>3, <2>1, <2>2, <3>1, <3>2, AppendInPlace
    <3>4. g = fed'[l] - Len(buf'[l]) /\ Len(buf'[l]) = Len(b) + n
      <4>1. Len(buf'[l]) = Len(b) + n /\ fed'[l] = fed[l] + n /\ Len(b) \in Nat /\ fed[l] \in Nat
        BY <1>2, <1>3, <1>4
      <4> QED BY <3>1, <4>1
    <3> QED BY <1>4, <2>2, <3>3, <3>4
  <2>3. CASE x # l
    BY <1>4, <2>1, <2>3
  <2> QED BY <2>2, <2>3
<1>7. InPlaces'
  BY <1>1, <1>6, Zenon DEF InPlaces, Given, Channel, Written
<1>8. Ended'
  BY <1>1 DEF RecorderInv, Ended, Written
<1> QED BY <1>5, <1>7, <1>8 DEF RecorderInv

\* A flush, whatever it is for: each leg gives the frames what it has for them.
LEMMA Flushes ==
  ASSUME RecorderInv, NEW final \in BOOLEAN, flush(final), UNCHANGED <<now, fed>>
  PROVE  FileTyped' /\ InPlaces'
<1> DEFINE n == Target(final) - Written
<1>1. Written \in Nat /\ n \in Int
  <2>1. Written \in Nat /\ now \in Nat /\ Longest \in Nat
    BY Longer DEF RecorderInv, FileTyped, Written
  <2> QED BY <2>1, RecorderSizes DEF Target, Wanted, Over
<1>2. CASE n <= 0
  <2>1. UNCHANGED <<buf, frames>>
    BY <1>2 DEF flush, file
  <2> QED BY <2>1, Zenon DEF RecorderInv, FileTyped, InPlaces, Channel, Written, Given
<1>3. CASE ~(n <= 0)
  <2>1. /\ frames' = frames \o [i \in 1..n |-> [l \in Legs |-> Taken(l, n)[i]]]
        /\ buf' = [l \in Legs |-> rest(l, n)]
    BY <1>3, Zenon DEF flush
  <2>2. n \in Nat
    BY <1>1, <1>3
  <2> HIDE DEF n
  <2> DEFINE v(l, i) == IF i <= Len(buf[l]) THEN buf[l][i] ELSE 0
             fr(i) == [l \in Legs |-> v(l, i)]
  <2>3. \A l \in Legs : buf[l] \in Seq(Nat) /\ Len(buf[l]) \in Nat /\ Len(buf[l]) <= fed[l] /\ fed[l] \in Nat
    BY DEF RecorderInv, FileTyped
  <2>4. \A i \in 1..n : fr(i) \in [Legs -> Nat]
    BY <2>3
  <2>5. frames' = frames \o [i \in 1..n |-> fr(i)]
    <3>1. \A l \in Legs, i \in 1..n : Taken(l, n)[i] = v(l, i)
      BY DEF Taken, Silence
    <3> QED BY <2>1, <3>1
  <2>6. /\ frames' \in Seq([Legs -> Nat]) /\ Written' = Written + n
        /\ \A i \in 1..(Written + n) : frames'[i] = IF i <= Written THEN frames[i] ELSE fr(i - Written)
    <3> HIDE DEF fr
    <3>1. frames \in Seq([Legs -> Nat])
      BY DEF RecorderInv, FileTyped
    <3> QED BY <2>2, <2>4, <2>5, <3>1, Behind DEF Written
  <2>7. ASSUME NEW l \in Legs
        PROVE  \E m \in Nat :
                 /\ m = IF n <= Len(buf[l]) THEN n ELSE Len(buf[l])
                 /\ rest(l, n) \in Seq(Nat) /\ Len(rest(l, n)) = Len(buf[l]) - m
                 /\ \A i \in 1..(Len(buf[l]) - m) : rest(l, n)[i] = buf[l][n + i]
    <3>1. CASE n <= Len(buf[l])
      BY <2>2, <2>3, <3>1 DEF rest
    <3>2. CASE ~(n <= Len(buf[l]))
      BY <2>2, <2>3, <3>2 DEF rest
    <3> QED BY <3>1, <3>2
  <2>8. FileTyped'
    BY <2>1, <2>3, <2>6, <2>7 DEF RecorderInv, FileTyped
  <2>9. ASSUME NEW l \in Legs
        PROVE  InPlace([i \in 1..(Written + n) |-> frames'[i][l]], Written + n,
                       fed[l] - Len(rest(l, n)), rest(l, n), Len(rest(l, n)))
    <3> DEFINE e == [i \in 1..(Written + n) |-> frames'[i][l]]
    <3>1. PICK m \in Nat :
                 /\ m = IF n <= Len(buf[l]) THEN n ELSE Len(buf[l])
                 /\ rest(l, n) \in Seq(Nat) /\ Len(rest(l, n)) = Len(buf[l]) - m
                 /\ \A i \in 1..(Len(buf[l]) - m) : rest(l, n)[i] = buf[l][n + i]
      BY <2>7
    <3>2. ASSUME NEW i \in 1..Written PROVE e[i] = Channel(l)[i]
      <4>1. i \in 1..(Written + n) /\ i <= Written
        BY <1>1, <2>2
      <4>2. frames'[i] = frames[i]
        BY <2>6, <4>1
      <4> QED BY <4>1, <4>2 DEF Channel
    <3>3. ASSUME NEW i \in 1..n PROVE e[Written + i] = IF i <= Len(buf[l]) THEN buf[l][i] ELSE 0
      <4>1. Written + i \in 1..(Written + n) /\ ~(Written + i <= Written) /\ (Written + i) - Written = i
        BY <1>1, <2>2
      <4>2. frames'[Written + i] = fr(i)
        <5> HIDE DEF fr
        <5> QED BY <2>6, <4>1
      <4> QED BY <4>1, <4>2
    <3>4. PICK g \in Nat : g = fed[l] - Len(buf[l])
      BY <2>3
    <3>5. InPlace(Channel(l), Written, g, buf[l], Len(buf[l]))
      BY <3>4 DEF RecorderInv, InPlaces, Given
    <3> HIDE DEF e
    <3>6. InPlace(e, Written + n, g + m, rest(l, n), Len(buf[l]) - m)
      <4> DEFINE ch == Channel(l)
                 b == buf[l]
                 c == rest(l, n)
      <4>1. Left(c, n, b, Len(b), m)
        BY <3>1 DEF Left
      <4>2. Flushed(e, ch, Written, n, b, Len(b))
        BY <3>2, <3>3 DEF Flushed
      <4>3. InPlace(ch, Written, g, b, Len(b))
        BY <3>5
      <4>4. Written \in Nat /\ n \in Nat /\ Len(b) \in Nat
        BY <1>1, <2>2, <2>3
      <4> HIDE DEF ch, b, c
      <4>5. InPlace(e, Written + n, g + m, c, Len(b) - m)
        BY <4>1, <4>2, <4>3, <4>4, FlushInPlace
      <4> QED BY <4>5 DEF b, c
    <3>7. g + m = fed[l] - Len(rest(l, n))
      <4>1. Len(rest(l, n)) = Len(buf[l]) - m
        BY <3>1
      <4> QED BY <2>3, <3>4, <4>1
    <3> QED BY <3>1, <3>6, <3>7 DEF e
  <2>10. InPlaces'
    <3>1. \A l \in Legs : buf'[l] = rest(l, n)
      BY <2>1
    <3> QED BY <2>6, <2>9, <3>1, Zenon DEF InPlaces, Channel, Given
  <2> QED BY <2>8, <2>10
<1> QED BY <1>2, <1>3

LEMMA RecorderStep == RecorderInv /\ [RecorderNext]_recorderVars => RecorderInv'
<1> SUFFICES ASSUME RecorderInv, [RecorderNext]_recorderVars PROVE RecorderInv'
  OBVIOUS
<1>0. now \in Nat
  BY DEF RecorderInv, FileTyped
<1>1. ASSUME UNCHANGED <<fed, buf, frames, disk, run>>, now' \in Nat,
             close' \in {"ok", "failed"} => close' = close
      PROVE  RecorderInv'
  <2>1. FileTyped'
    BY <1>1 DEF RecorderInv, FileTyped
  <2>2. InPlaces'
    BY <1>1, Zenon DEF RecorderInv, InPlaces, Given, Channel, Written
  <2>3. Ended'
    BY <1>1 DEF RecorderInv, Ended, Written
  <2> QED BY <2>1, <2>2, <2>3 DEF RecorderInv
<1>2. Tick => RecorderInv'
  BY <1>0, <1>1 DEF Tick, file, loop, ends
<1>3. ASSUME NEW l \in Legs, NEW n \in 1..MaxFed, appendLeg(l, n) PROVE RecorderInv'
  BY <1>3, Appends
<1>4. ASSUME NEW final \in BOOLEAN, flush(final), UNCHANGED <<now, fed, ends>>, run # "done"
      PROVE  RecorderInv'
  <2>1. FileTyped' /\ InPlaces'
    BY <1>4, Flushes
  <2>2. close \notin {"ok", "failed"} /\ close' = close
    BY <1>4 DEF RecorderInv, Ended, ends
  <2> QED BY <2>1, <2>2 DEF RecorderInv, Ended
<1>5. tick \/ limit \/ stopped => RecorderInv'
  BY <1>4 DEF tick, limit, stopped
<1>6. Close \/ CloseStops => RecorderInv'
  BY <1>0, <1>1 DEF Close, CloseStops, file, loop
<1>7. CloseFinal => RecorderInv'
  <2> SUFFICES ASSUME CloseFinal PROVE RecorderInv'
    OBVIOUS
  <2>1. UNCHANGED <<now, fed, buf, frames, run>> /\ run = "done"
    BY DEF CloseFinal, loop
  <2>2. close' = "ok" => disk' = Written
    BY DEF CloseFinal, wavClose
  <2>3. FileTyped'
    BY <2>1 DEF RecorderInv, FileTyped
  <2>4. InPlaces'
    BY <2>1, Zenon DEF RecorderInv, InPlaces, Given, Channel, Written
  <2>5. Ended'
    BY <2>1, <2>2 DEF Ended, Written
  <2> QED BY <2>3, <2>4, <2>5 DEF RecorderInv
<1>8. UNCHANGED recorderVars => RecorderInv'
  BY <1>0, <1>1 DEF recorderVars
<1> QED BY <1>2, <1>3, <1>5, <1>6, <1>7, <1>8, Zenon DEF RecorderNext

\* What is in place is faithful.
LEMMA InPlaceIsFaithful == RecorderInv => Faithful
<1> SUFFICES ASSUME RecorderInv, NEW l \in Legs
             PROVE  /\ {frames[i][l] : i \in Voiced(l)} = 1..Given(l)
                    /\ \A i, j \in Voiced(l) : i < j => frames[i][l] < frames[j][l]
                    /\ buf[l] = [i \in 1..Len(buf[l]) |-> Given(l) + i]
  BY DEF RecorderInv, Ended, Faithful
<1>1. InPlace(Channel(l), Written, Given(l), buf[l], Len(buf[l]))
  BY DEF RecorderInv, InPlaces
<1>2. Given(l) \in Nat /\ buf[l] \in Seq(Nat)
  <2>1. buf[l] \in Seq(Nat) /\ Len(buf[l]) <= fed[l] /\ fed[l] \in Nat
    BY DEF RecorderInv, FileTyped
  <2> QED BY <2>1 DEF Given
<1>3. \A i \in 1..Written : Channel(l)[i] = frames[i][l]
  BY DEF Channel
<1>4. Voiced(l) = {i \in 1..Written : Channel(l)[i] # 0}
  BY <1>3 DEF Voiced, Silence
<1>5. {frames[i][l] : i \in Voiced(l)} = 1..Given(l)
  <2>1. ASSUME NEW i \in Voiced(l) PROVE frames[i][l] \in 1..Given(l)
    <3>1. i \in 1..Written /\ Channel(l)[i] # 0 /\ frames[i][l] = Channel(l)[i]
      BY <1>3, <1>4
    <3>2. Channel(l)[i] \in 0..Given(l)
      BY <1>1, <3>1 DEF InPlace
    <3> QED BY <1>2, <3>1, <3>2
  <2>2. ASSUME NEW s \in 1..Given(l) PROVE \E i \in Voiced(l) : frames[i][l] = s
    <3>1. PICK i \in 1..Written : Channel(l)[i] = s
      BY <1>1 DEF InPlace
    <3>2. s # 0
      BY <1>2
    <3> QED BY <1>3, <1>4, <3>1, <3>2
  <2> QED BY <2>1, <2>2
<1>6. \A i, j \in Voiced(l) : i < j => frames[i][l] < frames[j][l]
  BY <1>1, <1>3, <1>4 DEF InPlace
<1>7. buf[l] = [i \in 1..Len(buf[l]) |-> Given(l) + i]
  <2> DEFINE b == buf[l]
             g == Given(l)
  <2>1. b \in Seq(Nat) /\ \A i \in 1..Len(b) : b[i] = g + i
    BY <1>1, <1>2 DEF InPlace
  <2> HIDE DEF b, g
  <2>2. b = [i \in 1..Len(b) |-> g + i]
    BY <2>1
  <2> QED BY <2>2 DEF b, g
<1> QED BY <1>5, <1>6, <1>7

\* Every sample that a leg's buffer took is in the file once and in its order, or still in
\* the buffer, and a Close that reports success has written all of it (consume, flush,
\* wavWriter.Close): for any cap, limits, ticks and failures of the disk.
THEOREM FileIsFaithful == RecorderSpec => []Faithful
<1>1. RecorderInit => RecorderInv
  <2> SUFFICES ASSUME RecorderInit PROVE RecorderInv
    OBVIOUS
  <2>1. FileTyped
    BY DEF RecorderInit, FileTyped
  <2>2. ASSUME NEW l \in Legs PROVE InPlace(Channel(l), Written, Given(l), buf[l], Len(buf[l]))
    <3>1. Written = 0 /\ Given(l) = 0 /\ Len(buf[l]) = 0
      BY DEF RecorderInit, Written, Given
    <3> QED BY <3>1 DEF InPlace
  <2> QED BY <2>1, <2>2 DEF RecorderInit, RecorderInv, InPlaces, Ended
<1> QED BY <1>1, RecorderStep, InPlaceIsFaithful, PTL DEF RecorderSpec
=============================================================================
