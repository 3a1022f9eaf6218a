------------------------------ MODULE Recorder ------------------------------
(***************************************************************************)
(* The recorder of one call: internal/voip/recording, recorder.go and      *)
(* wav.go.  Two media callbacks append samples to a buffer for each leg; a *)
(* goroutine of its own takes from both, at each tick, as many as the wall *)
(* clock asks for, fills what a leg does not have with silence, and writes *)
(* stereo frames through a buffer to the file; Close stops it.             *)
(*                                                                         *)
(* The mutex r.mu is held for one append, one flush, or one look at        *)
(* closed.  Time is counted in samples, and a sample is its number in its  *)
(* leg, so that the file says which samples it holds and where.            *)
(***************************************************************************)
EXTENDS Integers, Sequences

CONSTANTS
  Legs,       \* the operator and the peer
  MaxFrames,  \* opts.MaxDuration in frames; 0 is no cap
  MaxPending, \* maxPendingSamples: a longer buffer takes no more
  Chunk,      \* the file's buffer, in frames (64 KiB)
  MaxFed,     \* bound: samples of each leg
  MaxTime     \* bound: the clock

ASSUME RecorderLegs == \E operator, peer \in Legs : Legs = {operator, peer}
ASSUME RecorderSizes ==
  /\ MaxFrames \in Nat /\ MaxPending \in Nat \ {0} /\ Chunk \in Nat \ {0}
  /\ MaxFed \in Nat /\ MaxTime \in Nat

VARIABLES
  now,      \* time.Since(startedAt)
  fed,      \* history: samples that each leg's buffer accepted
  buf,      \* opBuf and peerBuf
  frames,   \* frames given to the WAV; r.written counts them
  disk,     \* how many frames the file holds
  full,     \* the file's writer met an error, which bufio keeps
  stopCh,   \* closed?
  run,      \* the goroutine; "done": doneCh is closed
  limitHit,
  close,    \* the call of Close, and its result
  closed

recorderVars == <<now, fed, buf, frames, disk, full, stopCh, run, limitHit, close, closed>>

Silence == 0
Written == Len(frames)

RecorderInit ==
  /\ now = 0
  /\ fed = [l \in Legs |-> 0] /\ buf = [l \in Legs |-> << >>]
  /\ frames = << >> /\ disk = 0 /\ full = FALSE
  /\ stopCh = FALSE /\ run = "loop" /\ limitHit = FALSE
  /\ close = "no" /\ closed = FALSE

-----------------------------------------------------------------------------
file == <<frames, disk, full>>
loop == <<run, limitHit>>
ends == <<stopCh, close, closed>>

Tick ==
  /\ now < MaxTime
  /\ now' = now + 1
  /\ UNCHANGED <<fed, buf, file, loop, ends>>

\* appendLeg: n samples of a media callback, all or none.
appendLeg(l, n) ==
  /\ fed[l] + n <= MaxFed
  /\ ~closed /\ Len(buf[l]) < MaxPending
  /\ fed' = [fed EXCEPT ![l] = @ + n]
  /\ buf' = [buf EXCEPT ![l] = @ \o [i \in 1..n |-> fed[l] + i]]
  /\ UNCHANGED <<now, file, loop, ends>>

-----------------------------------------------------------------------------
Waiting == [l \in Legs |-> Len(buf[l])]
Longest == CHOOSE n \in {Waiting[l] : l \in Legs} : \A l \in Legs : Waiting[l] <= n

\* consume: the front of a buffer, with silence for what it lacks ...
Taken(l, n) == [i \in 1..n |-> IF i <= Len(buf[l]) THEN buf[l][i] ELSE Silence]
\* Mutant: the samples not taken are dropped with the others.
restDropped(l, n) == << >>
\* ... and the rest, which is kept.
rest(l, n) == SubSeq(buf[l], n + 1, Len(buf[l]))

\* The frames up to the wall clock, or at the end whatever is left; up to the cap.
Wanted(final) == IF final THEN Written + Longest ELSE now
Over(final) == MaxFrames > 0 /\ Wanted(final) > MaxFrames
Target(final) == IF Over(final) THEN MaxFrames ELSE Wanted(final)

\* writeSamples: what no longer fits in the file's buffer makes it go to the file,
\* which may fail; the recorder goes on and counts the frames as written.
writeSamples(n) ==
  IF Written + n - disk <= Chunk \/ full
  THEN UNCHANGED <<disk, full>>
  ELSE \/ \E d \in (disk + 1)..(Written + n) :
            Written + n - d <= Chunk /\ disk' = d /\ UNCHANGED full
       \/ disk' \in disk..(Written + n - 1) /\ full' = TRUE

flush(final) ==
  LET n == Target(final) - Written IN
  /\ limitHit' = (limitHit \/ Over(final))
  /\ IF n <= 0 THEN UNCHANGED <<buf, file>>
     ELSE /\ frames' = frames \o [i \in 1..n |-> [l \in Legs |-> Taken(l, n)[i]]]
          /\ buf' = [l \in Legs |-> rest(l, n)]
          /\ writeSamples(n)

\* run: a tick of 20 ms; at the cap, a last flush, and the goroutine ends.
tick ==
  /\ run = "loop"
  /\ flush(FALSE)
  /\ run' = IF limitHit' THEN "limit" ELSE "loop"
  /\ UNCHANGED <<now, fed, ends>>

\* Mutant: the goroutine that met the cap leaves doneCh open.
limitNoDone ==
  /\ run = "limit"
  /\ flush(TRUE)
  /\ run' = "limited"
  /\ UNCHANGED <<now, fed, ends>>
limit ==
  /\ run = "limit"
  /\ flush(TRUE)
  /\ run' = "done"
  /\ UNCHANGED <<now, fed, ends>>

\* The other branch of the select, which may be late: a tick may be ready as well.
stopped ==
  /\ run = "loop" /\ stopCh
  /\ flush(TRUE)
  /\ run' = "done"
  /\ UNCHANGED <<now, fed, ends>>

-----------------------------------------------------------------------------
\* Close, which finalizeRecording calls once: the call has ended.
Close ==
  /\ close = "no" /\ ~closed
  /\ close' = "stop"
  /\ UNCHANGED <<now, fed, buf, file, loop, stopCh, closed>>

CloseStops ==
  /\ close = "stop"
  /\ stopCh' = TRUE /\ close' = "wait"
  /\ UNCHANGED <<now, fed, buf, file, loop, closed>>

\* wavWriter.Close: the buffer goes to the file, unless an error was met.
wavClose ==
  \/ ~full /\ close' = "ok" /\ disk' = Written /\ full' = full
  \/ close' = "failed" /\ disk' \in (IF full THEN {disk} ELSE disk..Written) /\ full' = TRUE

CloseFinal ==
  /\ close = "wait" /\ run = "done"
  /\ closed' = TRUE
  /\ wavClose
  /\ UNCHANGED <<now, fed, buf, frames, loop, stopCh>>

RecorderNext ==
  \/ Tick
  \/ \E l \in Legs, n \in 1..MaxFed : appendLeg(l, n)
  \/ tick \/ limit \/ stopped
  \/ Close \/ CloseStops \/ CloseFinal

RecorderSpec == RecorderInit /\ [][RecorderNext]_recorderVars

\* The goroutine's select takes each ready branch in the end, and Close goes on.
RecorderFairness == WF_recorderVars(stopped \/ limit) /\ WF_recorderVars(CloseStops \/ CloseFinal)
RecorderFairSpec == RecorderSpec /\ RecorderFairness

-----------------------------------------------------------------------------
(* Properties.                                                               *)

\* The frames with a leg's voice, silence left out, and how much of it left its buffer.
Voiced(l) == {i \in 1..Written : frames[i][l] # Silence}
Given(l) == fed[l] - Len(buf[l])

\* The file has the call as it was: each channel has every sample its leg's buffer
\* took, once and in their order, whatever the two legs' paces and the ticks, with
\* silence in between, and what is not in it yet is the front of what the buffer keeps;
\* and when Close reports success, all of it is in the file (consume, flush and
\* wavWriter.Close).
Faithful ==
  /\ \A l \in Legs :
       /\ {frames[i][l] : i \in Voiced(l)} = 1..Given(l)
       /\ \A i, j \in Voiced(l) : i < j => frames[i][l] < frames[j][l]
       /\ buf[l] = [i \in 1..Len(buf[l]) |-> Given(l) + i]
  /\ close = "ok" => disk = Written

\* Close returns, also of a recorder that has met its cap, or meets it meanwhile
\* (Close waits for doneCh, recorder.go:198): it is not left waiting for ever.
CloseReturns == []<>(close \notin {"stop", "wait"})
=============================================================================
