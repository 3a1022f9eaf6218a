# ArendCalls: a TLA+ verification project

ArendCalls is a Go server that makes and takes WhatsApp voice calls for web panels, records them, and can move a
whole installation to another server. This directory holds TLA+ models of the parts of it that are concurrent,
survive crashes or talk over a network, the TLC runs that check them and the proofs that TLAPS checks.

Paths below are relative to `src/`; `S/` stands for `cmd/server/`.

## 1. Inventory of the system

| Component | Source | State | Operations | What is hard |
|---|---|---|---|---|
| Migration | `S/migration*.go` | persisted phase, id, manifest; `sessions.blocked`; `before.db`; the database itself | lock, file, commit, abort of the origin (A); import, rollback, boot of the destination (B) | two servers, lost and repeated requests, crashes between any two steps, ignored write errors |
| Recording | `S/recording_*.go`, `S/recordingstore.go` | table `call_recordings`, WAV files, bucket; live map, in-flight set, queue, `paused`, `busy` | arm, answer, end, finalize, enqueue, worker, sweep, pause/resume, boot recovery | callbacks outside the mutex, stale rows, crash recovery, queue limits |
| Call manager | `internal/voip/call/callmanager*.go`, `callstate.go` | `currentCall`, its state, relay data, SSRCs, under `m.mu` | start, accept, reject, end; offer, accept, transport, ack, terminate, ringing; relay callbacks; hold | events out of order, callbacks under the mutex |
| Session and registry | `S/session.go`, `S/callregistry.go` | map of active calls, reserved numbers, timer per call, client, login state | offer, events, wireCall's callbacks, timer, dial, drain, replaceClient | lock order, timer races, checks before registration |
| Broker | `S/broker.go` | records of calls, history, subscribers | upsert, setOwner, endCall, broadcast | read-modify-write, slow subscribers, RWMutex |
| HTTP API | `S/httpapi.go` | none of its own | start, accept, reject, end, WebRTC, hold, sessions | requests racing with callbacks |
| Session manager | `S/sessionmanager.go`, `S/sessionstore.go` | map and order of sessions, table of sessions, `blocked` | restore, create, rename, delete, logout, stop, start, pair, reload | database against memory, events of a client that was replaced |
| Relay transport | `internal/voip/transport/` | connections, keep-alives | configure, connect, fail, clean up | callbacks after the clean-up |
| Recorder, WAV, B2 | `internal/voip/recording/` | two queues of samples, file | write, flush, close; put, head | alignment of two legs, header written before data |
| Received media | `internal/voip/call/callmanager_media.go`, `internal/voip/media/srtp.go`, `rxstats.go` | window of packets seen, stream locked, roll-over counter of the SRTP context | packet in, packet out | copies of a packet on several goroutines, arithmetic modulo 2^16, the context written without a lock |
| Legs, hold | `S/bridge.go`, `S/wsbridge.go`, `S/agentleg.go`, `S/httpapi_audio.go`, `internal/voip/call/callmanager_hold.go` | the call's leg, its connection, the agent's conversation and queue, the hold loop | attach, replace, drop, grace, detach, close; hold; write, interrupt, end | exchanged while audio flows, dropped while the call ends, the last word of the agent |
| Audio tickets | `S/audioticket.go` | map of tickets | issue, redeem, expire | single use by requests that race |
| WhatsApp version | `S/waversion.go` | the slot of reconnections, the version | refresh after a 405 and at night | two reconnections and the requests that stop an account |
| Panel login, secrets, metrics | `S/panelauth.go`, `S/secretbox.go`, `S/metrics*.go` | small maps, a key | log in, encrypt | what is encrypted with which key when a migration moves it |
| MLow codec | `internal/voip/media/mlow/` | range coder, predictors of encoder and decoder, filters | encode, decode | each symbol's table depends on all that was coded before, on both sides |
| Web panel, packaging | `client/`, `packaging/` | | | |

How they interact: the event thread of whatsmeow calls `Session.handleEvent`, which finds the call in the registry
and calls its `CallManager`; the call manager calls back (`OnStateChange`, under `m.mu`) into session, recording,
registry and broker; HTTP handlers do both, from their own goroutines. A migration stops all of it through
`sessions.blocked`, `rec.pause` and the `guard` of the HTTP routes. `PROJECT.json` lists the hazards line by line.

What makes each part correct, in a sentence:

- Migration: the keys of an account never run on two servers, and never are on none; every migration ends.
- Recording: audio of a useful length is never lost and is delivered once it can be; a pause means quiet.
- Calls: a call that is over is over everywhere (state, registry, reservation, record, owner, relays), and a call
  that is not can be ended; one client answers.
- Sessions: an account that shows open is found again after a restart; while a migration blocks, no account runs.
- Legs: a ticket lets one request through; a call does not outlive its leg, nor a leg its call; the contact hears the
  agent to the end.
- Media: a packet is heard once and decrypted at its own position; the stream that is heard is not displaced.
- Recorder: the file has every sample, once and in order. Codec: the decoder reads what the encoder wrote.
- Transfer: an import takes all or nothing, and a download survives what it may.

## 2. Modules

| Module | Models | Composition |
|---|---|---|
| `KeyCustody` | the abstract promise of a migration: who has the keys, who runs with them | implemented by `Migration` |
| `Migration` | A and B with the network between them | `Custody == INSTANCE KeyCustody WITH ...` |
| `MigrationProofs` | theorems about `Migration` | extends `Migration`, `TLAPS` |
| `Recording` | one controller with its table, disk, bucket and workers | |
| `RecordingProofs` | theorems about `Recording` and `Recorder` | extends both, `FiniteSetTheorems`, `SequenceTheorems`, `TLAPS` |
| `MCRecording` | `Recording` started on a backlog | extends `Recording` |
| `Calls` | one call: call manager, session, registry, broker, HTTP handlers, timer, relay | |
| `CallsProofs` | theorems about `Calls` | extends `Calls`, `TLAPS` |
| `Sessions` | the accounts: rows, map, clients, handlers, requests, reconnections, the block of a migration | |
| `SessionsProofs` | theorems about `Sessions` | extends `Sessions`, `FiniteSetTheorems`, `SequenceTheorems`, `TLAPS` |
| `Legs`, `MCLegs` | who talks to the contact: legs, tickets, hold, the agent | `MCLegs` gives the budgets |
| `LegsProofs` | theorems about `Legs` | extends `Legs`, `TLAPS` |
| `Media`, `MCMedia` | received packets | `MCMedia` gives the packets |
| `MediaProofs` | theorems about `Media` | extends `Media`, `FiniteSetTheorems`, `TLAPS` |
| `Recorder` | the mixer of a recording and its file | the WAV that `Recording` sees as open, closed or lost |
| `RangeCoder` | range coder, one operator per method or turn of a loop | |
| `RangeStream`, `MCStream` | one stream, encoded and decoded turn by turn | extends `RangeCoder`; `MCStream` gives tables and foreign buffers |
| `StreamProofs` | theorems about `RangeStream` | extends `RangeStream`, `WellFoundedInduction`, `TLAPS` |
| `RangeLoops`, `Tables` | the loops of the range coder in one piece; frequency tables, as operators | extends `RangeCoder`; extended by `Codec` |
| `Codec`, `MCCodec` | a packet of the voice codec, written and read | `MCCodec` gives seeds and packets |
| `Transfer`, `MCTransfer` | the content of a migration: snapshot, download, import | the steps that `Migration` has as one each |
| `TransferProofs` | theorems about `Transfer` | extends `Transfer`, `SequenceTheorems`, `TLAPS` |

### Migration

`aPhase`, `aId`, `aSnap` and `bPhase`, `bError`, `bId`, `bSnap` are the persisted `migrationState` of A and B;
memory and disk change together because `update` stores the new state in memory only after the write succeeded.
`aKeys` and `bData` are what the databases hold. `aRun` and `bRun` say that clients with the keys may be connected;
`aBlocked` and `bBlocked` are `sessions.blocked`. A serves one request at a time (`opMu`), in one step or, where a
crash between two effects matters, in two (`aOp`): lock = persisted lock, then snapshot; commit = keys erased, then
tombstone. B's job is a goroutine whose control point is `bJob`; its steps are those of `runImport`, `afterImport`,
`commitLoop`, `rollback`, `failBeforeImport` and `finishAborted`, cut where something is persisted or another
process may intervene.

`net` keeps every request ever sent, so that a request is delivered late, twice or never. The answer reaches B if
B still waits for this call; `CallLost` is a time-out, a broken connection or a 5xx. `Persist` is `update`: on B's
side every caller ignores its error, so a failed write leaves the old phase and the job goes on. Two of these writes
`rollback` relies on: that of `rolling_back`, before it restores the backup, and that of `committing`, which takes
`rolling_back` back when the clone is kept. The history variable `unwritten` says that one of them failed: what happens
then is a finding (section 6), and the properties on the custody of the keys speak of everything else. A login uses
the keys at once (`AccountLogsIn`), but `connectedOnce` is set by the handler of the event (`HandleConnected`), on a
goroutine of whatsmeow's that `stopForMigration` does not wait for: `bLogin` is a login not handled yet, and the history
variable `late` says that `rollback` dropped one, having looked before it was handled. Accounts are represented by one. A snapshot is a number: equal numbers are equal `sha256`.

Not in this module: the content of the tables and of the files, the re-encryption of secrets and resumed downloads,
which are one step each here and are taken apart in `Transfer`; the check that no call is going on (an answer
"conflict" is always possible).

### Recording

A row is `status`, `notified`, `ups`, `nots`. `live`, `ans` and `fin` are the control points of a call's
recording: `onAnswered` leaves the mutex while it creates the WAV and the row, and `finalizeRecording` runs in the
goroutine that ended the call. Each worker is a control point `wp` and the row it read (`wrow`), stale from then
on. `len` is short (under `minRecordingMs`) or long; an upload of a WAV that is still open stores a `part`.
`pauser` is the migration that pauses. `resumer[r]` is each `resumeOnBoot`, started at boot and by every `resume`
without a look at one still running: it reads the rows left in `recording` (`todo[r]`), and for each looks at the WAV
(`ResumeStat`) and later writes its verdict (`ResumeStale`), whatever became of the row meanwhile. An `UPDATE` of a row
that is missing changes nothing, as in SQL. The attempts stop counting at `MaxAttempts`, beyond which the code tells no
two numbers apart. A crash drops everything but rows, files, bucket and configuration.

Two history variables: `salvaged`, the calls that `resumeOnBoot` took as interrupted while they were being recorded,
and `twice`, those whose row two recoveries took. `AudioNotLost` excludes the first, `DeliveredIsFinal` both;
`RecordingPartial.cfg` and `RecordingTwice.cfg` show what happens to them (section 6).

### Calls

`pc` is the control point of each process: the event thread, the dialling request, the goroutine that handles the
answer to the offer, the timer, the relay's callback and the clients. `mu` is `m.mu` for as long as `OnStateChange`
runs under it: `EmitRead`, `EmitWrite` and `EmitEnded` are its steps, so that other goroutines interleave with
them. `regMu` is the registry's mutex while `getByPeer` waits for `m.mu`. `dialed` is the reservation of the
number, `rec` the broker's record, `ends` the `call-ended` events sent.

The history variables name the ways in which the code loses or revives something on purpose or by accident, so that
the properties speak of everything else: `lost` (a live call left the registry: a dial that failed, a reject that
the state machine refused, a call answered just when its timer fired) and `ghost` (`doStartCall` wrote the record of
a call that was over).

Assumed: `TimerFires` needs a call (the 60 s are long enough for `HandleCallOffer` or `StartCall`); relays are one.

### Sessions

An account is a row of the table (`row`: the device it names), an entry of the manager's map (`reg`) and a whatsmeow
client (`cur`, an index into `cl`, the clients made). A client stays in `cl` when `replaceClient` exchanges it,
because its handlers are never removed and their late events still write the session (`auth`). Each client carries
what its connection is (`net`), the event its handler is about to act on (`h`) and its QR channel. Requests (`rq`)
create, pair, stop, start, restart, log out and delete, each cut where it lets go of a lock or calls the network.
`mig` is `stopForMigration` and `resumeAfterMigration`, `retry` and `night` are the two reconnections for a new
version, which share `slot`. `Restart` is a crash and `Restored` what `Restore` makes of rows and devices. External:
the whatsmeow client and its container of devices.

### Legs

`rq` is each request that brings a leg, at its control point: present the ticket, find the call, accept the
connection, `setBridge`, detach the old leg, close it, start. `leg` is each leg with its connection, whether its
callback is set, and how far its drop has come (`drop`: read, grace, asked whether the call is held, ended). `cur` is
`activeCall.bridge`, `call` the end of the call (out of the registry, its leg closed, media cleaned up). `hold` and
`music` are `SetHold` and the loops that play music, which a cleaned-up call must stop. `talk` is the agent's
conversation; its queue of audio is counted in halves of a frame, which is what the rest of a frame and the silence
before it need. Audio itself, resampling and the messages of the agent's service are data.

A call that was on hold when its leg dropped is left alone by the code, and by the property (`"held"`).

### Media

A packet is its stream and its position; the wire carries the position modulo `SeqMod`. Each relay forwards on its own
goroutine `w[r]`, and its steps are the places where the code holds no lock: `onRelayData` is the part under `m.mu`
(window of duplicates, choice of the stream, C1), then `Unprotect`, whose `readRoc`, `bumpRoc` and `writeLast` are
apart because nothing protects the context, then `Decode`, `commit` (C2) and `OnPeerAudio`. Nothing checks what was
decrypted, as in the code. `heard`, `fresh`, `inOrder` and `clear` are history variables.

### Recorder

Two buffers, fed by the media callbacks, and the goroutine that takes from both what the wall clock asks for. A sample
is its number, and a frame in the file shows which sample of each leg it has, so that alignment and loss are
visible. `disk` is behind `frames` by the buffered writer, whose error is kept (`full`). `Close` is three steps, since
it waits for the goroutine without the mutex. Left out: samples between the last flush and `closed`, which are
lost by design, and a second `Close`, which panics and which no caller makes.

### RangeCoder, RangeStream, Tables, Codec

`RangeCoder` has encoder and decoder as records with the width of symbols and code as constants: 2 and 10 (or 6) bits
in the runs instead of 8 and 32 make a carry through held symbols, and a buffer that fills, common. A method with a
loop is cut into what a turn does (`shiftOut`, `flushOut`, `shiftIn`, ...). `RangeLoops` puts the turns together again,
by recursion, for the codec, where a symbol is one step; `RangeStream` has an action per turn.

A stream in `RangeStream` is encoded (`EncodeCDF`, `Normalize`), ended (`Done`, `Flush`, `Release`: the buffer is then
written or refused) and decoded with the same tables (`Open`, `DecodeCDF`, `DecNormalize`); or a buffer that somebody
else made is decoded, which is what happens to each packet a peer sends (`OpenForeign`). Any table may follow any
other. `ideal` is a history variable: the intervals of a coder whose numbers have no bound, so that it neither emits a
byte nor carries. The properties compare the coder with it. Two assumptions on tables (`TablesAssumption`, and
the guard of `EncodeCDF`) are the code's: a table's total is at most `CodeBot` (2^23 there, and an entry has 16 bits),
and no symbol of width zero is encoded.

`Tables` expands the
embedded seeds as the code does (`LoadTables`, kept in `tables` as in package variables), for small seeds that satisfy
what the code relies on (`SeedAssumption`). In `Codec`,
`EncodeSmplFrame` writes a packet in one action, and the decoder reads one symbol per action, in the table its own
state selects: selector, grid, residual, pulses (count, splits, runs, signs), gains, codebook, contour, lag,
differences. `st` is the predictor kept between packets, and starts with what an earlier packet may have left. Before
it comes the first byte (`ParseSmplTOC`), also of a peer that sends comfort noise or Opus. Where the code
approximates the distribution of splits and runs in fixed point, the exact one is taken. The number of subframes is
the code's; positions, pulses, gains, contours and internal frames per packet are fewer.

### Transfer

One migration: A's snapshot (`VacuumInto`, the secrets and columns it carries, a hard link or a copy per recording,
the sums), the downloads with `Range`, and B's preparation and import. A recording that is finished meanwhile
changes the file that a hard link serves, but not the copy. `body` is what the source still sends of an answer, so
that a download breaks off anywhere, resumes, is answered whole where a part was asked for, or refused. A file is the
sequence of its blocks and a sum is the content summed. `site` are the keys, the secret and the columns of both servers.

While recordings are placed, a move may fail and leave a piece or a whole copy (`halfMoved`), a removal may fail and leave
what was placed (`RemoveFiles(kept)`: the code ignores the error), and B may be restarted (`RestartB`), after which
`failBeforeImport` removes nothing. The history variable `left` has these places, and those in which an earlier
migration left something (`Earlier`), which the import writes over. A restart of B during a download ends the migration
in the same way, before anything was placed.

## 3. Runs

| Run | Bounds | Shows |
|---|---|---|
| `migration` | 2 ids, 2 locks, 2 crashes, no failed write, forced unlock and duplicates allowed, 2 abort attempts | the refinement of `KeyCustody`; migrations end; a commit reaches A |
| `migration_faults` | the same with 2 failed writes | the golden rule; but for the two writes that `rollback` relies on: the keys are never lost, phase and database agree, A never refuses B's commit unless forced, A erases only what B has; whatever else fails, a login that `rollback` could see keeps the clone at B |
| `recording` | 1 call, 1 worker, queue of 1, 2 recoveries, 1 pause, 1 crash, 1 failed write, 1 attempt | audio not lost; webhook only for what is stored; quiet during a pause; delivered is final; a recording is closed |
| `recording_backlog` | 2 calls, 2 workers, queue of 1, 2 attempts, no crash | one worker per call; the backlog is worked off |
| `calls` | 1 event, 1 request, 2 clients | reservation; live calls are registered; one `call-ended`; ended is final; ringing ends; the record goes |
| `sessions` | 1 account, 2 requests, 2 clients, 2 devices, 1 fault, 1 migration | an open account survives a restart; a migration ends up quiet |
| `legs` | the five budgets of `MCLegs`: two requests with a ticket or a hold, three holds, a request and the agent, an agent of three events | the agent is heard out; tickets once; no call without leg; no leg without call |
| `media` | 2 relays, 2 streams, numbers modulo 5, window of 3, silence of 1 instant, 2 instants | heard once; in order is clear; the lock is not stolen |
| `recorder` | 2 legs, 3 samples each, cap of 3, 2 pending, 4 instants | the file is faithful; `Close` returns |
| `stream` | symbols of 2 bits, 6 bits of code, a buffer of 5; streams of up to 4 symbols in 3 tables, 5 foreign buffers | the encoder is exact; the decoder stays in range; what was coded is read |
| `codec` | symbols of 2 bits, 10 bits of code, a buffer of 34; 2 positions, 2 pulses, 5 contours; one or two internal frames | encoder and decoder in step; the frame comes back |
| `transfer` | 2 recordings, 3 attempts, 3 faults, 4 pairs of servers, each place empty or with a piece in it | downloads survive; all or nothing |

The runs have between 21 000 and 3 million distinct states.

Why the bounds are enough to be interesting: two ids let a late request of one migration meet the next; two crashes
let both servers, or one server twice, die; one failed write already separates memory, table and disk, and the faults
run has two. In `recording` one call suffices for races inside a recording, because calls share only the queue, the
workers and the pause, which `recording_backlog` stresses with more calls than the queue holds; a boot and one pause
cannot start more than two recoveries. One peer event with
the dial, the answer to the offer, the relay, the timer and a request gives five concurrent processes in `calls`; the
safety properties were also checked once with two events and two requests (15 million states). In `sessions` two
clients are one and the one it was replaced with, two requests are enough for one to overtake the other, and accounts
share only the slot and the block. The budgets of `legs` take each thing that interferes with an exchange of legs by
itself, because together they are out of reach. In `media` the numbers come round once within the stream, the window
is as wide as the assumption `WindowIsWide` demands and no wider, and two relays give every race of two copies.
`stream` reaches buffers that are refused, two and more bytes held back at once and a carry through them. `codec` has
packets whose last internal frame continues the first, and frames that do not fit the buffer and are refused; the
pulses of two subframes take all values. In `transfer` as many faults as attempts are what it takes to lose a
download.

Deadlock is not checked, because every one of these systems legitimately comes to rest, at the bounds or when a
migration, a recording, a call, a packet or an import is over; the liveness properties look for the deadlocks that
matter.

Every property has a mutant in `PROJECT.json`: the plausible mistake in the code that it detects. `TypeOK`,
`ManifestPresent` and `TombstoneForever` of `Migration` and `CarryHasPlace` of `RangeStream` are in no run: they are
proved.

### Fairness

- `Migration`: a process that is up goes on (`JobB`, `OperationA`), a process that died is started again, a call
  ends by its time-out (`CallLost`); and of the commits that `commitLoop` repeats for ever some reach A while B waits
  (strong fairness of `CommitDelivered`), the assumption that the network is not down for ever. Nothing is assumed
  of crashes, write errors, the administrator or the accounts.
- `Recording`: goroutines go on; the ticker sweeps (weak fairness of `Sweep`: a row that stays pending while the
  sweep may queue it is queued); nothing about calls, pauses, configuration, faults, crashes. The liveness
  properties name the ways out: attempts used up, no destination, paused.
- `Calls`: goroutines go on and the timer fires. Nothing about the peer, the clients or the relay. `RingingEnds`
  and `EndedLeavesPanel` except the lock cycle of section 6.
- `Sessions`: handlers, requests, the migrator, the reconnections go on and a QR channel times out. Nothing about
  logins, faults, new requests or the end of a migration: `MigrationQuiet` speaks of a block that lasts.
- `Legs`: goroutines go on, the grace timer fires, and a service that was closed hangs up. Nothing about browsers,
  tickets or the peer.
- `Recorder`: the goroutine's `select` takes a branch that stays ready, and `Close` goes on.
- `Media`, `RangeStream`, `Codec` and `Transfer` have no liveness property and no fairness.

## 4. What is proved

Every safety property that a run checks is also a theorem for every value of the constants, except the
two of `Codec`, a packet as a whole.
The argument is the same everywhere: an invariant that a step keeps (one case per action, or per group of actions that
leaves the parts of the invariant alone) and that implies the property; TLC checked each invariant on the run's instance
before it was proved. The assumptions are the `ASSUME`s of the modules: names that are distinct, bounds that are
natural numbers, and the few named below.

### MigrationProofs

For every set of ids and every bound: any number of migrations, crashes, failed writes, abort attempts, and late or
repeated requests.

- `TypeCorrect`: `TypeOK`, from `TypeFlags` (inductive by itself) and `DataInv`, which adds that a migration that
  B works on has an id (`IdKnown`), without which the requests B sends would not be well typed.
- `GoldenRuleHolds`: the golden rule. `GoldenRule` is not inductive: nothing in it says why A cannot be started
  while B runs. `GoldenInv` adds, as named parts,
  - `DataFollowsJob`: B's control point and phase tell whether its database is the clone;
  - `OperationLocked`: during its own operations A is locked;
  - `RequestsTrace`: ids are not reused, and an abort of B's migration was sent only if B does not hold the keys;
  - `Frozen`: while B holds a snapshot, A is locked by B's migration or migrated, and not running, unless forced;
  - `ManifestKept`: B has the manifest from the answer to the lock on.
  The step lemma `GoldenStep` has one case per action. The heart of it: an abort in `net` cannot unlock A while B
  is live (`RequestsTrace`), a second lock cannot be accepted while A is locked (`blocksSource`), and a reboot
  reads the persisted phase.
- `ManifestAlwaysPresent`: B has the manifest wherever it can reach a commit (`ManifestPresent`), from `ManifestKept`.
- `TombstoneIsForever`: `[][aPhase = "committed" => aPhase' = "committed"]_vars`.

What follows is false after a failed write of `rolling_back`, or of the `committing` that takes it back (section 6), so
these properties exempt such behaviours (`unwritten`), and no other: any other write may fail, any number of times.
Nothing is assumed of crashes, repeated requests or an unlock by hand. The invariant `CustodyInv` says, while
`~unwritten` and on top of `GoldenInv`: phase and control point agree as far as a failed write lets them
(`PhaseFollowsJob`), a commit that was sent is never taken back (`CommitsFinal`), A's keys are gone only by a commit
(`WipedByCommit`), the snapshot a commit names is the one B imported (`SameSnapshot`), a refusal comes from a forced
unlock (`RefusalForced`). That a used clone stays (`UsedKept`) holds whatever fails.

- `KeysAreNeverLost`, `PhaseIsTrue`, `CommitIsNeverRefused`: the state properties that exempt `unwritten`.
- `SeenLoginsKeepClone`: A resumes with used keys only after a force, a crash in `rolling_back` or a login handled too
  late. `UsedKept`: a login of the clone is on its way to `connectedOnce` (`bLogin`), or there, or B is past the point
  at which `rollback` may begin.
- `WipesOnlyCloned`: each step of A that erases keys erases keys that B has.
- `KeepsCustody`: the refinement of `KeyCustody`, for the behaviours with `[]~unwritten`. Initial states map to
  initial states and each step to a step (`Copy`, `Run`, `Force`, ...) or a stutter, with one case per action, since `Frozen` gives the guard under which B
  may take the keys and `UsedKept` the one under which it gives them up.

### CallsProofs

For every set of clients and any number of events and requests; clients are not the names of the other threads.

- `EndedStaysEnded`: `EndedIsFinal`, from the inductive invariant `CreatedOnce`. Looking at one step is not enough:
  the offer's goroutine and the dialling one write a fresh state over whatever is there, so the invariant says that
  whoever is about to create the call finds none, and that a terminate is handled only for a call that exists.
  `Transitions` states what the functions of callstate.go keep, `CallStep` has one leaf per few actions.
- `ReservationIsReleased`, `LiveStaysRegistered` and `EndedIsToldOnce` from one invariant, `BooksInv`, because the three
  books hang together: who may still bind the number (`Reservation`), who is still to write or to end the record
  (`Unannounced`, `EndedBooks`), which thread has seen the end of the call (`EndSeen`).

### RecordingProofs

For every set of calls and workers, any queue, attempts, pauses, crashes and failed writes, from `RecordingInv`:

- `NeverTwoWorkers`, from `QueueInv`: what is in the queue or with a worker is in flight, once.
- `PauseIsQuiet`, from `PauseInv`: the pause waits for `busy`, and a worker that has not begun sees `paused`.
- `AudioIsKept` and `OnlyStoredIsNotified`: a WAV is opened once in the life of a call (`LifeOnce`). `RowsSettled`: a
  row is settled only after its capture, a worker between the upload and the removal of the WAV has a row that waits
  for it, and it reaches the removal only with the whole WAV in the bucket, so the audio is in the WAV or whole in the
  bucket. `Stored`: a row that is ready or has been notified, and a worker past the verification, have something in
  the bucket.
- `DeliveredStaysDelivered`: no step takes up what was delivered or discarded, for any number of recoveries that
  overlap. `RowsOnce`: a row that a recovery still has on its list is in `recording`, unless another recovery took it as
  well or it was being recorded.

The calls that the properties exempt are exempt here (`salvaged`, `twice`).

And of `Recorder`, for any cap, limit of the buffers, buffer of the file and clock. `RecorderLegs` says that there are
at most two legs, operator and peer, as in the code.

- `FileIsFaithful`: `Faithful`, from `RecorderInv`: a channel has the samples `1..g` in order and the leg's buffer those
  after them (`InPlace`), which a flush keeps whatever it cuts off or fills up; and nothing is flushed once the
  goroutine is done (`Ended`), without which a successful `Close` would not mean that all is on disk.

### TransferProofs

For any number of recordings, attempts and faults, from `TransferInv`, which follows a recording from its WAV at A
through link or copy, sum, staging directory and place.

- `NoAttemptIsWasted`: `DownloadSurvives`. What is staged is a prefix of the file that was summed, so that a part and
  its rest make the whole; it takes a fault, or a source that changed, to spend an attempt.
- `ImportIsAllOrNothing`: `AllOrNothing`, for any `Earlier`. B's own database is replaced in one step, when every
  recording of the manifest is in its place (`Placed`, whatever was there before); a migration that does not come so far
  leaves files in the places of `left` only (`Removed`, and `Imported` through a restart).

### SessionsProofs

For any finite set of accounts (`SessionsFinite`; a restart numbers the clients), any requests, clients, devices,
faults and migrations.

- `OpenIsFoundAgain`: `OpenSurvivesRestart`, from `IInv`. What writes "open" into a session writes the device of its
  *current* client, although the event may come from one that was replaced; so a client that is logged in and whose
  event was handled is the one in the row (`Opened`). A device is of one client, of one account and in one row
  (`Devices`), so that what another client loses is not this one's; keys go with their client or with a deletion that
  is under way (`KeysHeld`). A client that dials has a device, which its type has to say (`Sound`). Most steps move
  connections and events only (`Calm`) and share a lemma; those that register, replace, log out, delete, scan,
  open or restart have one each.

### LegsProofs

For any tickets, requests and budgets.

- `OnlyOnce`: `TicketOnce`, from `HeldIsBurned`: a ticket that a request holds is burned, and a request that has not
  yet presented one holds none. Every action but `issue`, `Expire` and `Credential` leaves tickets alone (`Unmoved`,
  `GoesOn`).
- `GoodbyeIsPlayed`: `GoodbyePlayed`, from `PlayedInv`. The agent's leg ends the call along a chain of control points
  (drop, grace, question, end), and the chain starts only where nothing is left in the queue and no more can come
  (`Chain`).

### MediaProofs

For any relays, streams, window and times.

- `NotStolen`: `LockNotStolen`, from the invariant of `Inductive`. C1 and C2 are two looks at the lock with an unlocked
  decryption between them. What has to be carried across is `Overtaken`: a candidate that the locked stream has
  overtaken holds a time no later than the lock's, which holds because the lock's time never goes back. `Times`
  has the types this needs. One lemma per action that touches the lock, the clock or a goroutine's packet (`Comes`,
  `Commits`, `Lets`, ...), the rest by `Kept`.
- `OrderIsClear`: `InOrderIsClear`, for any modulus, from `ClearInv`: as long as one goroutine at a time
  decrypts one stream in order, the context holds the last position, split in number and roll-overs (`Following`).
  `DivMod` and the lemmas after it are the arithmetic of `updateRoc` at a roll-over.
- `HeardIsOnce`: `HeardOnce`, from `HeardInv`. A packet that was let through is in the window until so many later ones
  came that no copy of it can still come (`Remembered`). This is a pigeonhole: the entries of the window are distinct
  packets of a stretch of the wire, which is where `WindowIsWide` is needed (`NotTheOldest`).

### StreamProofs

For every width of symbols and code (`WidthsAssumption`: the code is more than two symbols wide), every size of the
buffer, any tables that satisfy `TablesAssumption` and streams of any length. The invariant has four parts, each on
top of those before it.

- `CarryFindsPlace` (`CarryHasPlace`: a carry finds a byte held back that is not the maximum) and `AnyBytesInRange`
  (`DecoderInRange`), from `StreamTyped` and `Contained`: the register together with its interval lies in the whole,
  or one carry above it, and then a byte that is not the maximum is held back. The decoder's half needs nothing of the
  encoder, so it holds for any buffer.
- `EncodedExactly` (`Exact`), from `Accurate`: the bytes that left, those held back included, and the register make
  the number of the ideal coder, as long as no byte was refused. A step that emits a byte rewrites the tail of
  `Number(Bytes(enc))`; the lemmas on `Number` say what a further byte, a run of maxima and a carry through it do.
- `WhatWasCodedIsRead` (`ReadsBack`), from `OnItsWay` and `Follows`: the ideal intervals are a way, each one a part of
  the one before, as the symbols ask; so the number that `Done` chose lies in each of them (`WrittenHolds`), with
  zeros read past the end of the buffer. The decoder goes the same way: its interval is the ideal one, its value the distance of
  the number read so far from the interval's end, and a distance lies in the part of one symbol only.

The prover takes no induction over a predicate, but a set of naturals has a least element (`WFMin` of the library), and
that gives induction over a set (`SetInduction`). With it `TwoLaw` and `NumberLaw` say that the two recursive functions,
powers of two and the number of a sequence of bytes, obey their recursions, and the rest of the arithmetic follows.

### Only model-checked

Liveness, everything with `ENABLED` and fairness are out of the prover's reach: `MigrationEnds`, `CommitReachesSource`,
`RecordingCloses`, `HandoffEnds`, `RingingEnds`, `EndedLeavesPanel`, `MigrationQuiet`, `NothingOutlives`, `DeadLegEnds`,
`CloseReturns`. So are `InSync` and `FrameReturns` of `Codec`: its tables are built, and a whole packet is encoded in
one step, by recursive operators, which the prover does not take. What `StreamProofs` proves covers the coder under
them, for any choice of tables; that both sides of the codec choose the same tables is what the run checks.

## 5. Not modelled

- The codec's analysis and synthesis are floating point on samples. Redundant packets are never switched on, the
  low-rate mode and raw bits at the back of the buffer are used by no frame the program sends. The inflation of the
  seeds and the fixed-point shape of two distributions are replaced by their results. `LoadCcTables` builds its tables
  at the first use without synchronisation (`cc_tables.go:396`), which the model does not show.
- Construction and parsing of XML stanzas, the socket adapter, metrics and the web panel keep no state that a model
  checker would say something about. The panel's login is one map under one mutex.
- Several calls of one session: limits, owners that dial twice, `drain`, two sessions of this server that share a
  call's id. The broker's subscribers and its RWMutex. Relays one by one, and an answer that connects relays of a call
  that was cleaned up. Mute, duplicate offers and the exchange of SRTP keys.
- Recording: the redelivery endpoint and the listing; a recording armed after its call has ended. The webhook is
  delivered at least once, and no property says more.
- Names, webhooks and settings of accounts; statistics of received audio; packets sent.

`PROJECT.json` gives for each hazard without a property the reason.

## 6. What the checks found

Each of these has a finding in `PROJECT.json`. A configuration named here states what a comment or a test of the
repository says, and TLC violates it: `tlc -config MigrationTargetUsable.cfg Migration.tla`, and so on.

1. `MigrationTargetUsable.cfg` (`AbortedMeansUsable`): `rollback` blocks the sessions and, when it restores the backup,
   never unblocks them.
2. `MigrationLateLogin.cfg` (`StaleKeysNeverResume`): an account logs in before `rollback` stops the accounts, its
   Connected event is handled after `rollback` looked at `connectedOnce`, and A resumes with an old state.
   `MigrationStaleKeys.cfg` (`NotedLoginKeepsClone`): the login was noted, but the flag is volatile, and a crash in
   `rolling_back` makes B forget it. `SeenLoginKeepsClone` exempts these two (`late`, `lostOnce`).
3. `RecordingPartial.cfg` (`ReadyMeansWhole`): a failed lock resumes recordings with `resumeOnBoot` after the accounts
   work again; a call that is being recorded is taken as interrupted, its WAV uploaded as far as it goes and removed.
4. `CallsLocks.cfg` (`NoLockCycle`): registry mutex and `m.mu` are taken in both orders.
5. `CallsClaim.cfg` (`OneClaim`): a state change overwrites a claim made between its read and its write of the record.
6. `CallsOwner.cfg` (`EndedFreesOwner`): `doStartCall` writes the record of a call that has ended meanwhile.
7. `MediaLock.cfg` with `MCMedia.tla` (`LockDecodes`): a comment says that a stream that does not decode never captures
   the lock, but neither the decryption nor the codec ever refuses a packet.
8. `SessionsDeleted.cfg` (`DeletedIsOff`): the deletion of a paired account whose logout fails leaves its client
   logged in.
9. `MigrationKeysLost.cfg` (`ErasedMeansArrived`): `rollback` ignores that its write failed (`migration_target.go:775`),
   and the keys are lost in two ways. It restores the backup, B crashes, boots in `connecting`, takes the phase for the
   clone and commits, and A erases the only keys. Or it keeps the clone and the write of `committing` fails,
   the phase stays `rolling_back`: after the commit B crashes, and its boot restores the backup over the only keys.
   `KeysNeverLost`, `PhaseTellsData`, `CommitNeverRefused` and `WipeOnlyCloned` exempt just these (`unwritten`).
10. `TransferLeftovers.cfg` with `MCTransfer.tla` (`NothingLeft`): B is restarted while recordings are placed, and what
   was placed stays, although the administrator is told that the instance was not changed. Errors leave files behind
   too: a copy that breaks half way or whose original cannot be removed, and every `os.Remove` that fails, which
   `removeFiles` ignores. `AllOrNothing` exempts these places (`left`).
11. `RecordingTwice.cfg` (`SalvagedOnceIsFinal`): `resume` starts a recovery beside one that is still running; both have
   the same row, and the slower one sets the recording that the other delivered to failed, or to be uploaded again.

Seen with the models besides:

- A crash between the removal of the staging directory and the write of the final phase
  (`migration_target.go:864-866`) makes the next boot roll back without a backup, which empties B's database.
- `rollback` too ignores the errors of the removals of placed recordings (808-815), which no model shows.
- A recording armed after its call ended leaves an entry in `live`, and `liveCount` then refuses every migration.
- `InOrderIsClear` is about one stream in order: the roll-over counter is shared by all streams and written without a
  lock, so that two streams, or two relays around a roll-over, can disturb it.
- The recorder counts samples as written when their write failed, and its header reaches the disk only with the first
  64 KB, so that a crash before that leaves an empty file.

## 7. Plan

To model: several calls of one session (reservations, limits, `drain`, one owner per call); the broker with bounded
subscribers, its RWMutex and the session manager's; late relays; the redelivery of recordings.

To prove: that encoder and decoder of the codec select the same tables, with `Codec` turn by turn as `RangeStream` is;
the types of `Calls`, `Legs` and
`Transfer` as theorems of their own; and with each new module, its safety properties.

## 8. Running

`tlc -config Migration.cfg Migration.tla` (and likewise for each line of "runs" in `PROJECT.json`) and
`tlapm MigrationProofs.tla`, likewise the other modules named `...Proofs`. The runs take between
seconds and about two minutes with two workers.
