------------------------------ MODULE Transfer ------------------------------
(***************************************************************************)
(* What a migration carries, and how: A's buildSnapshot, the files it      *)
(* serves, B's downloads with their retries, the preparation of the        *)
(* snapshot and its import (migration_source.go, migration_target.go).     *)
(* Migration has each of these as one step that succeeds or fails; here    *)
(* they are taken apart, for one migration, with what goes on meanwhile: a *)
(* call whose recording is closed late, an administrator who unlocks A, a  *)
(* network that drops, refuses or ignores Range.                           *)
(*                                                                         *)
(* File 0 is the database; file c is the WAV of recording c, in the order  *)
(* of the rows.  A file is the sequence of its blocks; the first block of  *)
(* a WAV is its header, written when the recorder is closed.  A sha256 is  *)
(* the content it was taken of.                                            *)
(***************************************************************************)
EXTENDS Integers, Sequences

CONSTANTS Last,        \* the recordings are 1 .. Last
          Attempts,    \* maxAttempts (6)
          MaxFaults,   \* bound: what the network and the disks may do wrong
          Sites,       \* the pairs of servers: keys, a secret, table columns
          Earlier      \* what an earlier migration left where a recording goes

ASSUME CountsAssumption == Last \in Nat /\ Attempts \in Nat /\ MaxFaults \in Nat

Files == 0 .. Last
Recs == 1 .. Last
Db == <<"d1", "d2">>
OpenWav == <<"blank", "a1">>
ClosedWav == <<"header", "a1", "a2">>
Absent == <<>>

VARIABLES
    site,     \* the two servers
    wav,      \* A: the local WAV of each recording, Absent when it is gone
    row,      \* A: the status of each recording
    locked,   \* A: the migration holds the lock
    snap,     \* A's snapshot: status of the recordings, secret, columns
    linked,   \* the recordings served through a hard link
    copied,   \* the recordings served as a copy, with their content
    mf,       \* the manifest: the content each file was summed with
    job,      \* where the migration is
    f,        \* the file it is at
    try,      \* the attempt at this file, from 1
    body,     \* the blocks the source still sends: the next and the last
    staging,  \* B: the files downloaded so far
    dest,     \* B: the recordings in their place
    bdb,      \* B's database: its own, or what was imported
    left,     \* history: the places at B in which a file is left by a migration
              \* that ended and did not import
    faults    \* what went wrong so far

source == <<site, wav, row, locked, snap, linked, copied, mf>>
vars == <<source, job, f, try, body, staging, dest, bdb, left, faults>>

Fault == faults < MaxFaults /\ faults' = faults + 1

\* g, and v at x.
With(g, x, v) == [y \in DOMAIN g \cup {x} |-> IF y = x THEN v ELSE g[y]]

-----------------------------------------------------------------------------
(* Secrets: a value is "plain" or names the key it is encrypted with. *)

readable(key, v) == v = "plain" \/ v = key

\* Mutant: the values leave A as they are.
secretsAsTheyAre(v) == v

\* decryptSecretsForTransfer: what A cannot decrypt stays as it is.
decryptSecrets(v) == IF readable(site.aKey, v) THEN "plain" ELSE v

\* prepareSnapshot: B encrypts what is plain when it has a key.
recrypt(v) == IF v = "plain" /\ site.bKey # "none" THEN site.bKey ELSE v

-----------------------------------------------------------------------------
(* A: the snapshot. *)

\* The rows that have a local file not delivered yet.
pending == {c \in Recs : snap.row[c] # "ready"}

\* VACUUM INTO, then the secrets are decrypted in the copy.
VacuumInto ==
    /\ job = "vacuum"
    /\ snap' = [row |-> row, secret |-> decryptSecrets(site.secret), cols |-> site.aCols]
    /\ job' = "collect" /\ f' = 1
    /\ UNCHANGED <<site, wav, row, locked, linked, copied, mf, try, body, staging, dest, bdb,
                   left, faults>>

\* Not pending, or its WAV is missing: a warning, and no file.
SkipFile ==
    /\ job = "collect" /\ f \in Recs
    /\ f \notin pending \/ wav[f] = Absent
    /\ f' = f + 1
    /\ UNCHANGED <<source, job, try, body, staging, dest, bdb, left, faults>>

\* linkOrCopy: a hard link shares what is written to the WAV from now on.
LinkOrCopy ==
    /\ job = "collect" /\ f \in pending /\ wav[f] # Absent
    /\ \/ linked' = linked \cup {f} /\ job' = "sum" /\ UNCHANGED <<copied, faults>>
       \/ copied' = With(copied, f, wav[f]) /\ job' = "sum" /\ UNCHANGED <<linked, faults>>
       \/ Fault /\ job' = "refused" /\ UNCHANGED <<linked, copied>>
    /\ UNCHANGED <<site, wav, row, locked, snap, mf, f, try, body, staging, dest, bdb, left>>

\* What the source serves as file x.
served(x) == IF x = 0 THEN Db ELSE IF x \in linked THEN wav[x] ELSE copied[x]

SumFile ==
    /\ job = "sum"
    /\ mf' = With(mf, f, served(f))
    /\ job' = "collect" /\ f' = f + 1
    /\ UNCHANGED <<site, wav, row, locked, snap, linked, copied, try, body, staging, dest, bdb,
                   left, faults>>

\* The database last; the answer takes the manifest to B.
SumDb ==
    /\ job = "collect" /\ f > Last
    /\ mf' = With(mf, 0, Db)
    /\ job' = "open" /\ f' = 0 /\ try' = 1
    /\ UNCHANGED <<site, wav, row, locked, snap, linked, copied, body, staging, dest, bdb,
                   left, faults>>

\* The recording of a call that slipped in before the lock is closed: first the
\* file, then the row.
CloseWav(c) ==
    /\ row[c] = "recording" /\ wav[c] = OpenWav
    /\ wav' = [wav EXCEPT ![c] = ClosedWav]
    /\ UNCHANGED <<site, row, locked, snap, linked, copied, mf, job, f, try, body, staging,
                   dest, bdb, left, faults>>

FinishRow(c) ==
    /\ row[c] = "recording" /\ wav[c] = ClosedWav
    /\ row' = [row EXCEPT ![c] = "uploading"]
    /\ UNCHANGED <<site, wav, locked, snap, linked, copied, mf, job, f, try, body, staging,
                   dest, bdb, left, faults>>

\* The administrator unlocks A: handleMigrationFile refuses from now on.
AdminUnlock ==
    /\ locked /\ 0 \in DOMAIN mf
    /\ locked' = FALSE
    /\ UNCHANGED <<site, wav, row, snap, linked, copied, mf, job, f, try, body, staging, dest,
                   bdb, left, faults>>

-----------------------------------------------------------------------------
(* B: download, one file after the other. *)

downloading == <<source, f, dest, bdb, left>>

Put(x, content) == staging' = [staging EXCEPT ![x] = content]

size == Len(mf[f])

\* A failed attempt is repeated after a pause, up to the last.
Retry ==
    IF try < Attempts THEN job' = "open" /\ try' = try + 1
                      ELSE job' = "lost" /\ UNCHANGED try

\* downloadOnce: what is there is kept, unless it is too long; nothing is
\* requested when it is all there.
OpenFile ==
    /\ job = "open"
    /\ Put(f, IF Len(staging[f]) > size THEN Absent ELSE staging[f])
    /\ job' = IF Len(staging[f]) = size THEN "verify" ELSE "request"
    /\ UNCHANGED <<downloading, try, body, faults>>

\* Mutant: an answer that ignores Range is appended to what is there.
keepOnWhole(have) == have

\* A 200 answers with the whole file: what is there is discarded.
truncateOnWhole(have) == Absent

\* The source answers: what is missing of the file (206), or all of it when
\* nothing was there or something on the way ignores Range (200).
Respond ==
    /\ job = "request" /\ locked
    /\ \/ /\ staging[f] # Absent
          /\ body' = [next |-> Len(staging[f]) + 1, last |-> Len(served(f))]
          /\ UNCHANGED staging
       \/ /\ Put(f, truncateOnWhole(staging[f]))
          /\ body' = [next |-> 1, last |-> Len(served(f))]
    /\ job' = "body"
    /\ UNCHANGED <<downloading, try, faults>>

\* 409: the migration is not locked any more; nothing is repeated.
RespondConflict ==
    /\ job = "request" /\ ~locked
    /\ job' = "refused"
    /\ UNCHANGED <<downloading, try, body, staging, faults>>

\* No connection, or an answer of 5xx, 408 or 429.
RequestFails ==
    /\ job = "request"
    /\ Fault /\ Retry
    /\ UNCHANGED <<downloading, body, staging>>

\* 416 to a request for the rest: from the start next time.
RangeRefused ==
    /\ job = "request" /\ staging[f] # Absent
    /\ Fault /\ Retry
    /\ Put(f, Absent)
    /\ UNCHANGED <<downloading, body>>

\* A block of the body arrives, as the source reads it from its file.
Receive ==
    /\ job = "body" /\ body.next <= body.last
    /\ Put(f, Append(staging[f], served(f)[body.next]))
    /\ body' = [body EXCEPT !.next = @ + 1]
    /\ UNCHANGED <<downloading, job, try, faults>>

Drop ==
    /\ job = "body" /\ body.next <= body.last
    /\ Fault /\ Retry
    /\ UNCHANGED <<downloading, body, staging>>

BodyEnds ==
    /\ job = "body" /\ body.next > body.last
    /\ job' = "verify"
    /\ UNCHANGED <<downloading, try, body, staging, faults>>

\* download: accepted only with the size and sha256 of the manifest, else
\* removed and fetched from the start.
Accept ==
    /\ job = "verify" /\ staging[f] = mf[f]
    /\ LET more == {x \in DOMAIN mf : x > f}
       IN IF more = {} THEN job' = "prepare" /\ UNCHANGED <<f, try>>
          ELSE /\ \E x \in more : (\A y \in more : x <= y) /\ f' = x
               /\ try' = 1 /\ job' = "open"
    /\ UNCHANGED <<source, body, staging, dest, bdb, left, faults>>

Discard ==
    /\ job = "verify" /\ staging[f] # mf[f]
    /\ Put(f, Absent)
    /\ Retry
    /\ UNCHANGED <<downloading, body, faults>>

-----------------------------------------------------------------------------
(* B: the import. *)

importing == <<source, try, body>>

\* prepareSnapshot: B's version of the tables, its key, its paths.  A check of
\* the file, the pause of the recordings or the backup may fail instead.
PrepareSnapshot ==
    /\ job = "prepare"
    /\ bdb' = [bdb EXCEPT !.next = [row |-> snap.row, secret |-> recrypt(snap.secret),
                                    cols |-> snap.cols \cup site.bCols,
                                    here |-> DOMAIN mf \ {0}]]
    /\ job' = "place" /\ f' = 1
    /\ UNCHANGED <<importing, staging, dest, left, faults>>

PrepareFails ==
    /\ job = "prepare"
    /\ Fault /\ job' = "failed"
    /\ UNCHANGED <<importing, f, staging, dest, bdb, left>>

\* The recordings moved so far.
placed == {c \in Recs : c \in DOMAIN mf /\ c < f}

\* removeFiles(placed): an error is ignored, and the files of kept stay.
RemoveFiles(kept) == [c \in Recs |-> IF c \in placed \ kept THEN Absent ELSE dest[c]]

\* The next recording of the manifest in its place, over what is there: renamed,
\* or copied and removed when it is on another disk.
MoveFile ==
    /\ job = "place" /\ f \in Recs
    /\ IF f \in DOMAIN mf
       THEN /\ dest' = [dest EXCEPT ![f] = staging[f]]
            /\ Put(f, Absent)
       ELSE UNCHANGED <<dest, staging>>
    /\ f' = f + 1
    /\ UNCHANGED <<importing, job, bdb, left, faults>>

\* What may be in the place of f when its move did not come to its end: nothing
\* new, a piece of the copy, or the copy beside an original that is still there.
halfMoved == {dest[f]} \cup {SubSeq(staging[f], 1, n) : n \in 0 .. Len(staging[f])}

\* No directory, no rename and no whole copy, or the original cannot be removed
\* after it: what was placed is removed, what is in the place of f is not.
MoveFails ==
    /\ job = "place" /\ f \in DOMAIN mf
    /\ Fault
    /\ \E part \in halfMoved, kept \in SUBSET placed :
          /\ dest' = [RemoveFiles(kept) EXCEPT ![f] = part]
          /\ left' = (left \ placed) \cup kept \cup {f}
    /\ job' = "failed"
    /\ UNCHANGED <<importing, f, staging, bdb>>

\* cloneTx: columns of A that are only kept for old databases are left out; any
\* other column B does not have refuses the import.
legacy == {"api_key"}
cloned == bdb.next.cols \ (legacy \ site.bCols)

CloneTx ==
    /\ job = "place" /\ f > Last
    /\ cloned \subseteq site.bCols
    /\ bdb' = [bdb EXCEPT !.now = [bdb.next EXCEPT !.cols = cloned]]
    /\ job' = "imported"
    /\ UNCHANGED <<importing, f, staging, dest, left, faults>>

\* The transaction is undone, the recordings are removed.
CloneFails ==
    /\ job = "place" /\ f > Last
    /\ \E kept \in SUBSET placed :
          /\ \/ ~(cloned \subseteq site.bCols) /\ kept = {} /\ UNCHANGED faults
             \/ Fault
          /\ dest' = RemoveFiles(kept)
          /\ left' = (left \ placed) \cup kept
    /\ job' = "failed"
    /\ UNCHANGED <<importing, f, staging, bdb>>

\* B dies and boots in preparing: resumeJobs takes failBeforeImport, which
\* removes nothing that was placed.  (While A builds the snapshot B has nothing
\* yet, and the migration ends as when A refuses.)
RestartB ==
    /\ \/ /\ job \in {"open", "request", "body", "verify", "prepare"}
          /\ UNCHANGED <<dest, left>>
       \/ /\ job = "place"
          /\ \/ UNCHANGED dest /\ left' = left \cup placed
             \/ /\ f \in DOMAIN mf
                /\ \E part \in halfMoved : dest' = [dest EXCEPT ![f] = part]
                /\ left' = left \cup placed \cup {f}
    /\ job' = "failed"
    /\ UNCHANGED <<importing, f, staging, bdb, faults>>

-----------------------------------------------------------------------------
Own == [own |-> TRUE]

Init ==
    /\ site \in Sites
    /\ \E kind \in [Recs -> {"open", "done", "missing", "ready"}] :
          /\ wav = [c \in Recs |-> CASE kind[c] = "open" -> OpenWav
                                      [] kind[c] = "done" -> ClosedWav
                                      [] OTHER -> Absent]
          /\ row = [c \in Recs |-> CASE kind[c] = "open" -> "recording"
                                      [] kind[c] = "ready" -> "ready"
                                      [] OTHER -> "uploading"]
    /\ locked = TRUE
    /\ snap = Own /\ linked = {} /\ copied = <<>> /\ mf = <<>>
    /\ job = "vacuum" /\ f = 0 /\ try = 0 /\ body = [next |-> 1, last |-> 0]
    /\ staging = [x \in Files |-> Absent]
    /\ dest \in [Recs -> Earlier \cup {Absent}]
    /\ bdb = [now |-> Own, next |-> Own]
    /\ left = {c \in Recs : dest[c] # Absent}
    /\ faults = 0

Next ==
    \/ VacuumInto \/ SkipFile \/ LinkOrCopy \/ SumFile \/ SumDb
    \/ \E c \in Recs : CloseWav(c) \/ FinishRow(c)
    \/ AdminUnlock
    \/ OpenFile \/ Respond \/ RespondConflict \/ RequestFails \/ RangeRefused
    \/ Receive \/ Drop \/ BodyEnds \/ Accept \/ Discard
    \/ PrepareSnapshot \/ PrepareFails \/ MoveFile \/ MoveFails \/ CloneTx \/ CloneFails
    \/ RestartB

Spec == Init /\ [][Next]_vars

-----------------------------------------------------------------------------
(* Properties. *)

\* A download that is given up was disturbed in every one of its attempts, or
\* the source's file is not what was summed any more: whatever mix of dropped
\* connections, partial, whole and refused answers, no attempt is wasted on
\* what an earlier one left (download, downloadOnce).
DownloadSurvives ==
    job = "lost" => faults >= Attempts \/ served(f) # mf[f]

\* The import takes all or nothing (importClone: "Em erro, B volta a como
\* estava").  Imported: every recording the snapshot calls finished is in its
\* place, whole, whatever an earlier migration left there, or was missing at A
\* already; a secret A could read, B can read; no column is lost but one that is
\* only kept for old databases.  Not imported, through errors and restarts: B's
\* database is its own, and a recording stays only where its move or its removal
\* failed, or B was restarted (see NothingLeft).
AllOrNothing ==
    /\ job = "imported" =>
          /\ \A c \in Recs : bdb.now.row[c] = "uploading" =>
                wav[c] = IF c \in bdb.now.here THEN dest[c] ELSE Absent
          /\ \A c \in bdb.now.here : dest[c] = mf[c]
          /\ readable(site.aKey, site.secret) => readable(site.bKey, bdb.now.secret)
          /\ site.aCols \ legacy \subseteq bdb.now.cols
    /\ job \in {"failed", "lost", "refused"} =>
          /\ bdb.now = Own
          /\ \A c \in Recs \ left : dest[c] = Absent

\* What the code says and does not keep.

\* "Falhou antes de importar ... Esta instancia nao foi alterada"
\* (migration_target.go:857): where nothing was left before, nothing is left.
NothingLeft == job \in {"failed", "lost", "refused"} => \A c \in Recs : dest[c] = Absent
=============================================================================
