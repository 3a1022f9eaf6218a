--------------------------- MODULE TransferProofs ---------------------------
(***************************************************************************)
(* Proofs about Transfer: a download is given up only when each of its     *)
(* attempts was disturbed or the file at the source is another one by now, *)
(* and the import takes everything or leaves B's database as it was.       *)
(*                                                                         *)
(* The invariant follows a recording through the migration: its WAV at A,  *)
(* the link or the copy that is served, the sum in the manifest, the       *)
(* blocks in the staging directory, the file in its place.                 *)
(***************************************************************************)
EXTENDS Transfer, SequenceTheorems, TLAPS

Blocks == {"d1", "d2", "blank", "header", "a1", "a2"}
Content == Seq(Blocks)
Wavs == {OpenWav, ClosedWav}
Prefix(s, t) == Len(s) <= Len(t) /\ \A i \in 1 .. Len(s) : s[i] = t[i]

Building == {"vacuum", "collect", "sum"}
Fetching == {"open", "request", "body", "verify"}
Jobs == Building \cup Fetching
          \cup {"lost", "refused", "prepare", "place", "imported", "failed"}

-----------------------------------------------------------------------------
(* The parts of the invariant. *)

Typed ==
    /\ wav \in [Recs -> Wavs \cup {Absent}]
    /\ row \in [Recs -> {"recording", "uploading", "ready"}]
    /\ linked \subseteq Recs /\ DOMAIN copied \subseteq Recs /\ DOMAIN mf \subseteq Files
    /\ job \in Jobs
    /\ f \in Nat /\ try \in Nat /\ faults \in Nat
    /\ body \in [next : Nat, last : Nat]
    /\ staging \in [Files -> Content]
    /\ dest \in [Recs -> Content \cup Earlier]
    /\ bdb = [now |-> bdb.now, next |-> bdb.next]

\* A WAV is closed before its row is finished.
ClosedFirst == \A c \in Recs : wav[c] = OpenWav => row[c] = "recording"

\* The snapshot is the tables as they were; a row it has as finished is so
\* still, and its WAV is closed.
Snapped ==
    job # "vacuum" =>
        /\ snap.secret = decryptSecrets(site.secret)
        /\ snap.cols = site.aCols
        /\ \A c \in Recs : snap.row[c] = "uploading" => row[c] = "uploading"

\* Where the collection of files is.
Collected ==
    /\ job = "vacuum" => linked = {} /\ DOMAIN copied = {} /\ DOMAIN mf = {}
    /\ job \in {"collect", "sum"} =>
          /\ f \in 1 .. Last + 1
          /\ DOMAIN mf \subseteq 1 .. f - 1
          /\ linked \cup DOMAIN copied \subseteq 1 .. f
    /\ job = "collect" => f \notin linked /\ f \notin DOMAIN copied
    /\ job = "sum" => f \in Recs /\ f \in linked \cup DOMAIN copied

\* What is served: a link to a WAV, which may be closed since; a copy, which
\* is the WAV when the snapshot has the row as finished.
Served ==
    /\ \A c \in linked : wav[c] \in Wavs
    /\ \A c \in DOMAIN copied :
          /\ copied[c] \in Wavs
          /\ wav[c] \in Wavs
          /\ snap.row[c] = "uploading" => copied[c] = wav[c]

\* What was summed: the file as it is served, or the WAV before it was closed.
Summed ==
    \A x \in DOMAIN mf :
        \/ x = 0 /\ mf[x] = Db
        \/ /\ x \in linked
           /\ mf[x] \in Wavs
           /\ wav[x] = OpenWav => mf[x] = OpenWav
           /\ snap.row[x] = "uploading" => mf[x] = wav[x]
        \/ x \in DOMAIN copied /\ x \notin linked /\ mf[x] = copied[x]

\* No recording is left out.
Complete ==
    job \notin {"vacuum", "refused"} =>
        \A c \in pending :
            wav[c] # Absent /\ (job \in {"collect", "sum"} => c < f) => c \in DOMAIN mf

SourceInv == ClosedFirst /\ Snapped /\ Collected /\ Served /\ Summed /\ Complete

\* The files before f are there, those after it not yet.
Staged ==
    /\ job \in Building => \A x \in Files : staging[x] = Absent
    /\ job \in Fetching =>
          /\ f \in DOMAIN mf /\ try >= 1
          /\ \A x \in DOMAIN mf : /\ x < f => staging[x] = mf[x]
                                  /\ x > f => staging[x] = Absent
    /\ job = "body" => body.next >= 1 /\ body.last <= Len(served(f))
    /\ job = "lost" => f \in DOMAIN mf
    /\ job = "prepare" => \A x \in DOMAIN mf : staging[x] = mf[x]
    /\ job = "place" =>
          /\ f \in 1 .. Last + 1
          /\ \A x \in DOMAIN mf : x >= f => staging[x] = mf[x]

\* As long as the file is the one that was summed, no block of it is wrong and
\* each attempt but this one was disturbed.
NotWasted ==
    /\ job \in Fetching /\ served(f) = mf[f] =>
          /\ Prefix(staging[f], mf[f])
          /\ faults >= try - 1
          /\ job = "body" => body.next = Len(staging[f]) + 1 /\ body.last = Len(mf[f])
          /\ job = "verify" => staging[f] = mf[f]
    /\ DownloadSurvives

\* The recordings before up are in their place, and nothing else is but what an
\* earlier migration left.
Placed(up) ==
    \A c \in Recs : IF c \in DOMAIN mf /\ c < up THEN dest[c] = mf[c]
                    ELSE c \in left \/ dest[c] = Absent

\* B's database is its own until one step replaces it; nothing is in its place
\* but the recordings moved so far and what is left.

Imported ==
    /\ job # "imported" => bdb.now = Own
    /\ job \notin {"place", "imported"} => \A c \in Recs \ left : dest[c] = Absent
    /\ job = "place" =>
          /\ bdb.next = [row |-> snap.row, secret |-> recrypt(snap.secret),
                         cols |-> snap.cols \cup site.bCols, here |-> DOMAIN mf \ {0}]
          /\ Placed(f)
    /\ job = "imported" =>
          /\ bdb.now.row = snap.row
          /\ bdb.now.secret = recrypt(snap.secret)
          /\ site.aCols \ legacy \subseteq bdb.now.cols
          /\ bdb.now.here = DOMAIN mf \ {0}
          /\ Placed(Last + 1)

TransferInv == Typed /\ SourceInv /\ Staged /\ NotWasted /\ Imported

-----------------------------------------------------------------------------
(* The contents. *)

\* The contents are told apart; a closed WAV is longer than an open one
\* (Recorder.Close writes the header and what was pending).
LEMMA ContentFacts ==
    /\ Absent \in Content /\ Len(Absent) = 0
    /\ Db \in Content /\ Len(Db) = 2
    /\ OpenWav \in Content /\ Len(OpenWav) = 2
    /\ ClosedWav \in Content /\ Len(ClosedWav) = 3
    /\ OpenWav # ClosedWav /\ Absent \notin Wavs /\ Db # Absent
PROOF
  <1>1. /\ Absent \in Content /\ Len(Absent) = 0
        /\ Db \in Content /\ Len(Db) = 2
        /\ OpenWav \in Content /\ Len(OpenWav) = 2
        /\ ClosedWav \in Content /\ Len(ClosedWav) = 3
    BY DEF Absent, Db, OpenWav, ClosedWav, Content, Blocks
  <1> QED  BY <1>1, SMTT(20) DEF Wavs

\* What a file was summed with, and what is served for it (handleMigrationFile),
\* is the database or a WAV.
LEMMA ServedIs ==
    ASSUME Typed, SourceInv, NEW x \in DOMAIN mf
    PROVE  /\ x \in Files
           /\ mf[x] \in Wavs \cup {Db}
           /\ served(x) \in Wavs \cup {Db}
           /\ mf[x] \in Content /\ served(x) \in Content
           /\ Len(mf[x]) \in 2 .. 3 /\ Len(served(x)) \in 2 .. 3
PROOF
  <1>1. x \in Files
    BY DEF Typed
  <1>2. mf[x] \in Wavs \cup {Db} /\ served(x) \in Wavs \cup {Db}
    BY CountsAssumption DEF Typed, SourceInv, Served, Summed, served, Recs
  <1> QED  BY <1>1, <1>2, ContentFacts DEF Wavs

-----------------------------------------------------------------------------
(* The files at A. *)

Steps == VacuumInto \/ SkipFile \/ LinkOrCopy \/ SumFile \/ SumDb

Down == OpenFile \/ Respond \/ RespondConflict \/ RequestFails \/ RangeRefused
        \/ Receive \/ Drop \/ BodyEnds \/ Accept \/ Discard
        \/ PrepareSnapshot \/ PrepareFails \/ MoveFile \/ MoveFails \/ CloneTx \/ CloneFails
        \/ RestartB

\* B's steps leave A's files alone, and come after the snapshot.
LEMMA DownLeaves ==
    ASSUME Typed, Down
    PROVE  /\ UNCHANGED source
           /\ job \notin Building /\ job # "refused"
           /\ job' \notin Building /\ job' \in Jobs
PROOF
  BY DEF Down, OpenFile, Respond, RespondConflict, RequestFails, RangeRefused, Receive, Drop,
         BodyEnds, Accept, Discard, PrepareSnapshot, PrepareFails, MoveFile, MoveFails,
         CloneTx, CloneFails, RestartB, Retry, Put, downloading, importing, Building, Jobs, Fetching

\* The invariant of A's files is kept by every step: collecting them
\* (buildSnapshot), finishing a recording (finalizeRecording), B's downloads.
LEMMA SourceStep ==
    ASSUME Typed, SourceInv, [Next]_vars
    PROVE  SourceInv'
PROOF
  <1> USE CountsAssumption, ContentFacts
  <1>1. CASE VacuumInto
    BY <1>1 DEF VacuumInto, SourceInv, ClosedFirst, Snapped, Collected, Served, Summed,
                Complete, Typed, pending, decryptSecrets, Recs
  <1>2. CASE SkipFile
    <2> USE <1>2 DEF SkipFile, source, Typed, SourceInv
    <2>1. ClosedFirst' /\ Snapped'
      BY DEF ClosedFirst, Snapped, decryptSecrets
    <2>2. Collected'
      BY DEF Collected, Recs
    <2>3. Served' /\ Summed'
      BY DEF Served, Summed
    <2>4. Complete'
      BY DEF Complete, pending, Collected, Recs
    <2> QED  BY <2>1, <2>2, <2>3, <2>4
  <1>3. CASE LinkOrCopy
    <2> USE <1>3 DEF LinkOrCopy, Typed, SourceInv
    <2> f \in Recs
      BY DEF pending
    <2>0. /\ DOMAIN copied \subseteq DOMAIN copied'
          /\ DOMAIN copied' \subseteq DOMAIN copied \cup {f}
          /\ \A c \in DOMAIN copied : c # f => copied'[c] = copied[c]
          /\ f \in DOMAIN copied' => copied'[f] = wav[f]
      <3>1. /\ DOMAIN With(copied, f, wav[f]) = DOMAIN copied \cup {f}
            /\ With(copied, f, wav[f])[f] = wav[f]
            /\ \A c \in DOMAIN copied : c # f => With(copied, f, wav[f])[c] = copied[c]
        BY DEF With
      <3>2. CASE UNCHANGED copied
        BY <3>2 DEF Collected
      <3>3. CASE copied' = With(copied, f, wav[f])
        BY <3>1, <3>3
      <3> QED  BY <3>2, <3>3
    <2>1. ClosedFirst' /\ Snapped'
      BY DEF ClosedFirst, Snapped, decryptSecrets
    <2>2. Collected'
      <3>1. job = "collect" /\ job' \in {"sum", "refused"} /\ f' = f /\ mf' = mf
        OBVIOUS
      <3>2. CASE job' = "sum"
        <4>1. linked' \cup DOMAIN copied' = linked \cup DOMAIN copied \cup {f}
          <5>1. CASE linked' = linked \cup {f} /\ UNCHANGED copied
            BY <5>1
          <5>2. CASE copied' = With(copied, f, wav[f]) /\ UNCHANGED linked
            BY <5>2 DEF With
          <5> QED  BY <3>2, <5>1, <5>2
        <4> QED  BY <3>1, <3>2, <4>1 DEF Collected, Recs
      <3>3. CASE job' = "refused"
        BY <3>3 DEF Collected
      <3> QED  BY <3>1, <3>2, <3>3
    <2>3. Served'
      BY <2>0 DEF Served
    <2>4. Summed'
      BY <2>0 DEF Summed, Collected, Recs
    <2>5. Complete'
      BY DEF Complete, pending
    <2> QED  BY <2>1, <2>2, <2>3, <2>4, <2>5
  <1>4. CASE SumFile
    <2> USE <1>4 DEF SumFile, Typed, SourceInv
    <2>0. /\ f \in Recs
          /\ DOMAIN mf' = DOMAIN mf \cup {f}
          /\ mf'[f] = served(f)
          /\ \A x \in DOMAIN mf : x # f => mf'[x] = mf[x]
      <3>1. /\ DOMAIN With(mf, f, served(f)) = DOMAIN mf \cup {f}
            /\ With(mf, f, served(f))[f] = served(f)
            /\ \A x \in DOMAIN mf : x # f => With(mf, f, served(f))[x] = mf[x]
        BY DEF With
      <3> QED  BY <3>1 DEF Collected
    <2>1. ClosedFirst' /\ Snapped'
      BY DEF ClosedFirst, Snapped, decryptSecrets
    <2>2. Collected'
      BY <2>0 DEF Collected, Recs
    <2>3. Served'
      BY DEF Served
    <2>4. Summed'
      BY <2>0 DEF Summed, Served, served, Collected, Recs, Wavs
    <2>5. Complete'
      BY <2>0 DEF Complete, pending, Recs
    <2> QED  BY <2>1, <2>2, <2>3, <2>4, <2>5
  <1>5. CASE SumDb
    <2> USE <1>5 DEF SumDb, Typed, SourceInv
    <2>0. /\ DOMAIN mf' = DOMAIN mf \cup {0}
          /\ mf'[0] = Db
          /\ \A x \in DOMAIN mf : x # 0 => mf'[x] = mf[x]
      <3>1. /\ DOMAIN With(mf, 0, Db) = DOMAIN mf \cup {0}
            /\ With(mf, 0, Db)[0] = Db
            /\ \A x \in DOMAIN mf : x # 0 => With(mf, 0, Db)[x] = mf[x]
        BY DEF With
      <3> QED  BY <3>1
    <2>1. ClosedFirst' /\ Snapped'
      BY DEF ClosedFirst, Snapped, decryptSecrets
    <2>2. Collected'
      BY DEF Collected
    <2>3. Served'
      BY DEF Served
    <2>4. Summed'
      BY <2>0 DEF Summed
    <2>5. Complete'
      BY <2>0 DEF Complete, pending, Recs
    <2> QED  BY <2>1, <2>2, <2>3, <2>4, <2>5
  <1>6. ASSUME NEW c \in Recs, CloseWav(c)
        PROVE  SourceInv'
    <2> USE <1>6 DEF CloseWav, Typed, SourceInv
    <2>1. ClosedFirst' /\ Snapped'
      BY DEF ClosedFirst, Snapped, decryptSecrets
    <2>2. Collected'
      BY DEF Collected
    <2>3. Served'
      BY DEF Served, Snapped, Wavs, Collected
    <2>4. Summed'
      BY DEF Summed, Snapped, Wavs, Collected
    <2>5. Complete'
      BY DEF Complete, pending, Wavs
    <2> QED  BY <2>1, <2>2, <2>3, <2>4, <2>5
  <1>7. ASSUME NEW c \in Recs, FinishRow(c)
        PROVE  SourceInv'
    BY <1>7 DEF FinishRow, Typed, SourceInv, ClosedFirst, Snapped, decryptSecrets, Collected,
                Served, Summed, Complete, pending
  <1>8. CASE AdminUnlock
    BY <1>8 DEF AdminUnlock, Typed, SourceInv, ClosedFirst, Snapped, decryptSecrets, Collected,
                Served, Summed, Complete, pending
  <1>9. CASE Down
    BY <1>9, DownLeaves DEF Building, source, SourceInv, ClosedFirst, Snapped, decryptSecrets,
                Collected, Served, Summed, Complete, pending
  <1>10. CASE UNCHANGED vars
    BY <1>10 DEF vars, source, SourceInv, ClosedFirst, Snapped, decryptSecrets,
                Collected, Served, Summed, Complete, pending
  <1> QED
    BY <1>1, <1>2, <1>3, <1>4, <1>5, <1>6, <1>7, <1>8, <1>9, <1>10 DEF Next, Down

\* The sum of a file stays, and what is served for it stays, but for a WAV that
\* was summed before it was closed (a hard link, linkOrCopy).
LEMMA ServedKeeps ==
    ASSUME Typed, SourceInv, [Next]_vars, NEW x \in DOMAIN mf
    PROVE  /\ x \in DOMAIN mf' /\ mf'[x] = mf[x]
           /\ \/ served(x)' = served(x)
              \/ served(x) = OpenWav /\ mf[x] = OpenWav /\ served(x)' = ClosedWav
PROOF
  <1> USE CountsAssumption, ContentFacts
  <1>1. CASE UNCHANGED <<wav, linked, copied, mf>>
    BY <1>1 DEF served
  <1>2. CASE LinkOrCopy
    <2>1. x # f /\ UNCHANGED <<wav, mf>>
      BY <1>2 DEF LinkOrCopy, SourceInv, Collected, pending, Recs
    <2>2. linked' \in {linked, linked \cup {f}}
      BY <1>2 DEF LinkOrCopy
    <2>3. x \in DOMAIN copied => copied'[x] = copied[x]
      BY <1>2, <2>1 DEF LinkOrCopy, With
    <2> QED  BY <2>1, <2>2, <2>3 DEF served, SourceInv, Summed
  <1>3. CASE SumFile
    <2>1. x # f /\ UNCHANGED <<wav, linked, copied>>
      BY <1>3 DEF SumFile, SourceInv, Collected, Recs
    <2> QED  BY <1>3, <2>1 DEF SumFile, served, With
  <1>4. CASE SumDb
    <2>1. UNCHANGED <<wav, linked, copied>> /\ x # 0
      BY <1>4 DEF SumDb, SourceInv, Collected, Recs
    <2> QED  BY <1>4, <2>1 DEF SumDb, served, With
  <1>5. ASSUME NEW c \in Recs, CloseWav(c)
        PROVE  /\ x \in DOMAIN mf' /\ mf'[x] = mf[x]
               /\ \/ served(x)' = served(x)
                  \/ served(x) = OpenWav /\ mf[x] = OpenWav /\ served(x)' = ClosedWav
    <2>1. wav[c] = OpenWav /\ wav' = [wav EXCEPT ![c] = ClosedWav]
          /\ UNCHANGED <<linked, copied, mf>>
      BY <1>5 DEF CloseWav
    <2>2. CASE x = c /\ x \in linked
      BY <2>1, <2>2 DEF served, SourceInv, Summed, Typed, Recs
    <2>3. CASE ~(x = c /\ x \in linked)
      BY <2>1, <2>3 DEF served, SourceInv, Summed, Typed, Recs
    <2> QED  BY <2>2, <2>3
  <1>6. CASE Down
    BY <1>6, <1>1, DownLeaves DEF source
  <1> QED
    BY <1>1, <1>2, <1>3, <1>4, <1>5, <1>6
       DEF Next, Down, vars, source, VacuumInto, SkipFile, FinishRow, AdminUnlock

\* What is served for a file only grows.
LEMMA ServedGrows ==
    ASSUME Typed, SourceInv, [Next]_vars, NEW x \in DOMAIN mf
    PROVE  /\ Len(served(x)) \in 2 .. 3 /\ Len(served(x)') \in 2 .. 3
           /\ Len(served(x)) <= Len(served(x)')
PROOF
  <1>1. Len(served(x)) \in 2 .. 3
    BY ServedIs
  <1>2. CASE served(x)' = served(x)
    BY <1>1, <1>2
  <1>3. CASE served(x) = OpenWav /\ served(x)' = ClosedWav
    BY <1>3, ContentFacts
  <1> QED  BY <1>2, <1>3, ServedKeeps

SourceStays == VacuumInto \/ SkipFile \/ LinkOrCopy \/ SumFile \/ SumDb
               \/ (\E c \in Recs : CloseWav(c) \/ FinishRow(c)) \/ AdminUnlock

\* A's steps, while the snapshot is made and afterwards, leave B alone; the
\* last one of the snapshot starts the download of the database.
LEMMA SourceLeaves ==
    ASSUME Typed, SourceStays
    PROVE  /\ UNCHANGED <<staging, dest, bdb, left, body, site>>
           /\ job \notin Building => UNCHANGED <<mf, snap, job, f, try, faults>>
           /\ job \in Building =>
                 \/ job' \in Building \cup {"refused"}
                 \/ job' = "open" /\ f' = 0 /\ try' = 1 /\ 0 \in DOMAIN mf'
           /\ faults' \in Nat
PROOF
  <1>1. CASE VacuumInto \/ SkipFile \/ LinkOrCopy
    BY <1>1 DEF VacuumInto, SkipFile, LinkOrCopy, source, Building, Typed, Fault
  <1>2. CASE SumFile
    BY <1>2 DEF SumFile, Building, Typed
  <1>3. CASE SumDb
    BY <1>3 DEF SumDb, Building, Typed, With
  <1>4. ASSUME NEW c \in Recs, CloseWav(c) \/ FinishRow(c)
        PROVE  UNCHANGED <<staging, dest, bdb, left, body, site, mf, snap, job, f, try, faults>>
    BY <1>4 DEF CloseWav, FinishRow
  <1>5. CASE AdminUnlock
    BY <1>5 DEF AdminUnlock, Typed
  <1> QED  BY <1>1, <1>2, <1>3, <1>4, <1>5 DEF SourceStays, Typed

-----------------------------------------------------------------------------
(* Types. *)

\* Whatever files stay, those that are removed are absent (removeFiles).
LEMMA RemoveTyped ==
    ASSUME Typed, NEW kept
    PROVE  RemoveFiles(kept) \in [Recs -> Content \cup Earlier]
PROOF
  BY ContentFacts DEF Typed, RemoveFiles

\* What a move leaves behind is what was there or a piece of the file (moveFile).
LEMMA HalfMovedTyped ==
    ASSUME Typed, f \in DOMAIN mf, NEW part \in halfMoved
    PROVE  f \in Recs => part \in Content \cup Earlier
PROOF
  <1>1. staging[f] \in Content
    BY DEF Typed
  <1>2. \A n \in 0 .. Len(staging[f]) : SubSeq(staging[f], 1, n) \in Content
    BY <1>1 DEF Content
  <1> QED  BY <1>2 DEF Typed, halfMoved

LEMMA TypedStep ==
    ASSUME Typed, SourceInv, Staged, [Next]_vars
    PROVE  Typed'
PROOF
  <1> USE CountsAssumption, ContentFacts DEF Typed
  <1>1. CASE VacuumInto
    BY <1>1 DEF VacuumInto, Jobs, Building
  <1>2. CASE SkipFile
    BY <1>2 DEF SkipFile, source
  <1>3. CASE LinkOrCopy
    <2>1. f \in Recs
      BY <1>3 DEF LinkOrCopy, pending
    <2>2. DOMAIN copied' \subseteq Recs
      BY <1>3, <2>1 DEF LinkOrCopy, With
    <2> QED  BY <1>3, <2>1, <2>2 DEF LinkOrCopy, Jobs, Building, Fault
  <1>4. CASE SumFile
    <2>1. DOMAIN mf' \subseteq Files
      BY <1>4 DEF SumFile, With, SourceInv, Collected, Files, Recs
    <2> QED  BY <1>4, <2>1 DEF SumFile, Jobs, Building
  <1>5. CASE SumDb
    <2>1. DOMAIN mf' \subseteq Files
      BY <1>5 DEF SumDb, With, Files
    <2> QED  BY <1>5, <2>1 DEF SumDb, Jobs, Fetching
  <1>6. ASSUME NEW c \in Recs, CloseWav(c) \/ FinishRow(c)
        PROVE  Typed'
    BY <1>6 DEF CloseWav, FinishRow, Wavs
  <1>7. CASE AdminUnlock
    BY <1>7 DEF AdminUnlock
  <1>8. CASE OpenFile
    BY <1>8 DEF OpenFile, Put, downloading, source, Jobs, Fetching, Staged
  <1>9. CASE Respond
    <2>1. f \in DOMAIN mf
      BY <1>9 DEF Respond, Staged, Fetching
    <2>2. Len(staging[f]) \in Nat /\ Len(served(f)) \in Nat
      BY <2>1, ServedIs DEF Content
    <2> QED
      BY <1>9, <2>2 DEF Respond, Put, downloading, source, Jobs, Fetching, truncateOnWhole
  <1>10. CASE RespondConflict
    BY <1>10 DEF RespondConflict, downloading, source, Jobs
  <1>11. CASE RequestFails \/ RangeRefused \/ Drop \/ Discard
    BY <1>11 DEF RequestFails, RangeRefused, Drop, Discard, Retry, Fault, Put, downloading,
                 source, Jobs, Fetching
  <1>12. CASE Receive
    <2>1. f \in DOMAIN mf /\ body.next \in 1 .. Len(served(f))
      BY <1>12 DEF Receive, Staged, Fetching
    <2>2. served(f) \in Content /\ f \in Files
      BY <2>1, ServedIs
    <2>3. served(f)[body.next] \in Blocks
      BY <2>1, <2>2 DEF Content
    <2>4. Append(staging[f], served(f)[body.next]) \in Content
      BY <2>2, <2>3, AppendProperties DEF Content
    <2>5. body' \in [next : Nat, last : Nat]
      BY <1>12 DEF Receive
    <2> QED  BY <1>12, <2>4, <2>5 DEF Receive, Put, downloading, source
  <1>13. CASE BodyEnds
    BY <1>13 DEF BodyEnds, downloading, source, Jobs, Fetching
  <1>14. CASE Accept
    <2>1. f' \in Nat /\ try' \in Nat
      BY <1>14 DEF Accept, Files
    <2> QED  BY <1>14, <2>1 DEF Accept, source, Jobs, Fetching
  <1>15. CASE PrepareSnapshot \/ PrepareFails
    BY <1>15 DEF PrepareSnapshot, PrepareFails, importing, source, Jobs, Fault
  <1>16. CASE MoveFile
    <2>1. f \in Files /\ f + 1 \in Nat
      BY <1>16 DEF MoveFile, Recs, Files
    <2>2. dest' \in [Recs -> Content \cup Earlier] /\ staging' \in [Files -> Content]
      BY <1>16, <2>1 DEF MoveFile, Put
    <2> QED  BY <1>16, <2>1, <2>2 DEF MoveFile, importing, source
  <1>17. CASE MoveFails
    <2>1. PICK part \in halfMoved, kept \in SUBSET placed :
                 dest' = [RemoveFiles(kept) EXCEPT ![f] = part]
      BY <1>17 DEF MoveFails
    <2>2. f \in Recs => part \in Content \cup Earlier
      BY <1>17, HalfMovedTyped DEF MoveFails
    <2>3. RemoveFiles(kept) \in [Recs -> Content \cup Earlier]
      BY RemoveTyped
    <2>4. dest' \in [Recs -> Content \cup Earlier]
      BY <2>1, <2>2, <2>3
    <2> QED  BY <1>17, <2>4 DEF MoveFails, importing, source, Jobs, Fault
  <1>18. CASE CloneTx
    BY <1>18 DEF CloneTx, importing, source, Jobs
  <1>19. CASE CloneFails
    <2>1. dest' \in [Recs -> Content \cup Earlier]
      BY <1>19, RemoveTyped DEF CloneFails
    <2> QED  BY <1>19, <2>1 DEF CloneFails, importing, source, Jobs, Fault
  <1>20. CASE RestartB
    <2>1. dest' \in [Recs -> Content \cup Earlier]
      <3>1. CASE UNCHANGED dest
        BY <3>1
      <3>2. ASSUME f \in DOMAIN mf, NEW part \in halfMoved, dest' = [dest EXCEPT ![f] = part]
            PROVE  dest' \in [Recs -> Content \cup Earlier]
        BY <3>2, HalfMovedTyped
      <3> QED  BY <1>20, <3>1, <3>2 DEF RestartB
    <2> QED  BY <1>20, <2>1 DEF RestartB, importing, source, Jobs
  <1>21. CASE UNCHANGED vars
    BY <1>21 DEF vars, source
  <1> QED
    BY <1>1, <1>2, <1>3, <1>4, <1>5, <1>6, <1>7, <1>8, <1>9, <1>10, <1>11, <1>12, <1>13,
       <1>14, <1>15, <1>16, <1>17, <1>18, <1>19, <1>20, <1>21 DEF Next

-----------------------------------------------------------------------------
(* The downloads. *)

\* The files before the one being fetched are whole in the staging directory,
\* those after it not begun (fetchAndVerify downloads one after the other).
LEMMA StagedStep ==
    ASSUME Typed, SourceInv, Staged, NotWasted, [Next]_vars
    PROVE  Staged'
PROOF
  <1> USE CountsAssumption, ContentFacts DEF Typed
  <1>1. CASE SourceStays
    <2>1. CASE job \notin Building
      <3>1. ASSUME job = "body"
            PROVE  Len(served(f)) <= Len(served(f)')
        <4>1. PICK x \in DOMAIN mf : x = f
          BY <3>1 DEF Staged, Fetching
        <4>2. f' = x
          BY <1>1, <2>1, <4>1, SourceLeaves
        <4>3. Len(served(f)) = Len(served(x)) /\ Len(served(f)') = Len(served(x)')
          BY <4>1, <4>2 DEF served
        <4>4. Len(served(x)) \in 2 .. 3 /\ Len(served(x)') \in 2 .. 3
              /\ Len(served(x)) <= Len(served(x)')
          BY <4>1, ServedGrows
        <4> QED  BY <4>3, <4>4
      <3> QED  BY <1>1, <2>1, <3>1, SourceLeaves DEF Staged, Fetching
    <2>2. CASE job \in Building
      <3>1. DOMAIN mf' \subseteq Files
        BY TypedStep
      <3>2. \A x \in Files : staging'[x] = Absent
        BY <1>1, <2>2, SourceLeaves DEF Staged
      <3>3. CASE job' \in Building \cup {"refused"}
        BY <3>2, <3>3 DEF Staged, Building, Fetching
      <3>4. CASE job' = "open" /\ f' = 0 /\ try' = 1 /\ 0 \in DOMAIN mf'
        <4>1. \A x \in DOMAIN mf' : x >= 0
          BY <3>1 DEF Files
        <4>2. f' \in DOMAIN mf' /\ try' >= 1
          BY <3>4
        <4>3. \A x \in DOMAIN mf' : ~(x < f') /\ staging'[x] = Absent
          BY <3>1, <3>2, <3>4, <4>1 DEF Files
        <4>4. job' = "open"
          BY <3>4
        <4> QED  BY <4>2, <4>3, <4>4 DEF Staged, Building, Fetching
      <3> QED  BY <1>1, <2>2, <3>3, <3>4, SourceLeaves
    <2> QED  BY <2>1, <2>2
  <1>2. CASE OpenFile \/ RespondConflict \/ RequestFails \/ RangeRefused \/ Drop \/ Discard
    BY <1>2, SMTT(20) DEF OpenFile, RespondConflict, RequestFails, RangeRefused, Drop, Discard, Retry,
                Put, downloading, source, Staged, Building, Fetching, Files
  <1>3. CASE Respond
    <2>1. body'.next >= 1 /\ body'.last = Len(served(f))
      BY <1>3 DEF Respond
    <2>2. Len(served(f)) \in Nat
      BY <1>3, ServedIs DEF Respond, Staged, Fetching
    <2>3. served(f)' = served(f)
      BY <1>3 DEF Respond, downloading, source, served
    <2> QED
      BY <1>3, <2>1, <2>2, <2>3
         DEF Respond, Put, downloading, source, Staged, Building, Fetching, Files
  <1>4. CASE Receive \/ BodyEnds
    <2>1. served(f)' = served(f)
      BY <1>4 DEF Receive, BodyEnds, downloading, source, served
    <2>2. job' = "body" => body'.next >= 1 /\ body'.last = body.last
      BY <1>4 DEF Receive, BodyEnds, Staged
    <2>3. /\ UNCHANGED <<f, try, mf>> /\ job' \in {"body", "verify"} /\ job = "body"
          /\ \A x \in Files : x # f => staging'[x] = staging[x]
      BY <1>4 DEF Receive, BodyEnds, Put, downloading, source
    <2> QED
      BY <2>1, <2>2, <2>3 DEF Staged, Building, Fetching, Files
  <1>5. CASE Accept
    <2> USE <1>5 DEF Accept, source
    <2>1. f \in DOMAIN mf /\ f \in Files
      BY DEF Staged, Fetching
    <2>2. CASE \A x \in DOMAIN mf : ~(x > f)
      <3>1. job' = "prepare"
        BY <2>2
      <3>2. ASSUME NEW x \in DOMAIN mf
            PROVE  staging'[x] = mf'[x]
        BY <2>1, <2>2 DEF Staged, Fetching, Files
      <3> QED  BY <3>1, <3>2 DEF Staged, Building, Fetching
    <2>3. CASE \E x \in DOMAIN mf : x > f
      <3>1. /\ job' = "open" /\ try' = 1
            /\ f' \in DOMAIN mf /\ f' > f
            /\ \A y \in DOMAIN mf : y > f => f' <= y
        BY <2>3
      <3>2. ASSUME NEW x \in DOMAIN mf
            PROVE  /\ x < f' => staging'[x] = mf'[x]
                   /\ x > f' => staging'[x] = Absent
        BY <2>1, <3>1 DEF Staged, Fetching, Files
      <3> QED  BY <3>1, <3>2 DEF Staged, Building, Fetching
    <2> QED  BY <2>2, <2>3
  <1>6. CASE PrepareSnapshot \/ PrepareFails \/ MoveFails \/ CloneTx \/ CloneFails \/ RestartB
    BY <1>6 DEF PrepareSnapshot, PrepareFails, MoveFails, CloneTx, CloneFails, RestartB,
                importing, source, Staged, Building, Fetching
  <1>7. CASE MoveFile
    BY <1>7, SMTT(20) DEF MoveFile, Put, importing, source, Staged, Building, Fetching, Recs, Files
  <1>8. CASE UNCHANGED vars
    BY <1>8 DEF vars, source, Staged, served
  <1> QED
    BY <1>1, <1>2, <1>3, <1>4, <1>5, <1>6, <1>7, <1>8 DEF Next, SourceStays

\* As long as the file is the one that was summed, no attempt is wasted
\* (downloadOnce): what is on disk is a part of it, and what the source sends is
\* the rest.
LEMMA NotWastedStep ==
    ASSUME Typed, SourceInv, Staged, NotWasted, [Next]_vars
    PROVE  NotWasted'
PROOF
  <1> USE CountsAssumption, ContentFacts
  <1> DEFINE Same == served(f) = mf[f]
             Alive == /\ Prefix(staging[f], mf[f])
                      /\ faults >= try - 1
                      /\ job = "body" => body.next = Len(staging[f]) + 1
                                         /\ body.last = Len(mf[f])
                      /\ job = "verify" => staging[f] = mf[f]
  <1>0. /\ f \in Nat /\ try \in Nat /\ faults \in Nat
        /\ job \in Fetching => f \in DOMAIN mf /\ f \in Files /\ try >= 1
                               /\ mf[f] \in Content /\ Len(mf[f]) \in 2 .. 3
                               /\ staging[f] \in Content /\ Len(staging[f]) \in Nat
    BY ServedIs DEF Typed, Staged, Content
  <1>a. job \in Fetching /\ Same => Alive
    BY DEF NotWasted
  <1>b. SUFFICES /\ job' \in Fetching /\ Same' => Alive'
                 /\ job' = "lost" => faults' >= Attempts \/ ~Same'
    BY DEF NotWasted, DownloadSurvives
  <1>1. CASE SourceStays
    <2>1. CASE job \in Building
      <3>1. CASE job' = "open" /\ f' = 0 /\ try' = 1
        <4>1. staging'[f'] = Absent
          BY <1>1, <2>1, <3>1, SourceLeaves DEF Staged, Files
        <4>2. Prefix(staging'[f'], mf'[f'])
          <5>1. 0 \in DOMAIN mf' /\ Typed' /\ SourceInv'
            BY <1>1, <2>1, <3>1, SourceLeaves, TypedStep, SourceStep DEF Building
          <5>2. mf'[0] \in {Db} \cup Wavs
            BY <5>1 DEF SourceInv, Summed, Served
          <5> QED  BY <3>1, <4>1, <5>2 DEF Prefix, Wavs
        <4> QED  BY <1>1, <3>1, <4>2, SourceLeaves DEF Fetching
      <3>2. CASE job' \in Building \cup {"refused"}
        BY <3>2 DEF Building, Fetching
      <3> QED  BY <1>1, <2>1, <3>1, <3>2, SourceLeaves
    <2>2. CASE job \notin Building
      <3>1. UNCHANGED <<mf, job, f, try, faults, staging, body>>
        BY <1>1, <2>2, SourceLeaves
      <3>2. ASSUME f \in DOMAIN mf, Same'
            PROVE  Same
        <4>1. PICK x \in DOMAIN mf : x = f
          BY <3>2
        <4>2. served(f) = served(x) /\ served(f)' = served(x)'
          BY <3>1, <4>1 DEF served
        <4> QED  BY <3>1, <3>2, <4>1, <4>2, ServedKeeps
      <3>3. job = "lost" => f \in DOMAIN mf /\ (faults >= Attempts \/ ~Same)
        BY DEF Staged, NotWasted, DownloadSurvives
      <3> QED  BY <1>0, <1>a, <3>1, <3>2, <3>3
    <2> QED  BY <2>1, <2>2
  <1>2. CASE OpenFile
    <2> USE <1>2 DEF OpenFile, Put, downloading, source
    <2>1. job = "open" /\ UNCHANGED <<f, mf, try, faults>> /\ (Same' <=> Same)
      BY DEF served
    <2>2. ASSUME Same
          PROVE  Alive' /\ job' # "lost"
      <3>1. Prefix(staging[f], mf[f]) /\ faults >= try - 1
        BY <1>a, <2>1, <2>2 DEF Fetching
      <3>2. ~(Len(staging[f]) > Len(mf[f]))
        BY <1>0, <2>1, <3>1 DEF Prefix, Fetching
      <3>3. staging' = staging
        BY <3>2 DEF size, Typed
      <3>4. job' = "verify" => staging[f] = mf[f]
        BY <1>0, <2>1, <3>1, SeqEqual DEF size, Prefix, Fetching, Content
      <3> QED  BY <2>1, <3>1, <3>3, <3>4
    <2> QED  BY <2>1, <2>2
  <1>3. CASE Respond
    <2> USE <1>3 DEF Respond, Put, downloading, source
    <2>1. /\ job = "request" /\ job' = "body" /\ UNCHANGED <<f, mf, try, faults>>
          /\ (Same' <=> Same)
      BY DEF served
    <2>2. ASSUME Same
          PROVE  Alive'
      <3>1. Prefix(staging[f], mf[f]) /\ faults >= try - 1
        BY <1>a, <2>1, <2>2 DEF Fetching
      <3>2. CASE staging'[f] = staging[f] /\ body' = [next |-> Len(staging[f]) + 1,
                                                   last |-> Len(served(f))]
        BY <2>1, <2>2, <3>1, <3>2
      <3>3. CASE staging'[f] = Absent /\ body' = [next |-> 1, last |-> Len(served(f))]
        BY <1>0, <2>1, <2>2, <3>1, <3>3 DEF Prefix, Fetching
      <3> QED
        BY <1>0, <2>1, <3>2, <3>3 DEF Typed, truncateOnWhole, Fetching
    <2> QED  BY <2>1, <2>2
  <1>4. CASE RespondConflict
    BY <1>4 DEF RespondConflict, Fetching
  <1>5. CASE RequestFails \/ Drop \/ RangeRefused
    <2>1. /\ job \in Fetching /\ Fault /\ Retry
          /\ UNCHANGED <<f, mf, body>> /\ (Same' <=> Same)
          /\ staging'[f] \in {staging[f], Absent}
      BY <1>0, <1>5 DEF RequestFails, Drop, RangeRefused, Put, downloading, source, served,
                        Fetching, Typed
    <2>2. ASSUME Same
          PROVE  /\ job' \in Fetching => Alive'
                 /\ job' = "lost" => faults' >= Attempts
      <3>1. Prefix(staging[f], mf[f]) /\ faults >= try - 1
        BY <1>a, <2>1, <2>2
      <3>2. Prefix(staging[f], mf[f])' /\ job' \in {"open", "lost"}
        BY <1>0, <2>1, <3>1 DEF Prefix, Retry
      <3>3. job' \in Fetching => faults' >= try' - 1
        BY <1>0, <2>1, <3>1 DEF Fault, Retry, Fetching
      <3>4. job' = "lost" => faults' >= Attempts
        BY <1>0, <2>1, <3>1 DEF Fault, Retry
      <3> QED  BY <3>2, <3>3, <3>4
    <2> QED  BY <2>1, <2>2
  <1>6. CASE Discard
    <2>1. job = "verify" /\ ~Same /\ (Same' <=> Same)
      BY <1>6, <1>a DEF Discard, downloading, source, served, Fetching
    <2> QED  BY <2>1
  <1>7. CASE Receive
    <2> USE <1>7 DEF Receive, Put, downloading, source
    <2>1. /\ job = "body" /\ UNCHANGED <<job, f, mf, try, faults>> /\ (Same' <=> Same)
          /\ f \in Files
      BY <1>0 DEF served, Fetching
    <2>2. ASSUME Same
          PROVE  Alive'
      <3>1. /\ Prefix(staging[f], mf[f]) /\ faults >= try - 1
            /\ body.next = Len(staging[f]) + 1 /\ body.last = Len(mf[f])
            /\ body.next <= body.last
        BY <1>a, <2>1, <2>2 DEF Fetching
      <3>2. body'.next = body.next + 1 /\ body'.last = body.last
        BY DEF Typed
      <3>3. staging'[f] = Append(staging[f], mf[f][body.next])
        BY <2>1, <2>2 DEF Typed
      <3>4. mf[f][body.next] \in Blocks
        BY <1>0, <2>1, <3>1 DEF Fetching, Content
      <3>5. /\ Len(staging'[f]) = Len(staging[f]) + 1
            /\ \A i \in 1 .. Len(staging[f]) : staging'[f][i] = staging[f][i]
            /\ staging'[f][Len(staging[f]) + 1] = mf[f][body.next]
        BY <1>0, <2>1, <3>3, <3>4, AppendProperties DEF Fetching, Content
      <3>6. Prefix(staging'[f], mf[f])
        BY <1>0, <2>1, <3>1, <3>5 DEF Prefix, Fetching
      <3> QED  BY <2>1, <3>1, <3>2, <3>5, <3>6
    <2> QED  BY <2>1, <2>2
  <1>8. CASE BodyEnds
    <2> USE <1>8 DEF BodyEnds, downloading, source
    <2>1. /\ job = "body" /\ job' = "verify" /\ UNCHANGED <<f, mf, try, faults, staging>>
          /\ (Same' <=> Same)
      BY DEF served
    <2>2. ASSUME Same
          PROVE  Alive'
      <3>1. /\ Prefix(staging[f], mf[f]) /\ faults >= try - 1
            /\ Len(staging[f]) + 1 > Len(mf[f])
        BY <1>a, <2>1, <2>2 DEF Fetching
      <3>2. staging[f] = mf[f]
        BY <1>0, <2>1, <3>1, SeqEqual DEF Prefix, Fetching, Content
      <3> QED  BY <2>1, <3>1, <3>2
    <2> QED  BY <2>1, <2>2
  <1>9. CASE Accept
    <2>1. CASE job' = "prepare"
      BY <2>1 DEF Fetching
    <2>2. CASE job' = "open" /\ try' = 1 /\ f' \in DOMAIN mf /\ f' > f
      <3>1. /\ staging'[f'] = Absent /\ mf'[f'] = mf[f'] /\ faults' = faults
        BY <1>9, <2>2 DEF Accept, source, Staged, Fetching
      <3>2. Len(mf[f']) \in Nat
        <4>1. PICK x \in DOMAIN mf : x = f'
          BY <2>2
        <4> QED  BY <4>1, ServedIs
      <3>3. Prefix(staging'[f'], mf'[f'])
        BY <3>1, <3>2 DEF Prefix
      <3> QED  BY <1>0, <2>2, <3>1, <3>3
    <2> QED
      BY <1>9, <2>1, <2>2 DEF Accept
  <1>10. CASE UNCHANGED vars
    BY <1>10, <1>a DEF vars, source, served, NotWasted, DownloadSurvives, Fetching
  <1>11. CASE PrepareSnapshot \/ PrepareFails \/ MoveFile \/ MoveFails \/ CloneTx
              \/ CloneFails \/ RestartB
    BY <1>11 DEF PrepareSnapshot, PrepareFails, MoveFile, MoveFails, CloneTx, CloneFails,
                 RestartB, importing, Fetching
  <1> QED
    BY <1>1, <1>2, <1>3, <1>4, <1>5, <1>6, <1>7, <1>8, <1>9, <1>10, <1>11
       DEF Next, SourceStays

-----------------------------------------------------------------------------
(* The import. *)

\* When what was placed is removed, only what was not removed and what was left
\* before are still there (removeFiles).
LEMMA Removed ==
    ASSUME Typed, Imported, job = "place", NEW kept \in SUBSET placed
    PROVE  \A c \in Recs \ ((left \ placed) \cup kept) : RemoveFiles(kept)[c] = Absent
PROOF
  BY DEF RemoveFiles, Imported, Placed, placed

\* B's database is replaced by one step and its recordings are placed one by one
\* before it; a failure takes back what was placed, but for what cannot be
\* removed, and a restart takes back nothing (importClone, cloneTx, resumeJobs).
LEMMA ImportedStep ==
    ASSUME Typed, SourceInv, Staged, Imported, [Next]_vars
    PROVE  Imported'
PROOF
  <1> USE CountsAssumption
  <1>1. CASE SourceStays
    <2>1. CASE job \notin Building
      BY <1>1, <2>1, SourceLeaves DEF Imported, Placed, recrypt
    <2>2. CASE job \in Building
      BY <1>1, <2>2, SourceLeaves DEF Imported, Building
    <2> QED  BY <2>1, <2>2
  <1>2. CASE OpenFile \/ Respond \/ RespondConflict \/ RequestFails \/ RangeRefused
             \/ Receive \/ Drop \/ BodyEnds \/ Accept \/ Discard
    <2>1. /\ job \in Fetching /\ job' \in Fetching \cup {"lost", "refused", "prepare"}
          /\ UNCHANGED <<bdb, dest, left>>
      BY <1>2 DEF OpenFile, Respond, RespondConflict, RequestFails, RangeRefused, Receive,
                  Drop, BodyEnds, Accept, Discard, Retry, downloading, Fetching
    <2> QED  BY <2>1 DEF Imported, Fetching
  <1>3. CASE PrepareSnapshot
    <2>1. /\ bdb'.now = bdb.now
          /\ bdb'.next = [row |-> snap.row, secret |-> recrypt(snap.secret),
                          cols |-> snap.cols \cup site.bCols, here |-> DOMAIN mf \ {0}]
      BY <1>3 DEF PrepareSnapshot, Typed
    <2>2. /\ job = "prepare" /\ job' = "place" /\ f' = 1
          /\ UNCHANGED <<dest, left, mf, snap, site>>
      BY <1>3 DEF PrepareSnapshot, importing, source
    <2> QED  BY <2>1, <2>2 DEF Imported, Placed, Recs, recrypt
  <1>4. CASE PrepareFails
    BY <1>4 DEF PrepareFails, importing, Imported
  <1>5. CASE MoveFile
    <2>1. /\ job = "place" /\ job' = "place" /\ f' = f + 1 /\ f \in Recs
          /\ UNCHANGED <<bdb, left, mf, snap, site>>
      BY <1>5 DEF MoveFile, importing, source
    <2>2. \A c \in Recs : c # f => dest'[c] = dest[c]
      BY <1>5 DEF MoveFile, Typed
    <2>3. IF f \in DOMAIN mf THEN dest'[f] = mf[f] ELSE f \in left \/ dest'[f] = Absent
      <3>1. CASE f \in DOMAIN mf
        BY <1>5, <2>1, <3>1 DEF MoveFile, Staged, Typed, Recs
      <3>2. CASE f \notin DOMAIN mf
        BY <1>5, <2>1, <3>2 DEF MoveFile, Imported, Placed
      <3> QED  BY <3>1, <3>2
    <2>4. Placed(f)'
      BY <2>1, <2>2, <2>3 DEF Imported, Placed, Recs
    <2> QED  BY <2>1, <2>4 DEF Imported, recrypt
  <1>6. CASE MoveFails
    <2>1. PICK part \in halfMoved, kept \in SUBSET placed :
                 /\ dest' = [RemoveFiles(kept) EXCEPT ![f] = part]
                 /\ left' = (left \ placed) \cup kept \cup {f}
      BY <1>6 DEF MoveFails
    <2>2. /\ job = "place" /\ job' = "failed" /\ UNCHANGED bdb
      BY <1>6 DEF MoveFails, importing
    <2>3. \A c \in Recs \ {f} : dest'[c] = RemoveFiles(kept)[c]
      BY <2>1 DEF RemoveFiles
    <2> QED  BY <2>1, <2>2, <2>3, Removed DEF Imported
  <1>7. CASE CloneTx
    <2>1. /\ job = "place" /\ job' = "imported" /\ f = Last + 1
          /\ UNCHANGED <<dest, left, mf, snap, site>>
      BY <1>7 DEF CloneTx, importing, source, Staged
    <2>2. bdb'.now = [bdb.next EXCEPT !.cols = cloned]
      BY <1>7 DEF CloneTx, Typed
    <2>3. /\ bdb'.now.row = snap.row /\ bdb'.now.secret = recrypt(snap.secret)
          /\ bdb'.now.here = DOMAIN mf \ {0} /\ bdb'.now.cols = cloned
      BY <2>1, <2>2 DEF Imported
    <2>4. site.aCols \ legacy \subseteq cloned
      BY <2>1 DEF Imported, cloned, SourceInv, Snapped
    <2> QED  BY <2>1, <2>3, <2>4 DEF Imported, Placed, recrypt, legacy
  <1>8. CASE CloneFails
    <2>1. /\ job = "place" /\ job' = "failed" /\ UNCHANGED bdb
          /\ \E kept \in SUBSET placed : /\ dest' = RemoveFiles(kept)
                                        /\ left' = (left \ placed) \cup kept
      BY <1>8 DEF CloneFails, importing
    <2> QED  BY <2>1, Removed DEF Imported
  <1>9. CASE RestartB
    <2>1. job' = "failed" /\ job # "imported" /\ UNCHANGED bdb
      BY <1>9 DEF RestartB, importing
    <2>2. CASE job # "place"
      BY <1>9, <2>1, <2>2 DEF RestartB, Imported
    <2>3. CASE job = "place"
      <3>1. \A c \in Recs \ left' : c \notin left /\ c \notin placed /\ dest'[c] = dest[c]
        BY <1>9, <2>3 DEF RestartB, Typed
      <3> QED  BY <2>1, <2>3, <3>1 DEF Imported, Placed, placed
    <2> QED  BY <2>2, <2>3
  <1>10. CASE UNCHANGED vars
    BY <1>10 DEF vars, source, Imported, Placed, recrypt
  <1> QED
    BY <1>1, <1>2, <1>3, <1>4, <1>5, <1>6, <1>7, <1>8, <1>9, <1>10 DEF Next, SourceStays

-----------------------------------------------------------------------------
(* The theorems. *)

\* The migration begins with the tables and WAVs of A as they are, and nothing
\* of A at B (fetchAndVerify).
LEMMA TransferStarts == Init => TransferInv
PROOF
  <1> SUFFICES ASSUME Init PROVE TransferInv
    OBVIOUS
  <1> USE CountsAssumption, ContentFacts
  <1>1. PICK kind \in [Recs -> {"open", "done", "missing", "ready"}] :
              /\ wav = [c \in Recs |-> CASE kind[c] = "open" -> OpenWav
                                         [] kind[c] = "done" -> ClosedWav
                                         [] OTHER -> Absent]
              /\ row = [c \in Recs |-> CASE kind[c] = "open" -> "recording"
                                         [] kind[c] = "ready" -> "ready"
                                         [] OTHER -> "uploading"]
    BY DEF Init
  <1>2. Typed
    BY <1>1 DEF Init, Typed, Wavs, Jobs, Building
  <1>3. ClosedFirst
    BY <1>1 DEF ClosedFirst, Wavs
  <1>4. SourceInv
    BY <1>3 DEF Init, SourceInv, Snapped, Collected, Served, Summed, Complete
  <1>5. Staged
    BY DEF Init, Staged, Building, Fetching
  <1>6. NotWasted
    BY DEF Init, NotWasted, DownloadSurvives, Fetching
  <1>7. Imported
    BY DEF Init, Imported
  <1> QED  BY <1>2, <1>4, <1>5, <1>6, <1>7 DEF TransferInv

\* The invariant holds: the files are followed from A's disk to B's
\* (buildSnapshot, downloadOnce, importClone).
LEMMA TransferInvariant == Spec => []TransferInv
PROOF
  <1>1. TransferInv /\ [Next]_vars => TransferInv'
    BY TypedStep, SourceStep, StagedStep, NotWastedStep, ImportedStep DEF TransferInv
  <1> QED  BY TransferStarts, <1>1, PTL DEF Spec

\* A download is given up only when every one of its attempts was disturbed, or
\* the file at the source is not the one that was summed (download): for any
\* number of attempts, files and faults.
THEOREM NoAttemptIsWasted == Spec => []DownloadSurvives
PROOF
  <1>1. TransferInv => DownloadSurvives
    BY DEF TransferInv, NotWasted
  <1> QED  BY <1>1, TransferInvariant, PTL

\* The import takes every finished recording that A has, every readable secret and
\* every column; else, through failing moves and removals and restarts, B's
\* database is its own, and no recording is in a place that is not left over
\* (importClone): whatever earlier migrations left.
THEOREM ImportIsAllOrNothing == Spec => []AllOrNothing
PROOF
  <1>1. ASSUME TransferInv, job = "imported"
        PROVE  /\ \A c \in Recs : bdb.now.row[c] = "uploading" =>
                     wav[c] = IF c \in bdb.now.here THEN dest[c] ELSE Absent
               /\ \A c \in bdb.now.here : dest[c] = mf[c]
               /\ readable(site.aKey, site.secret) => readable(site.bKey, bdb.now.secret)
               /\ site.aCols \ legacy \subseteq bdb.now.cols
    <2> USE <1>1, CountsAssumption, ContentFacts DEF TransferInv
    <2>1. /\ bdb.now.here = DOMAIN mf \ {0} /\ bdb.now.here \subseteq Recs
          /\ \A c \in bdb.now.here : dest[c] = mf[c]
      BY DEF Imported, Placed, Typed, Files, Recs
    <2>2. ASSUME NEW c \in Recs, bdb.now.row[c] = "uploading"
          PROVE  wav[c] = IF c \in bdb.now.here THEN dest[c] ELSE Absent
      <3>1. snap.row[c] = "uploading"
        BY <2>2 DEF Imported
      <3>2. CASE c \in DOMAIN mf
        <4>1. mf[c] = wav[c]
          BY <3>1, <3>2 DEF SourceInv, Summed, Served, Recs
        <4>2. c \in bdb.now.here
          BY <2>1, <3>2 DEF Recs
        <4> QED  BY <2>1, <4>1, <4>2
      <3>3. CASE c \notin DOMAIN mf
        <4>1. wav[c] = Absent
          BY <3>1, <3>3 DEF SourceInv, Complete, pending
        <4> QED  BY <2>1, <3>3, <4>1
      <3> QED  BY <3>2, <3>3
    <2>3. readable(site.aKey, site.secret) => readable(site.bKey, bdb.now.secret)
      BY DEF Imported, SourceInv, Snapped, readable, recrypt, decryptSecrets
    <2> QED  BY <2>1, <2>2, <2>3 DEF Imported
  <1>2. ASSUME TransferInv, job \in {"failed", "lost", "refused"}
        PROVE  bdb.now = Own /\ \A c \in Recs \ left : dest[c] = Absent
    BY <1>2 DEF TransferInv, Imported
  <1>3. TransferInv => AllOrNothing
    BY <1>1, <1>2 DEF AllOrNothing
  <1> QED  BY <1>3, TransferInvariant, PTL
=============================================================================
