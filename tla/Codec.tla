------------------------------- MODULE Codec -------------------------------
(***************************************************************************)
(* One packet of the voice codec from its parameters to the wire and back: *)
(* encoder.go writes the parameters of the internal frames of a packet     *)
(* with the range coder, and decoder.go, lsf.go, pulse.go, gains.go and    *)
(* pitch.go read them.  Nothing on the wire says what comes next: both     *)
(* sides choose every table from what was coded before and from a          *)
(* predictor each keeps for itself, so one different choice turns the rest *)
(* of the packet, and of the packets that follow, into noise.              *)
(*                                                                         *)
(* The encoder is one action, which writes the sequence of all (table,     *)
(* symbol) pairs; the decoder takes one step per symbol, each in the       *)
(* table it chooses from its own state.  A table is its kind and the       *)
(* context that selects it; Tables has its frequencies.  The number of     *)
(* subframes is 4, as in the code; the other dimensions are scaled down.   *)
(***************************************************************************)
EXTENDS Tables

CONSTANTS Frames,      \* the packets to send: sequences of internal frames
          Others,      \* first bytes of the peer's packets that are not speech
          Leftovers,   \* predictors the decoder may keep from the packet before
          SignBatch,   \* signs in one raw symbol (15)
          BucketStep   \* pulses that change the table of the energies (10)

\* What the seeds satisfy.  A corrupt seed of the envelope panics; of the contours,
\* the ranks are a permutation, and those that start at one block are neighbours.
ASSUME SeedAssumption ==
    /\ SumOf(Seed.levels) = Len(Seed.dcmfs)
    /\ {Rank[c] : c \in DOMAIN Contours} = DOMAIN Contours
    /\ \A c \in DOMAIN Contours :
          LET b == Contours[c].blocks[1]
          IN \A r \in DOMAIN Contours :
                FirstblockRange(b)[1] < r /\ r <= FirstblockRange(b)[2] + 1
                  <=> \E d \in DOMAIN Contours : Rank[d] = r /\ Contours[d].blocks[1] = b

VARIABLES frame,   \* the packet under way
          toc,     \* its first byte, or NoByte
          sent,    \* the symbols the encoder wrote, with their tables
          in,      \* the decoder's range decoder
          got,     \* the symbols the decoder read, with their tables
          st,      \* the decoder's predictor, kept across packets
          at,      \* what the decoder reads next
          cur,     \* the internal frame it reads
          out,     \* the internal frames it has read
          pcm      \* the samples that the packet gave

vars == <<tables, frame, toc, pcm, sent, in, got, st, at, cur, out>>

Subframes == 1 .. 4

-----------------------------------------------------------------------------
(***************************************************************************)
(* toc.go: the first byte of a packet, b7 .. b0.  b7 b6 both set: Opus,    *)
(* not handled.  Else b7: comfort noise; b6 or b1: active; b5: 32 kHz;     *)
(* b4 b3: the duration.                                                    *)
(***************************************************************************)
NoByte == -1
EncoderTOC == 80
opusFrameSamps == 960

bit(b, i) == (b \div 2 ^ i) % 2

standardOpusFrameMs(b) ==
    LET config == b \div 8
    IN IF config < 12 THEN <<10, 20, 40, 60>>[(config % 4) + 1]
       ELSE IF config < 16 THEN <<10, 20>>[(config % 2) + 1]
       ELSE <<3, 5, 10, 20>>[(config % 4) + 1]

ParseSmplTOC(b) ==
    IF bit(b, 7) = 1 /\ bit(b, 6) = 1
    THEN [active |-> FALSE, rate |-> 16, ms |-> standardOpusFrameMs(b)]
    ELSE [active |-> bit(b, 7) = 0 /\ (bit(b, 6) = 1 \/ bit(b, 1) = 1),
          rate |-> IF bit(b, 5) = 1 THEN 32 ELSE 16,
          ms |-> <<10, 20, 60, 120>>[((b \div 8) % 4) + 1]]

outLen(b) == ParseSmplTOC(b).rate * ParseSmplTOC(b).ms

-----------------------------------------------------------------------------
(* Tables. *)

Table(kind, ctx) == [kind |-> kind, ctx |-> ctx]

selTable(f, prev) == Table("sel", <<IF f = 1 THEN 0 ELSE IF prev # 0 THEN 2 ELSE 1>>)
gridTable(match, stage1) == Table("grid", <<IF match THEN 1 ELSE 0, stage1>>)
resTable(stage1, grid, k) == Table("res", <<stage1, grid, k>>)
extraTable == Table("extra", <<>>)
countTable == Table("count", <<>>)
rawTable(n) == Table("sign", <<n>>)
runTable(pos, c) == Table("run", <<pos, c>>)
gainTable == Table("gain", <<>>)
shapeTable == Table("shape", <<>>)

\* The window of a split, the first part from lo to hi, in the table of all the
\* count pulses, which starts at the least first half of a frame.
splitTable(count, lo, hi) ==
    LET first == IF count > 2 * MaxPerSf THEN count - 2 * MaxPerSf ELSE 0
    IN Table("split", <<count, lo - first, hi - lo + 2>>)

\* The offset row of a subframe's residual energy: by the number of pulses and
\* by the reconstructed gain, clamped below.
Level(main, shape, sf) == 2 * main - 1 - ((sf + 4 * shape) % 3)
nrgTable(main, shape, sf, count) ==
    LET under == IF Level(main, shape, sf) < 0 THEN -Level(main, shape, sf) ELSE 0
    IN Table("nrg", <<Least(count \div BucketStep, 3), Least(under, OffsetSteps - NrgSyms)>>)

acbTable(prev) == Table("acb", <<prev>>)
filtTable(prev) == Table("filt", <<prev>>)

\* The lag tables.  firstRank(b): the first of the contours that start at b.
firstRank(b) == FirstblockRange(b)[1] + 1
contourTable == Table("contour", <<>>)
blockTable(prev) == Table("block", <<prev>>)
withinTable(b) == Table("within", <<b>>)
fineTable == Table("fine", <<>>)
deltaTable(mode, base) == Table("delta", <<mode, base>>)

\* The class of the mean gain, which selects the table of the lag deltas.
modeOf(gains) ==
    LET sum == gains[1] + gains[2] + gains[3] + gains[4]
    IN IF sum < 1 THEN 0 ELSE IF sum < 4 THEN 1 ELSE 2

-----------------------------------------------------------------------------
(***************************************************************************)
(* The encoder.  An internal frame has stage1 (1: voiced), grid, res,      *)
(* extra, the pulse vector (signed magnitudes, one sequence per subframe), *)
(* and either main, shape and nrg or gains, filt, contour and lag (the     *)
(* place in its block of each segment's lag).                              *)
(***************************************************************************)
Put(t, s) == <<[table |-> t, sym |-> s]>>

Magnitude(x) == IF x < 0 THEN -x ELSE x
Counts(v) == [sf \in Subframes |-> SumOf([n \in 1 .. PosPer |-> Magnitude(v[sf][n])])]

\* smplBuildPulseParams: the distance of each position from the one before,
\* then a zero for each further pulse on it.
buildRuns(v) ==
    FoldLeft(LAMBDA a, n :
                IF v[n] = 0 THEN a
                ELSE [from |-> n,
                      runs |-> a.runs \o <<n - a.from>>
                               \o [i \in 1 .. Magnitude(v[n]) - 1 |-> 0]],
             [from |-> 1, runs |-> <<>>], [n \in 1 .. PosPer |-> n]).runs

signsOf(v) == SelectSeq(v[1] \o v[2] \o v[3] \o v[4], LAMBDA x : x # 0)

\* Mutant: the first sign in the lowest bit.
packFirstLow(signs, i, n) ==
    FoldLeft(LAMBDA a, x : 2 * a + (IF x > 0 THEN 1 ELSE 0), 0,
             Reverse(SubSeq(signs, i, i + n - 1)))

\* The raw symbol of signs i .. i + n - 1, the first in the highest bit.
packSigns(signs, i, n) ==
    FoldLeft(LAMBDA a, x : 2 * a + (IF x > 0 THEN 1 ELSE 0), 0, SubSeq(signs, i, i + n - 1))

signWrites(v) ==
    LET signs == signsOf(v)
        batches == (Len(signs) + SignBatch - 1) \div SignBatch
        batch(b) == LET i == (b - 1) * SignBatch + 1
                        n == Least(SignBatch, Len(signs) - i + 1)
                    IN [table |-> rawTable(n), sym |-> packSigns(signs, i, n)]
    IN [b \in 1 .. batches |-> batch(b)]

\* encodeSplit3537: nothing is written when the first half is forced.
encodeSplit(count, g, first) ==
    LET lo == IF count > g THEN count - g ELSE 0
        hi == Least(count, g)
    IN IF lo >= hi THEN <<>> ELSE Put(splitTable(count, lo, hi), first - lo)

\* The runs of one subframe, each in the window of the positions left.
encodeRuns(runs) ==
    [k \in 1 .. Len(runs) |->
        [table |-> runTable(PosPer - SumOf(SubSeq(runs, 1, k - 1)), Len(runs) - k + 1),
         sym |-> runs[k]]]

encodeSmplPulses(p) ==
    LET c == Counts(p.pulses)
        total == c[1] + c[2] + c[3] + c[4]
        half == c[1] + c[2]
    IN Put(countTable, total)
       \o (IF total = 0 THEN <<>>
           ELSE encodeSplit(total, 2 * MaxPerSf, half)
                \o (IF half > 0 THEN encodeSplit(half, MaxPerSf, c[1]) ELSE <<>>)
                \o (IF half < total THEN encodeSplit(total - half, MaxPerSf, c[3]) ELSE <<>>)
                \o encodeRuns(buildRuns(p.pulses[1])) \o encodeRuns(buildRuns(p.pulses[2]))
                \o encodeRuns(buildRuns(p.pulses[3])) \o encodeRuns(buildRuns(p.pulses[4]))
                \o signWrites(p.pulses))

encodeSmplLsf(pred, f, p) ==
    LET m == f > 1 /\ p.stage1 = pred.stage1
    IN Put(selTable(f, pred.stage1), p.stage1)
       \o Put(gridTable(m, p.stage1), p.grid)
       \o [k \in 1 .. Order |-> [table |-> resTable(p.stage1, p.grid, k), sym |-> p.res[k]]]
       \o Put(extraTable, p.extra)

\* The predictor at the start of an internal frame: forgotten on a change of
\* codebook and at the start of a packet.
resetPredictor(pred, f, stage1) ==
    IF f > 1 /\ stage1 = pred.stage1 THEN pred
    ELSE [stage1 |-> stage1, gain |-> -1, filt |-> -1, blk |-> -1, idx |-> -1]

encodeSmplGains(p) ==
    LET c == Counts(p.pulses)
    IN Put(gainTable, p.main) \o Put(shapeTable, p.shape)
       \o FoldLeft(LAMBDA a, sf :
                      IF c[sf] = 0 THEN a
                      ELSE a \o Put(nrgTable(p.main, p.shape, sf, c[sf]), p.nrg[sf]),
                   <<>>, <<1, 2, 3, 4>>)

\* The long-term gains and, where there are pulses, the filters: each in the
\* table of the one before it.
encodeLtp(pred, p) ==
    LET c == Counts(p.pulses)
    IN FoldLeft(LAMBDA a, sf :
                   LET gain == Put(acbTable(a.gain), p.gains[sf])
                       filt == Put(filtTable(a.filt), p.filt[sf])
                   IN IF c[sf] = 0
                      THEN [a EXCEPT !.w = @ \o gain, !.gain = p.gains[sf]]
                      ELSE [w |-> a.w \o gain \o filt, gain |-> p.gains[sf],
                            filt |-> p.filt[sf]],
                [w |-> <<>>, gain |-> pred.gain, filt |-> pred.filt], <<1, 2, 3, 4>>)

\* encodeLagsWire: the contour, then its lags; the first is absolute unless the
\* block of the frame before is near.
encodeLags(pred, p) ==
    LET c == tables.contours[p.contour]
        idx(k) == c.blocks[k] * BlockSize + p.lag[k]
        first == c.blocks[1]
        near == pred.blk > -1 /\ first - pred.blk >= -1 /\ first - pred.blk <= 2
        base(k) == LET blk == IF k = 1 THEN pred.blk ELSE c.blocks[k - 1]
                       was == IF k = 1 THEN pred.idx ELSE idx(k - 1)
                   IN -(was - blk * BlockSize) + (c.blocks[k] - blk) * BlockSize
                      + 2 * BlockSize - 1
        delta(k) == Put(deltaTable(modeOf(p.gains), base(k)), idx(k) - c.blocks[k] * BlockSize)
    IN (IF pred.blk < 0
        THEN Put(contourTable, Rank[p.contour] - 1)
        ELSE Put(blockTable(pred.blk), first)
             \o Put(withinTable(first), Rank[p.contour] - firstRank(first)))
       \o (IF near THEN delta(1) ELSE Put(fineTable, idx(1) - first * BlockSize))
       \o FoldLeft(LAMBDA a, k : a \o delta(k), <<>>, [k \in 1 .. Len(c.blocks) - 1 |-> k + 1])

\* One internal frame: what is written, and the predictor after it.
encodeInternal(a, p) ==
    LET f == a.f + 1
        pred == resetPredictor(a.pred, f, p.stage1)
        ltp == encodeLtp(pred, p)
        blocks == tables.contours[p.contour].blocks
        last == Len(blocks)
        block == encodeSmplLsf(a.pred, f, p) \o encodeSmplPulses(p)
    IN IF p.stage1 = 1
       THEN [f |-> f, w |-> a.w \o block \o ltp.w \o encodeLags(pred, p),
             pred |-> [pred EXCEPT !.gain = ltp.gain, !.filt = ltp.filt, !.blk = blocks[last],
                                   !.idx = blocks[last] * BlockSize + p.lag[last]]]
       ELSE [f |-> f, w |-> a.w \o block \o encodeSmplGains(p), pred |-> pred]

smplWrites(fp) ==
    FoldLeft(encodeInternal,
             [f |-> 0, w |-> <<>>,
              pred |-> [stage1 |-> 0, gain |-> 0, filt |-> 0, blk |-> 0, idx |-> 0]],
             fp).w

encodeAll(w) == Done(FoldLeft(LAMBDA e, x : EncodeCDF(e, x.sym, Written(x.table)), NewRangeEncoder, w))

Blank == [stage1 |-> 0, match |-> FALSE, grid |-> 0, res |-> <<>>, extra |-> 0, total |-> 0,
          half |-> 0, split |-> <<0, 0, 0, 0>>, runs |-> <<<<>>, <<>>, <<>>, <<>>>>,
          signs |-> <<>>, main |-> 0, shape |-> 0, nrg |-> <<-1, -1, -1, -1>>,
          gains |-> <<>>, filt |-> <<-1, -1, -1, -1>>,
          block |-> 0, contour |-> 0,
          lag |-> <<>>]

\* EncodeSmplFrame: a frame that does not fit the buffer is refused; only the
\* consumed bytes go on the wire, where NewRangeDecoder finds them.
EncodeSmplFrame ==
    /\ at = "encode"
    /\ \E fp \in Frames :
          \E w \in {smplWrites(fp)} : \E e \in {encodeAll(w)} :
             /\ frame' = fp /\ sent' = w
             /\ IF e.err THEN at' = "refused" /\ UNCHANGED <<toc, in>>
                ELSE at' = "toc" /\ toc' = EncoderTOC /\ in' = NewRangeDecoder(e.out)
    /\ UNCHANGED <<tables, got, st, cur, out, pcm>>

\* A packet of the peer that is not speech, or an empty one.
PeerSends ==
    /\ at = "encode"
    /\ toc' \in Others \union {NoByte}
    /\ at' = "toc"
    /\ UNCHANGED <<tables, frame, sent, in, got, st, cur, out, pcm>>

-----------------------------------------------------------------------------
(***************************************************************************)
(* The decoder: decodeActiveFrame, one action per kind of symbol.          *)
(***************************************************************************)
\* Decode, decodeFrame: what is not active is silence of its duration, and the
\* predictor is as it was.
decodeFrame ==
    /\ at = "toc"
    /\ IF toc # NoByte /\ ParseSmplTOC(toc).active
       THEN at' = "selector" /\ UNCHANGED pcm
       ELSE at' = "done" /\ pcm' = IF toc = NoByte THEN opusFrameSamps ELSE outLen(toc)
    /\ UNCHANGED <<tables, frame, toc, sent, in, got, st, cur, out>>

\* The next symbol, in table t; the decoder moves past it.
Read(t) ==
    \E d \in {DecodeCDF(in, AsRead(t))} :
        in' = d.dec /\ got' = Append(got, [table |-> t, sym |-> d.sym])

Symbol == got'[Len(got')].sym   \* the one just read

Intf == Len(out) + 1

ReadSelector ==
    /\ at = "selector"
    /\ Read(selTable(Intf, st.stage1))
    /\ LET m == Intf > 1 /\ Symbol = st.stage1
       IN /\ cur' = [Blank EXCEPT !.stage1 = Symbol, !.match = m]
          /\ st' = IF m THEN st
                   ELSE [stage1 |-> Symbol, gain |-> -1, filt |-> -1, lag |-> -1, frac |-> -1]
    /\ at' = "grid"
    /\ UNCHANGED <<tables, frame, toc, pcm, sent, out>>

ReadGrid ==
    /\ at = "grid"
    /\ Read(gridTable(cur.match, cur.stage1))
    /\ cur' = [cur EXCEPT !.grid = Symbol]
    /\ at' = "res"
    /\ UNCHANGED <<tables, frame, toc, pcm, sent, st, out>>

ReadResidual ==
    /\ at = "res"
    /\ Read(resTable(cur.stage1, cur.grid, Len(cur.res) + 1))
    /\ cur' = [cur EXCEPT !.res = Append(@, Symbol)]
    /\ at' = IF Len(cur'.res) = Order THEN "extra" ELSE "res"
    /\ UNCHANGED <<tables, frame, toc, pcm, sent, st, out>>

ReadExtra ==
    /\ at = "extra"
    /\ Read(extraTable)
    /\ cur' = [cur EXCEPT !.extra = Symbol]
    /\ at' = "count"
    /\ UNCHANGED <<tables, frame, toc, pcm, sent, st, out>>

\* Where the decoder goes after (part of) the pulses: the runs of each subframe
\* up to its count, then a sign per position, then the voiced or unvoiced rest.
runsOf(c, sf) == Len(c.runs[sf])
Pending(c) == {sf \in Subframes : runsOf(c, sf) < c.split[sf]}
NumPos(c) ==
    SumOf([sf \in Subframes |->
             Cardinality({k \in 1 .. runsOf(c, sf) : k = 1 \/ c.runs[sf][k] > 0})])
AfterPulses(c) ==
    IF Pending(c) # {} THEN "run"
    ELSE IF Len(c.signs) < NumPos(c) THEN "sign"
    ELSE IF c.stage1 = 1 THEN "ltp" ELSE "gain"

ReadCount ==
    /\ at = "count"
    /\ Read(countTable)
    /\ cur' = [cur EXCEPT !.total = Symbol]
    /\ at' = IF cur'.total = 0 THEN AfterPulses(cur') ELSE "half"
    /\ UNCHANGED <<tables, frame, toc, pcm, sent, st, out>>

\* smplSplit3537: first is the part of count in the first half.
Split(count, g, first) ==
    LET lo == IF count > g THEN count - g ELSE 0
        hi == Least(count, g)
        t == splitTable(count, lo, hi)
    IN IF lo = hi THEN first = lo /\ UNCHANGED <<in, got>>
       ELSE Read(t) /\ first = lo + Symbol

ReadHalf ==
    /\ at = "half"
    /\ \E sum \in 0 .. cur.total :
          Split(cur.total, 2 * MaxPerSf, sum) /\ cur' = [cur EXCEPT !.half = sum]
    /\ at' = "left"
    /\ UNCHANGED <<tables, frame, toc, pcm, sent, st, out>>

ReadLeft ==
    /\ at = "left"
    /\ \E s \in 0 .. cur.half :
          /\ Split(cur.half, MaxPerSf, s)
          /\ cur' = [cur EXCEPT !.split = <<s, cur.half - s, 0, 0>>]
    /\ at' = "right"
    /\ UNCHANGED <<tables, frame, toc, pcm, sent, st, out>>

ReadRight ==
    /\ at = "right"
    /\ LET rest == cur.total - cur.half
       IN \E s \in 0 .. rest :
             /\ Split(rest, MaxPerSf, s)
             /\ cur' = [cur EXCEPT !.split = <<@[1], @[2], s, rest - s>>]
    /\ at' = AfterPulses(cur')
    /\ UNCHANGED <<tables, frame, toc, pcm, sent, st, out>>

ReadRun ==
    /\ at = "run"
    /\ LET sf == CHOOSE x \in Pending(cur) : \A y \in Pending(cur) : x <= y
           t == runTable(PosPer - SumOf(cur.runs[sf]), cur.split[sf] - runsOf(cur, sf))
       IN Read(t) /\ cur' = [cur EXCEPT !.runs[sf] = Append(@, Symbol)]
    /\ at' = AfterPulses(cur')
    /\ UNCHANGED <<tables, frame, toc, pcm, sent, st, out>>

\* One batch of signs, the first in the highest bit.
ReadSigns ==
    /\ at = "sign"
    /\ LET n == Least(NumPos(cur) - Len(cur.signs), SignBatch)
       IN /\ Read(rawTable(n))
          /\ cur' = [cur EXCEPT !.signs =
                       @ \o [i \in 1 .. n |-> IF bit(Symbol, n - i) = 1 THEN 1 ELSE -1]]
    /\ at' = AfterPulses(cur')
    /\ UNCHANGED <<tables, frame, toc, pcm, sent, st, out>>

-----------------------------------------------------------------------------
(* Unvoiced: gains.go. *)

ReadGain ==
    /\ at = "gain"
    /\ Read(gainTable)
    /\ cur' = [cur EXCEPT !.main = Symbol]
    /\ at' = "shape"
    /\ UNCHANGED <<tables, frame, toc, pcm, sent, st, out>>

\* The next subframe after sf that has pulses, 0 when there is none.
NextSounding(c, sf) ==
    LET more == {x \in Subframes : x > sf /\ c.split[x] > 0}
    IN IF more = {} THEN 0 ELSE CHOOSE x \in more : \A y \in more : x <= y

ReadShape ==
    /\ at = "shape"
    /\ Read(shapeTable)
    /\ cur' = [cur EXCEPT !.shape = Symbol]
    /\ at' = IF NextSounding(cur, 0) = 0 THEN "end" ELSE "nrg"
    /\ UNCHANGED <<tables, frame, toc, pcm, sent, st, out>>

\* The symbols read so far of this block tell the subframe.
ReadNrg ==
    /\ at = "nrg"
    /\ LET done == {x \in Subframes : cur.nrg[x] >= 0}
           sf == NextSounding(cur, IF done = {} THEN 0
                                   ELSE CHOOSE x \in done : \A y \in done : y <= x)
           t == nrgTable(cur.main, cur.shape, sf, cur.split[sf])
       IN /\ Read(t)
          /\ cur' = [cur EXCEPT !.nrg[sf] = Symbol]
          /\ at' = IF NextSounding(cur, sf) = 0 THEN "end" ELSE "nrg"
    /\ UNCHANGED <<tables, frame, toc, pcm, sent, st, out>>

-----------------------------------------------------------------------------
(* Voiced: the decode side of pitch.go. *)

\* After the gain (and filter) of a subframe: the next one, or the contour, of
\* which the predictor gives the first block or nothing.
AfterLtp(c) ==
    IF Len(c.gains) < 4 THEN "ltp" ELSE IF st.lag < 0 THEN "contour" ELSE "block"

ReadLtp ==
    /\ at = "ltp"
    /\ LET t == acbTable(st.gain)
       IN /\ Read(t)
          /\ cur' = [cur EXCEPT !.gains = Append(@, Symbol)]
          /\ st' = [st EXCEPT !.gain = Symbol]
    /\ at' = IF cur.split[Len(cur'.gains)] > 0 THEN "filter" ELSE AfterLtp(cur')
    /\ UNCHANGED <<tables, frame, toc, pcm, sent, out>>

ReadFilter ==
    /\ at = "filter"
    /\ LET t == filtTable(st.filt)
       IN /\ Read(t)
          /\ cur' = [cur EXCEPT !.filt[Len(cur.gains)] = Symbol]
          /\ st' = [st EXCEPT !.filt = Symbol]
    /\ at' = AfterLtp(cur)
    /\ UNCHANGED <<tables, frame, toc, pcm, sent, out>>

\* contour_map: the contour of a rank; then its first lag, in full unless the
\* block of the frame before is near.
contourOf(rank) == CHOOSE c \in DOMAIN tables.contours : Rank[c] = rank

Chosen(c) ==
    LET delta == tables.contours[c].blocks[1] - st.lag
    IN /\ cur' = [cur EXCEPT !.contour = c]
       /\ at' = IF st.lag >= 0 /\ delta >= -1 /\ delta < 3 THEN "delta" ELSE "fine"

ReadContour ==
    /\ at = "contour"
    /\ Read(contourTable)
    /\ Chosen(contourOf(Symbol + 1))
    /\ UNCHANGED <<tables, frame, toc, pcm, sent, st, out>>

ReadBlock ==
    /\ at = "block"
    /\ LET t == blockTable(st.lag)
       IN Read(t) /\ cur' = [cur EXCEPT !.block = Symbol]
    /\ at' = "within"
    /\ UNCHANGED <<tables, frame, toc, pcm, sent, st, out>>

ReadWithin ==
    /\ at = "within"
    /\ LET t == withinTable(cur.block)
       IN Read(t) /\ Chosen(contourOf(firstRank(cur.block) + Symbol))
    /\ UNCHANGED <<tables, frame, toc, pcm, sent, st, out>>

\* A lag is kept, absolute, for the segment it belongs to.
Lagged(blk, lag) ==
    /\ cur' = [cur EXCEPT !.lag = Append(@, lag)]
    /\ st' = [st EXCEPT !.lag = blk, !.frac = lag]
    /\ at' = IF Len(cur'.lag) = Len(tables.contours[cur.contour].blocks) THEN "end" ELSE "delta"

ReadFine ==
    /\ at = "fine"
    /\ Read(fineTable)
    /\ LET blk == tables.contours[cur.contour].blocks[1]
       IN Lagged(blk, blk * BlockSize + Symbol)
    /\ UNCHANGED <<tables, frame, toc, pcm, sent, out>>

ReadDelta ==
    /\ at = "delta"
    /\ LET blk == tables.contours[cur.contour].blocks[Len(cur.lag) + 1]
           nl2 == blk * BlockSize - st.frac
           t == deltaTable(modeOf(cur.gains), nl2 + 2 * BlockSize - 1)
       IN Read(t) /\ Lagged(blk, Symbol + st.frac + nl2)
    /\ UNCHANGED <<tables, frame, toc, pcm, sent, out>>

-----------------------------------------------------------------------------
(* What an internal frame sounds like: its codebooks, pulses, and either its *)
(* energies or its gains, filters and the lag of each subblock.              *)

Subblocks(contour, lags) ==
    FoldLeft(LAMBDA a, k : a \o [i \in 1 .. tables.contours[contour].lens[k] |-> lags[k]],
             <<>>, [k \in 1 .. Len(lags) |-> k])

\* The absolute positions of the pulses read, in order, with the pulses on each.
places(c, sf) ==
    FoldLeft(LAMBDA a, m :
                IF m > 0 \/ a = <<>>
                THEN Append(a, [pos |-> m + (IF a = <<>> THEN 1 ELSE a[Len(a)].pos), mag |-> 1])
                ELSE [a EXCEPT ![Len(a)].mag = @ + 1],
             <<>>, c.runs[sf])

scatter(c) ==
    LET before(sf) == SumOf([x \in 1 .. sf - 1 |-> Len(places(c, x))])
    IN [sf \in Subframes |->
          [n \in 1 .. PosPer |->
             LET hits == {i \in DOMAIN places(c, sf) : places(c, sf)[i].pos = n}
             IN IF hits = {} THEN 0
                ELSE LET i == CHOOSE x \in hits : TRUE
                     IN places(c, sf)[i].mag * c.signs[before(sf) + i]]]

Sound(stage1, grid, res, extra, pulses, rest) ==
    [stage1 |-> stage1, grid |-> grid, res |-> res, extra |-> extra,
     pulses |-> pulses, rest |-> rest]

Heard(c) ==
    Sound(c.stage1, c.grid, c.res, c.extra, scatter(c),
          IF c.stage1 = 1
          THEN <<c.gains, c.filt, Subblocks(c.contour, c.lag)>>
          ELSE <<c.main, c.shape, c.nrg>>)

EndInternal ==
    /\ at = "end"
    /\ out' = Append(out, Heard(cur))
    /\ IF Len(out') = Len(frame)
       THEN at' = "done" /\ pcm' = outLen(toc)   \* cut or filled up
       ELSE at' = "selector" /\ UNCHANGED pcm
    /\ cur' = Blank
    /\ UNCHANGED <<tables, frame, toc, sent, in, got, st>>

Init ==
    /\ tables = LoadTables
    /\ frame = <<>> /\ toc = NoByte /\ pcm = 0 /\ sent = <<>> /\ got = <<>> /\ out = <<>>
    /\ in = NewRangeDecoder(<<>>)
    /\ st \in Leftovers
    /\ at = "encode"
    /\ cur = Blank

Next ==
    \/ EncodeSmplFrame \/ PeerSends \/ decodeFrame
    \/ ReadSelector \/ ReadGrid \/ ReadResidual \/ ReadExtra
    \/ ReadCount \/ ReadHalf \/ ReadLeft \/ ReadRight \/ ReadRun \/ ReadSigns
    \/ ReadGain \/ ReadShape \/ ReadNrg
    \/ ReadLtp \/ ReadFilter \/ ReadContour \/ ReadBlock \/ ReadWithin
    \/ ReadFine \/ ReadDelta
    \/ EndInternal

Spec == Init /\ [][Next]_vars

-----------------------------------------------------------------------------
(* Properties. *)

\* The decoder never loses the encoder: whatever the frame and whatever the
\* decoder kept from the packet before, every symbol it reads is the one the
\* encoder wrote there, in the same table, and the packet ends with the last
\* (encoder.go: "the exact inverse of the byte-exact decoder").
InSync ==
    /\ IsPrefix(got, sent)
    /\ at = "done" => got = sent

\* What is heard is what was sent: the pulses with their places and signs, the
\* codebooks, the energies or the gains, filters and lags of the packet, and all of
\* its 60 ms (the first byte that analysis.go writes, as decoder.go reads it).
Meant(p) ==
    Sound(p.stage1, p.grid, p.res, p.extra, p.pulses,
          IF p.stage1 = 1
          THEN <<p.gains, p.filt,
                 Subblocks(p.contour, [k \in DOMAIN p.lag |->
                     tables.contours[p.contour].blocks[k] * BlockSize + p.lag[k]])>>
          ELSE <<p.main, p.shape, p.nrg>>)

FrameReturns ==
    at = "done" /\ toc = EncoderTOC =>
        /\ out = [f \in DOMAIN frame |-> Meant(frame[f])]
        /\ pcm = opusFrameSamps
=============================================================================
