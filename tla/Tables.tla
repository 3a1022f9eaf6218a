------------------------------- MODULE Tables -------------------------------
(***************************************************************************)
(* The frequency tables of the voice codec, as they are expanded at the    *)
(* first use from small seeds embedded in the program (cc_tables.go,       *)
(* pitch_seed.go, lsf_seed.go), and the windows the two sides take of      *)
(* them.  The encoder and the decoder read the pitch tables in different   *)
(* ways: the encoder the rows of PitchTables, the decoder one memory image *)
(* by computed addresses (mem.go).                                         *)
(*                                                                         *)
(* The bytes of the seeds are a constant.  Where the code approximates a   *)
(* distribution in fixed point (a split of pulses, the run to the next     *)
(* pulse), the exact one is taken; their rounding to integer frequencies   *)
(* is that of the code.                                                    *)
(***************************************************************************)
EXTENDS RangeLoops, FiniteSets, SequencesExt, Combinatorics

CONSTANTS Seed,         \* the bytes of the three seeds, by table
          CmfTop,       \* the total of a table (32767)
          MaxPerSf,     \* ccMaxPulsesPerSf: pulses of a subframe (40)
          PosPer,       \* sample positions of a subframe (80)
          RunStep,      \* ccRunlengthStep (8)
          OffsetSteps,  \* ccFcbgOffsetSteps (176)
          NrgSyms,      \* energies coded relative to the gain (91)
          FcbgVN,       \* ccFcbgVN (34)
          Order,        \* lsfOrder (16)
          Grids,        \* lsfCentroids + 1 (17)
          BlockSize,    \* pitchBlocksize (64)
          Blocks        \* pitchNumBlocks (9)

VARIABLE tables  \* the expanded tables, package variables loaded at the first use

SumOf(s) == FoldLeft(LAMBDA a, x : a + x, 0, s)

-----------------------------------------------------------------------------
(* From weights to a table. *)

\* pdfToCmf: every symbol keeps at least one, whatever its weight.
pdfToCmf(pdf) ==
    LET sum == SumOf(pdf)
        share(w) == (w * (CmfTop - Len(pdf))) \div sum + 1
    IN FoldLeft(LAMBDA cmf, w : Append(cmf, cmf[Len(cmf)] + share(w)), <<0>>, pdf)

\* dcmf to cmf: the byte of a seed stands for the root of a weight.
dcmfToCmf(row) == pdfToCmf([i \in DOMAIN row |-> Least((row[i] + 1) * (row[i] + 1), 65535)])

Uniform(n) == [i \in 1 .. n + 1 |-> i - 1]

\* cdfWindow: n entries from place start (from 0), zero outside of the table.
cdfWindow(base, start, n) ==
    [i \in 1 .. n |-> IF start + i \in DOMAIN base THEN base[start + i] ELSE 0]

-----------------------------------------------------------------------------
(* Pulses. *)

FrameLen == 4 * MaxPerSf

\* The triangular prior of the pulse count over 0 .. FrameLen, to k.
triT(k) == (k + 2) * (FrameLen + 1) - ((k - 1) * (k - 2)) \div 2
countCmf == [i \in 1 .. FrameLen + 2 |-> IF i = 1 THEN 0 ELSE triT(i - 2)]

\* ccCreateSplitCmfs: how many of a number of pulses fall in the first half, none
\* of the halves with more than two subframes hold.
splitCmfs ==
    [total \in 1 .. FrameLen - 1 |->
        LET least == IF total > 2 * MaxPerSf THEN total - 2 * MaxPerSf ELSE 0
        IN pdfToCmf([i \in 1 .. total - 2 * least + 1 |-> choose(total, least + i - 1)])]

SplitCmf(total) == IF total \in DOMAIN tables.split THEN tables.split[total] ELSE <<>>

\* ccCreateRunlenTable: with c pulses on ms positions, where the first one is.
runlen ==
    [oct \in 1 .. PosPer \div RunStep |->
        LET ms == oct * RunStep
        IN [c \in 1 .. MaxPerSf |->
              pdfToCmf([n \in 1 .. ms |-> (ms - n + 1) ^ c - (ms - n) ^ c])]]

\* The window for pos positions left, of the table of the next multiple of RunStep.
runCmf(pos, c) ==
    LET oct == (pos + RunStep - 1) \div RunStep
    IN cdfWindow(tables.run[oct][c], oct * RunStep - pos, pos + 1)

-----------------------------------------------------------------------------
(* Gains. *)

gain4Cmf == dcmfToCmf(Seed.gain4)
shape4Cmf == dcmfToCmf(Seed.shape4)
fcbgOffset == [bucket \in DOMAIN Seed.offset |-> dcmfToCmf(Seed.offset[bucket])]
acbgains == [row \in DOMAIN Seed.acb |-> dcmfToCmf(Seed.acb[row])]
fcbgainsV == dcmfToCmf(Seed.fcb)
fcbgainsVDelta == dcmfToCmf(Seed.fcbDelta)

FcbgOffset(bucket, minOffset) == SubSeq(tables.offset[bucket + 1], minOffset + 1, minOffset + NrgSyms + 1)
AcbgainRow(prev) == tables.acb[prev + 2]

\* The filter after the filter prev, or the first one.
FcbgainRow(prev) ==
    IF prev = -1 THEN tables.filt
    ELSE SubSeq(tables.filtDelta, FcbgVN - prev, 2 * FcbgVN - prev)

-----------------------------------------------------------------------------
(* Spectral envelope: one row after the other, cut from one run of bytes as   *)
(* the number of levels of each says.                                         *)

levelsBefore(row) == SumOf(SubSeq(Seed.levels, 1, row - 1))

stage2 ==
    [row \in DOMAIN Seed.levels |->
        dcmfToCmf(SubSeq(Seed.dcmfs, levelsBefore(row) + 1, levelsBefore(row + 1)))]

\* By codebook (voiced), then rate (only the first is used), grid, coefficient.
LsfStage2(voiced, grid, k) == tables.stage2[(voiced * 2 * Grids + grid) * Order + k]

-----------------------------------------------------------------------------
(* Pitch. *)

\* decodeBlockseg: each contour is range coded in the seed: its length, then
\* pairs of a block and a number of subblocks.
ecDecodeUniform(d, n) == DecodeCDF(d, Uniform(n))

decodePair(a) ==
    LET blk == ecDecodeUniform(a.dec, Blocks)
        len == ecDecodeUniform(blk.dec, 4)
    IN [dec |-> len.dec, seg |-> [blocks |-> Append(a.seg.blocks, blk.sym),
                                  lens |-> Append(a.seg.lens, len.sym + 1)]]

decodeBlockseg(dec) ==
    LET length == ecDecodeUniform(dec, 6)
    IN FoldLeft(LAMBDA a, i : decodePair(a),
                [dec |-> length.dec, seg |-> [blocks |-> <<>>, lens |-> <<>>]],
                [i \in 1 .. length.sym + 1 |-> i])

\* The contours, in the order of the seed.
Contours ==
    FoldLeft(LAMBDA a, i : LET next == decodeBlockseg(a.dec)
                           IN [dec |-> next.dec, segs |-> Append(a.segs, next.seg)],
             [dec |-> NewRangeDecoder(Seed.blocksegs), segs |-> <<>>],
             [i \in DOMAIN Seed.rank |-> i]).segs

\* Blocksegs2idx: the place of a contour on the wire, from 1.
Rank == Seed.rank

BlocksegIdxCmf == dcmfToCmf(Seed.idx)
DeltaLagCmfs == [mode \in DOMAIN Seed.delta |-> dcmfToCmf(Seed.delta[mode])]
BlockTransitionCmf == [b \in DOMAIN Seed.transition |-> dcmfToCmf(Seed.transition[b])]

\* FirstblockRange: first and last place, from 0, of the contours that start at b.
FirstblockRange(b) == Seed.range[b + 1]

\* The memory image: the table of contours, a gap, the rows of deltas, the rows of
\* transitions.  An address counts entries of two bytes.
Gap == 1
heap == BlocksegIdxCmf \o [i \in 1 .. Gap |-> 0] \o FlattenSeq(DeltaLagCmfs)
        \o FlattenSeq(BlockTransitionCmf)
LagCdf == 0
FracBase == Len(tables.idx) + Gap
DeltaCdf == FracBase + 3 * 5 * BlockSize

CDFAt(addr, n) == cdfWindow(tables.heap, addr, n)

-----------------------------------------------------------------------------
\* LoadCcTables, LoadSmplTables, LoadPitchTables and LoadSmplMem.
LoadTables ==
    [count |-> countCmf, split |-> splitCmfs, run |-> runlen,
     gain |-> gain4Cmf, shape |-> shape4Cmf, offset |-> fcbgOffset,
     acb |-> acbgains, filt |-> fcbgainsV, filtDelta |-> fcbgainsVDelta,
     stage2 |-> stage2, contours |-> Contours, idx |-> BlocksegIdxCmf,
     delta |-> DeltaLagCmfs, transition |-> BlockTransitionCmf, heap |-> heap]

-----------------------------------------------------------------------------
(***************************************************************************)
(* The table of each symbol of a packet, by its kind and the context that  *)
(* selects it.                                                             *)
(***************************************************************************)
Common(t) ==
    LET x == t.ctx
    IN CASE t.kind = "sel" -> Seed.sel[x[1] + 1]
         [] t.kind = "grid" -> Seed.grid[x[1] + 1][x[2] + 1]
         [] t.kind = "res" -> LsfStage2(x[1], x[2], x[3])
         [] t.kind = "extra" -> Seed.extra
         [] t.kind = "count" -> tables.count
         [] t.kind = "split" -> cdfWindow(SplitCmf(x[1]), x[2], x[3])
         [] t.kind = "run" -> runCmf(x[1], x[2])
         [] t.kind = "sign" -> Uniform(2 ^ x[1])
         [] t.kind = "gain" -> tables.gain
         [] t.kind = "shape" -> tables.shape
         [] t.kind = "nrg" -> FcbgOffset(x[1], x[2])
         [] t.kind = "acb" -> AcbgainRow(x[1])
         [] t.kind = "filt" -> FcbgainRow(x[1])
         [] t.kind = "fine" -> Uniform(BlockSize)

\* encodeLagsWire and DecodeSmplPitch.
Written(t) ==
    LET x == t.ctx
    IN CASE t.kind = "contour" -> tables.idx
         [] t.kind = "block" -> tables.transition[x[1] + 1]
         [] t.kind = "within" -> LET r == FirstblockRange(x[1])
                                 IN SubSeq(tables.idx, r[1] + 1, r[2] + 2)
         [] t.kind = "delta" -> SubSeq(tables.delta[x[1] + 1], x[2] + 1, x[2] + BlockSize + 1)
         [] OTHER -> Common(t)

AsRead(t) ==
    LET x == t.ctx
    IN CASE t.kind = "contour" -> CDFAt(LagCdf, Len(tables.contours) + 1)
         [] t.kind = "block" -> CDFAt(DeltaCdf + x[1] * (Blocks + 1), Blocks + 1)
         [] t.kind = "within" -> LET r == FirstblockRange(x[1])
                                 IN CDFAt(LagCdf + r[1], r[2] - r[1] + 2)
         [] t.kind = "delta" -> CDFAt(FracBase + x[1] * 5 * BlockSize + x[2], BlockSize + 1)
         [] OTHER -> Common(t)
=============================================================================
