---------------------------- MODULE RangeStream ----------------------------
(***************************************************************************)
(* One stream of the range coder (internal/voip/media/mlow/rangecoder.go), *)
(* turn by turn of its loops: symbols are encoded in a table each, Done    *)
(* writes the end, and a decoder with the same tables reads the buffer.    *)
(* Or the buffer is of somebody else: whatever the peer sent is decoded    *)
(* too.  Which table comes next is the codec's matter (Codec); here any    *)
(* table may follow any other.                                             *)
(*                                                                         *)
(* Beside the coder runs an ideal one (history): it has numbers without    *)
(* bound, so that no byte ever leaves it and no carry has to find one that *)
(* did.  The coder is right when its registers and the bytes that left it, *)
(* those held back included, are the ideal's number.                       *)
(***************************************************************************)
EXTENDS RangeCoder

CONSTANTS Cdfs,     \* the tables
          Foreign,  \* buffers that are not of this encoder
          MaxSent   \* bound: the symbols of a stream

Octets == 0 .. SymMax

\* Tables grow, and no total is above what is left of the interval (CodeBot is
\* 2^23 in the code, an entry of a table has 16 bits).
ASSUME TablesAssumption ==
    /\ \A cdf \in Cdfs : /\ cdf \in Seq(Nat) /\ Len(cdf) >= 2
                         /\ \A i, j \in 1 .. Len(cdf) : i <= j => cdf[i] <= cdf[j]
                         /\ Width(cdf) \in 1 .. CodeBot
    /\ Foreign \subseteq Seq(Octets)
    /\ MaxSent \in Nat

VARIABLES stage,  \* "encode", "flush", "refused", "written", "decode", "foreign"
          enc,    \* the encoder
          tail,   \* Done's end, and the bits of it left
          dec,    \* the decoder
          sent,   \* the symbols encoded, with their tables
          got,    \* the symbols decoded
          taken,  \* history: the bytes the decoder asked for
          ideal   \* history: the intervals of the ideal coder, one for each turn

streamVars == <<stage, enc, tail, dec, sent, got, taken, ideal>>

-----------------------------------------------------------------------------
(***************************************************************************)
(* The ideal coder: the interval low .. low + rng - 1, in units of which   *)
(* CodeTop * Sym^bytes make the whole; coded symbols led to it.            *)
(***************************************************************************)
Whole == [low |-> 0, rng |-> CodeTop, bytes |-> 0, coded |-> 0]

Scaled(i) == [i EXCEPT !.low = @ * Sym, !.rng = @ * Sym, !.bytes = @ + 1]

Part(i, fl, fh, ft) ==
    LET r == i.rng \div ft
    IN [i EXCEPT !.low = IF fl > 0 THEN @ + i.rng - r * (ft - fl) ELSE @,
                 !.rng = IF fl > 0 THEN r * (fh - fl) ELSE @ - r * (ft - fh),
                 !.coded = @ + 1]

Now == ideal[Len(ideal)]

\* The bytes that left the encoder, those it holds back included.
Bytes(e) == e.out \o (IF e.rem >= 0 THEN <<e.rem>> ELSE <<>>) \o [i \in 1 .. e.ext |-> SymMax]

\* The number that the first n bytes of s make, with zeros past its end.
Byte(s, n) == IF n \in 1 .. Len(s) THEN s[n] ELSE 0
Number(s) == LET f[n \in Nat] == IF n = 0 THEN 0 ELSE f[n - 1] * Sym + Byte(s, n)
             IN f

-----------------------------------------------------------------------------
(* Encoding. *)

StreamInit ==
    /\ stage = "encode"
    /\ enc = NewRangeEncoder
    /\ tail = [end |-> 0, left |-> 0]
    /\ dec = firstIn(<<>>)
    /\ sent = <<>> /\ got = <<>>
    /\ taken = 0
    /\ ideal = <<Whole>>

\* EncodeCDF, to its normalize.  A symbol without width is never coded: the codec's
\* tables have none among the symbols it uses (pdfToCmf).
EncodeCDF(cdf, s) ==
    /\ stage = "encode" /\ ~Narrow(enc)
    /\ Len(sent) < MaxSent
    /\ cdf[s + 1] < cdf[s + 2]
    /\ enc' = select(enc, cdf[s + 1] - cdf[1], cdf[s + 2] - cdf[1], Width(cdf))
    /\ sent' = Append(sent, [cdf |-> cdf, sym |-> s])
    /\ ideal' = Append(ideal,
                       Part(Now, cdf[s + 1] - cdf[1], cdf[s + 2] - cdf[1], Width(cdf)))
    /\ UNCHANGED <<stage, tail, dec, got, taken>>

Normalize ==
    /\ stage = "encode" /\ Narrow(enc)
    /\ enc' = shiftOut(enc)
    /\ ideal' = Append(ideal, Scaled(Now))
    /\ UNCHANGED <<stage, tail, dec, sent, got, taken>>

\* Done chooses a number of the interval, and writes what of it is not zero.
Done ==
    /\ stage = "encode" /\ ~Narrow(enc)
    /\ stage' = "flush"
    /\ tail' = Cut(enc)
    /\ ideal' = Append(ideal, [Now EXCEPT !.low = @ - enc.val + Cut(enc).end, !.rng = 1])
    /\ UNCHANGED <<enc, dec, sent, got, taken>>

Flush ==
    /\ stage = "flush" /\ tail.left > 0
    /\ enc' = flushOut(enc, tail)
    /\ tail' = flushed(tail)
    /\ ideal' = Append(ideal, Scaled(Now))
    /\ UNCHANGED <<stage, dec, sent, got, taken>>

\* The last bytes held back; a buffer that was too small is no packet.
Release ==
    /\ stage = "flush" /\ tail.left <= 0
    /\ enc' = release(enc)
    /\ stage' = IF enc'.err THEN "refused" ELSE "written"
    /\ UNCHANGED <<tail, dec, sent, got, taken, ideal>>

-----------------------------------------------------------------------------
(* Decoding. *)

Open ==
    /\ stage = "written"
    /\ stage' = "decode"
    /\ dec' = firstIn(enc.out)
    /\ taken' = 1
    /\ UNCHANGED <<enc, tail, sent, got, ideal>>

OpenForeign(buf) ==
    /\ stage = "encode" /\ sent = <<>>
    /\ stage' = "foreign"
    /\ dec' = firstIn(buf)
    /\ taken' = 1
    /\ UNCHANGED <<enc, tail, sent, got, ideal>>

DecNormalize ==
    /\ stage \in {"decode", "foreign"} /\ Narrow(dec)
    /\ dec' = shiftIn(dec)
    /\ taken' = taken + 1
    /\ UNCHANGED <<stage, enc, tail, sent, got, ideal>>

\* DecodeCDF, to its normalize.
DecodeCDF(cdf) ==
    /\ stage \in {"decode", "foreign"} /\ ~Narrow(dec)
    /\ IF stage = "decode" THEN Len(got) < Len(sent) /\ cdf = sent[Len(got) + 1].cdf
                           ELSE Len(got) < MaxSent
    /\ LET k == symbolAt(dec, cdf)
       IN /\ got' = Append(got, k)
          /\ dec' = remove(dec, cdf[k + 1] - cdf[1], cdf[k + 2] - cdf[1], Width(cdf))
    /\ UNCHANGED <<stage, enc, tail, sent, taken, ideal>>

StreamNext ==
    \/ \E cdf \in Cdfs : \E s \in 0 .. Len(cdf) - 2 : EncodeCDF(cdf, s)
    \/ Normalize \/ Done \/ Flush \/ Release
    \/ Open \/ \E buf \in Foreign : OpenForeign(buf)
    \/ DecNormalize \/ \E cdf \in Cdfs : DecodeCDF(cdf)

StreamSpec == StreamInit /\ [][StreamNext]_streamVars

-----------------------------------------------------------------------------
(***************************************************************************)
(* The number that is leaving the encoder: val, or at the end Done's.      *)
(***************************************************************************)
Register == IF stage = "encode" THEN enc.val ELSE tail.end

\* What the encoder wrote, holds back and has in its register is the ideal's number:
\* bytes are held and released, carries run through them, and nothing is lost
\* (carryOut, normalize, Done), as long as the buffer takes them (err).
Exact ==
    ~enc.err => Now.low = Number(Bytes(enc))[Now.bytes] * CodeTop + Register

\* A byte that leaves with a carry finds the byte before it held back, and not at
\* its maximum: rem + carry is written as one byte (carryOut), which would lose it.
CarryHasPlace ==
    stage \in {"encode", "flush"} /\ Register >= CodeTop
       => enc.rem \in 0 .. SymMax - 1

\* Whatever the buffer holds, the interval has not vanished and the value lies in it:
\* normalize, which would shift a zero for ever, ends, Decode has a unit to divide by, and
\* Update subtracts no more than there is.
DecoderInRange ==
    stage \in {"decode", "foreign"} => /\ dec.rng \in 1 .. CodeTop
                                       /\ dec.val \in 0 .. dec.rng - 1

\* The decoder reads the symbols that the encoder was given, in order.
ReadsBack ==
    stage = "decode" => \A i \in 1 .. Len(got) : got[i] = sent[i].sym
=============================================================================
