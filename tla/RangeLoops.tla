----------------------------- MODULE RangeLoops -----------------------------
(***************************************************************************)
(* The methods of the range coder (rangecoder.go) in one piece, with their *)
(* loops: for the codec a symbol is one step.  RangeStream takes the turns *)
(* of the same loops one by one.                                           *)
(***************************************************************************)
EXTENDS RangeCoder

RECURSIVE normalize(_)
normalize(e) == IF Narrow(e) THEN normalize(shiftOut(e)) ELSE e

Encode(e, fl, fh, ft) == normalize(select(e, fl, fh, ft))

EncodeCDF(e, s, cdf) ==
    IF Empty(cdf) \/ s < 0 \/ s + 1 >= Len(cdf) THEN [e EXCEPT !.err = TRUE]
    ELSE Encode(e, cdf[s + 1] - cdf[1], cdf[s + 2] - cdf[1], Width(cdf))

RECURSIVE flush(_, _)
flush(e, t) == IF t.left <= 0 THEN e ELSE flush(flushOut(e, t), flushed(t))

Done(e) == release(flush(e, Cut(e)))

RECURSIVE decNormalize(_)
decNormalize(d) == IF Narrow(d) THEN decNormalize(shiftIn(d)) ELSE d

NewRangeDecoder(buf) == decNormalize(firstIn(buf))

Update(d, fl, fh, ft) == decNormalize(remove(d, fl, fh, ft))

\* The symbol, and the decoder past it.
DecodeCDF(d, cdf) ==
    IF Empty(cdf) THEN [sym |-> 0, dec |-> d]
    ELSE LET k == symbolAt(d, cdf)
         IN [sym |-> k, dec |-> Update(d, cdf[k + 1] - cdf[1], cdf[k + 2] - cdf[1], Width(cdf))]
=============================================================================
