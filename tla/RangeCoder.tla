----------------------------- MODULE RangeCoder -----------------------------
(***************************************************************************)
(* The range coder of the voice codec (internal/voip/media/mlow/           *)
(* rangecoder.go): RangeEncoder and RangeDecoder as records, one operator  *)
(* per method.  SymBits and CodeBits are 8 and 32 in the code; smaller     *)
(* ones keep every computation of the coder (renormalisation, the run of   *)
(* held bytes, the carry through it, the flush) and make their corner      *)
(* cases common.  Raw bits at the back of the buffer (BitsN, EncodeUint)   *)
(* are left out: no frame of the codec uses them, so the buffer fills from *)
(* the front only and ConsumedLen is the length of the front.              *)
(***************************************************************************)
EXTENDS Naturals, Integers, Sequences

CONSTANTS SymBits,   \* ecSymBits
          CodeBits,  \* ecCodeBits
          Storage    \* the size of the encoder's buffer, in symbols

ASSUME WidthsAssumption == /\ SymBits \in Nat \ {0}
                           /\ CodeBits \in Nat
                           /\ CodeBits > 2 * SymBits
                           /\ Storage \in Nat

\* Powers of two.
Two[n \in Nat] == IF n = 0 THEN 1 ELSE 2 * Two[n - 1]

Sym == Two[SymBits]
SymMax == Sym - 1
CodeTop == Two[CodeBits - 1]
CodeBot == CodeTop \div Sym
CodeExtra == ((CodeBits - 2) % SymBits) + 1
CodeShift == CodeBits - SymBits - 1

Least(a, b) == IF a < b THEN a ELSE b

\* ilog: the number of bits of x.
ilog(x) == CHOOSE n \in 0 .. CodeBits : x < Two[n] /\ (n > 0 => Two[n - 1] <= x)

(***************************************************************************)
(* The encoder: out is the written front of the buffer, rem the last byte, *)
(* held back for a carry (-1 before the first), ext the number of SymMax   *)
(* bytes held behind it.                                                   *)
(***************************************************************************)
NewRangeEncoder ==
    [out |-> <<>>, rng |-> CodeTop, val |-> 0, rem |-> -1, ext |-> 0, err |-> FALSE]

\* writeByte for each of bs: what does not fit is lost and marks the error.
writeBytes(e, bs) ==
    LET room == Storage - Len(e.out)
    IN [e EXCEPT !.out = @ \o SubSeq(bs, 1, Least(room, Len(bs))),
                 !.err = @ \/ Len(bs) > room]

\* Mutant: the carry reaches the byte held first, not the run behind it.
carryStops(e, c) ==
    LET carry == c \div Sym
        held == (IF e.rem >= 0 THEN <<(e.rem + carry) % Sym>> ELSE <<>>)
                \o [i \in 1 .. e.ext |-> SymMax]
    IN IF c = SymMax THEN [e EXCEPT !.ext = @ + 1]
       ELSE [writeBytes(e, held) EXCEPT !.rem = c % Sym, !.ext = 0]

\* A byte leaves the coder: SymMax is held back, since a carry could still reach
\* it; any other byte releases, carry included, what was held.
carryOut(e, c) ==
    LET carry == c \div Sym
        held == (IF e.rem >= 0 THEN <<(e.rem + carry) % Sym>> ELSE <<>>)
                \o [i \in 1 .. e.ext |-> (SymMax + carry) % Sym]
    IN IF c = SymMax THEN [e EXCEPT !.ext = @ + 1]
       ELSE [writeBytes(e, held) EXCEPT !.rem = c % Sym, !.ext = 0]

\* normalize, one turn: while the interval is narrow a byte leaves.
Narrow(x) == x.rng <= CodeBot

shiftOut(e) ==
    [carryOut(e, e.val \div Two[CodeShift])
       EXCEPT !.val = (e.val * Sym) % CodeTop, !.rng = e.rng * Sym]

\* Encode, before it normalizes: the part fl .. fh of ft of the interval.
select(e, fl, fh, ft) ==
    LET r == e.rng \div ft
    IN IF fl > 0
       THEN [e EXCEPT !.val = (@ + e.rng - r * (ft - fl)) % Two[CodeBits],
                      !.rng = r * (fh - fl)]
       ELSE [e EXCEPT !.rng = @ - r * (ft - fh)]

\* A cumulative table, or a window of one, is a sequence: the symbol s has the
\* interval between its entries s + 1 and s + 2.  One without symbols, or without
\* width, codes nothing.
Width(cdf) == cdf[Len(cdf)] - cdf[1]
Empty(cdf) == Len(cdf) < 2 \/ Width(cdf) <= 0

\* Mutant: the value with the most trailing zeros, though it may be above the interval.
cutAbove(e) ==
    LET l == CodeBits - ilog(e.rng)
        m == (CodeTop - 1) \div Two[l]
    IN [end |-> e.val + m - ((e.val + m) % (m + 1)), left |-> l]

\* Done: the value of the interval with the most trailing zeros, and how many bits
\* of it there are to write.  val + rng is below Two[CodeBits]: no sum wraps around
\* (Contained in StreamProofs).
Cut(e) ==
    LET l == CodeBits - ilog(e.rng)
        cut(m) == e.val + m - ((e.val + m) % (m + 1))
        m1 == (CodeTop - 1) \div Two[l]
        m2 == m1 \div 2
    IN IF cut(m1) + m1 >= e.val + e.rng THEN [end |-> cut(m2), left |-> l + 1]
                                        ELSE [end |-> cut(m1), left |-> l]

\* One turn of the loop of Done, and its last byte, which releases those held.
flushOut(e, t) == carryOut(e, t.end \div Two[CodeShift])
flushed(t) == [end |-> (t.end * Sym) % CodeTop, left |-> t.left - SymBits]
release(e) == IF e.rem >= 0 \/ e.ext > 0 THEN carryOut(e, 0) ELSE e

-----------------------------------------------------------------------------
(***************************************************************************)
(* The decoder: the rest of the buffer, and the interval.  Past the end of *)
(* the buffer it reads zeros.                                              *)
(***************************************************************************)
readByte(d) == IF d.buf = <<>> THEN 0 ELSE Head(d.buf)
unread(d) == IF d.buf = <<>> THEN <<>> ELSE Tail(d.buf)

\* The bits of a byte that stay for the next one.
Kept == Two[SymBits - CodeExtra]

\* normalize, one turn: while the interval is narrow a byte comes in.
shiftIn(d) ==
    LET byte == readByte(d)
        sym == ((d.rem * Sym + byte) \div Kept) % Sym
    IN [buf |-> unread(d), rng |-> d.rng * Sym, rem |-> byte,
        val |-> (d.val * Sym + SymMax - sym) % CodeTop]

\* NewRangeDecoder, before it normalizes.
firstIn(buf) ==
    LET first == [buf |-> buf, rng |-> Two[CodeExtra], rem |-> 0, val |-> 0]
        byte == readByte(first)
    IN [first EXCEPT !.buf = unread(first), !.rem = byte,
                     !.val = first.rng - 1 - byte \div Kept]

\* Decode: the cumulative frequency at which the value lies, out of ft.
Decode(d, ft) == ft - Least(d.val \div (d.rng \div ft) + 1, ft)

\* The first symbol of the table whose interval ends above the value.
symbolAt(d, cdf) ==
    LET target == cdf[1] + Decode(d, Width(cdf))
    IN CHOOSE j \in 0 .. Len(cdf) - 2 :
           /\ cdf[j + 2] > target
           /\ \A i \in 0 .. j - 1 : cdf[i + 2] <= target

\* Mutant: the first symbol of a table gets its share only, not what the division left.
removeShare(d, fl, fh, ft) ==
    LET ext == d.rng \div ft
    IN [d EXCEPT !.val = @ - ext * (ft - fh), !.rng = ext * (fh - fl)]

\* Update, before it normalizes.
remove(d, fl, fh, ft) ==
    LET ext == d.rng \div ft
        s == ext * (ft - fh)
    IN [d EXCEPT !.val = @ - s,
                 !.rng = IF fl > 0 THEN ext * (fh - fl) ELSE @ - s]
=============================================================================
