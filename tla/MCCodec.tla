------------------------------ MODULE MCCodec ------------------------------
(* A small codec, and the packets it is tried on: every pulse vector of one  *)
(* subframe next to a few in the others, and every pair of internal frames   *)
(* that differ in what the predictors keep.                                  *)
EXTENDS Codec

\* Two positions with at most two pulses: all of them, and a few.
Vectors == {v \in [1 .. 2 -> -2 .. 2] : Magnitude(v[1]) + Magnitude(v[2]) <= 2}
Few == {<<0, 0>>, <<0, -1>>, <<1, 1>>}

\* Five contours, range coded: <<1, 0>> of 1 and 3 subblocks, <<0>>, <<3>>, <<0, 2>>
\* of 2 and 2, and <<2>>.
Bitstream == <<0, 3, 1, 2, 1, 3, 1, 2, 1, 3, 2, 3, 0, 0, 0, 1, 0, 1, 2, 2, 1>>

MCSeed ==
    [sel |-> <<<<0, 30, 63>>, <<0, 40, 63>>, <<0, 11, 63>>>>,
     grid |-> <<<<<<0, 21, 50>>, <<0, 33, 60>>>>, <<<<0, 9, 50, 63>>, <<0, 45, 50, 60>>>>>>,
     extra |-> <<0, 20, 63>>,
     levels |-> <<2, 3, 2, 2, 3, 2, 2, 2, 3, 2, 2, 2>>,
     dcmfs |-> <<0, 2, 1, 0, 1, 0, 1, 1, 1, 2, 0, 0, 1, 1, 0, 0, 1, 1, 2, 0, 0, 1, 0, 1, 2, 0, 0>>,
     gain4 |-> <<2, 1>>, shape4 |-> <<0, 1>>,
     offset |-> <<<<0, 0, 1, 0>>, <<0, 1, 2, 1>>, <<1, 1, 0, 2>>, <<2, 0, 0, 1>>>>,
     acb |-> <<<<0, 1>>, <<1, 0>>, <<0, 2>>>>,
     fcb |-> <<1, 0>>, fcbDelta |-> <<0, 2, 1>>,
     blocksegs |-> Bitstream, rank |-> <<3, 1, 5, 2, 4>>,
     idx |-> <<1, 0, 2, 0, 1>>,
     delta |-> <<<<0, 0, 1, 2, 2, 2, 1, 0, 0>>, <<0, 0, 0, 1, 3, 1, 0, 0, 0>>,
                 <<1, 1, 1, 1, 1, 1, 1, 1, 1>>>>,
     transition |-> <<<<2, 1, 0, 0>>, <<1, 2, 1, 0>>, <<0, 1, 2, 1>>, <<0, 0, 1, 2>>>>,
     range |-> <<<<0, 1>>, <<2, 2>>, <<3, 3>>, <<4, 4>>>>]

Fresh == [stage1 |-> 0, gain |-> 0, filt |-> 0, lag |-> 0, frac |-> 0]
MCLeftovers == {Fresh, [stage1 |-> 1, gain |-> 1, filt |-> 1, lag |-> 2, frac |-> 5]}

Silent(v) == \A n \in 1 .. 2 : v[n] = 0

Unvoiced(v, grid, main) ==
    [stage1 |-> 0, grid |-> grid, res |-> <<main>>, extra |-> grid, pulses |-> v,
     main |-> main, shape |-> grid,
     nrg |-> [sf \in 1 .. 4 |-> IF Silent(v[sf]) THEN -1 ELSE (sf + main) % 2],
     gains |-> <<0, 0, 0, 0>>, filt |-> <<0, 0, 0, 0>>, contour |-> 1, lag |-> <<0, 0>>]

Voiced(v, gain, contour, lag) ==
    [stage1 |-> 1, grid |-> lag[1], res |-> <<gain[2]>>, extra |-> 0, pulses |-> v,
     main |-> 0, shape |-> 0, nrg |-> <<-1, -1, -1, -1>>,
     gains |-> gain,
     filt |-> [sf \in 1 .. 4 |-> IF Silent(v[sf]) THEN -1 ELSE (sf + lag[1]) % 2],
     contour |-> contour, lag |-> SubSeq(lag, 1, Len(Contours[contour].blocks))]

Shapes == {<<<<0, 0>>, <<0, 0>>, <<0, 0>>, <<0, 0>>>>,
           <<<<0, -1>>, <<0, 0>>, <<2, 0>>, <<1, -1>>>>}

Internals ==
    {Unvoiced(v, g, m) : v \in Shapes, g \in 0 .. 1, m \in 0 .. 1}
    \cup {Voiced(v, gl[1], c, gl[2]) : v \in Shapes, c \in 1 .. 5,
            gl \in {<<<<0, 0, 0, 0>>, <<0, 1>>>>, <<<<0, 0, 0, 0>>, <<1, 0>>>>,
                    <<<<1, 0, 0, 1>>, <<1, 0>>>>, <<<<1, 1, 1, 1>>, <<0, 1>>>>}}

\* The last grid continues the envelope of the frame before.
Continued == {<<a, [b EXCEPT !.grid = Grids - 1]>> :
                 a \in {x \in Internals : x.grid = 0 /\ x.pulses[3] = <<0, 0>>},
                 b \in {x \in Internals : x.grid = 1 /\ x.pulses[3] = <<0, 0>>}}

MCFrames ==
    {<<a, b>> : a \in Internals, b \in Internals}
    \cup {fp \in Continued : fp[1].stage1 = fp[2].stage1}
    \cup {<<Unvoiced(<<a, b, c, d>>, 0, 1)>> : a \in Vectors, b \in Few, c \in Vectors, d \in Few}
=============================================================================
