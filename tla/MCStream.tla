------------------------------ MODULE MCStream ------------------------------
(***************************************************************************)
(* Tables with one symbol, with symbols of no width at both ends, with a   *)
(* first and a last symbol of one, and one that starts above zero, as the  *)
(* window of a table does.                                                 *)
(***************************************************************************)
EXTENDS RangeStream

MCCdfs == {<<0, 8>>, <<0, 1, 7, 8>>, <<2, 2, 3, 5, 5>>}
MCForeign == {<<>>, <<3>>, <<3, 3, 3, 3, 3, 3>>, <<0, 0, 1>>, <<2, 1, 0, 3, 1>>}
=============================================================================
