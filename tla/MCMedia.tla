------------------------------ MODULE MCMedia ------------------------------
(* Two relays, and the devices of one contact: the first sends enough packets for *)
(* its numbers to come round, the others one each.                                *)
EXTENDS Media, TLC
CONSTANTS a, b
MCFirst == [s \in Streams |-> IF s = a THEN 3 ELSE 0]
MCSent == [s \in Streams |-> IF s = a THEN 6 ELSE 2]
MCShort == {<<b, 0>>}
Symm == Permutations(Relays)
=============================================================================
