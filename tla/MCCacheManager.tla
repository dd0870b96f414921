--------------------------- MODULE MCCacheManager ---------------------------
(* Two keys with different livetimes, one extended when it is read; two    *)
(* calls of the one, one of the other, and one of the other with an        *)
(* argument that makes its callback throw; two edits.                      *)
EXTENDS CacheManager

CONSTANTS k1, k2, c1, c2, c3, c4, w1, w2

MCLivetime == [k \in Keys |-> IF k = k1 THEN 2 ELSE 1]
MCKeyOf == [c \in Calls |-> IF c \in {c3, c4} THEN k2 ELSE k1]
MCTouched == [w \in Writers |-> IF w = w1 THEN Keys ELSE {k1}]
MCExtended == {k1}
=============================================================================
