-------------------------- MODULE MC_MergeAccessLog --------------------------
(* Three merge requests over two endpoints, so that two grandchildren can *)
(* count the same endpoint while a third counts another.                  *)
EXTENDS MergeAccessLog, TLC

CONSTANTS r1, r2, r3, a1, a2

MCRequests == {r1, r2, r3}
MCApis == {a1, a2}

(* Requests are interchangeable, and so are endpoints: Init chooses every *)
(* assignment and every starting table, and no action names one.          *)
MCSymmetry == Permutations(MCRequests) \cup Permutations(MCApis)
=============================================================================
