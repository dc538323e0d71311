------------------------------ MODULE MCReadQuery ------------------------------
(***************************************************************************)
(* Small instances of ReadQuery: author a and readers r1, r2, r3.          *)
(***************************************************************************)
EXTENDS ReadQuery, TLC

CONSTANTS a, r1, r2, r3, p1, p2

MCCreateAt == [p \in Posts |-> IF p = p1 THEN 1 ELSE 2]

MCAuthor == [p \in Posts |-> a]

(* The readers without a watermark of version 0.1. *)
Symmetry == Permutations({r2, r3})
=============================================================================
