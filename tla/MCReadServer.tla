----------------------------- MODULE MCReadServer -----------------------------
(***************************************************************************)
(* Small instances of ReadServer: author a and some readers; the posts'    *)
(* times may tie.                                                          *)
(***************************************************************************)
EXTENDS ReadServer, TLC

CONSTANTS a, r1, r2, r3, p1, p2, p3

MCCreateAt == [p \in Posts |-> IF p = p1 THEN 1 ELSE 2]

MCOrdered == [p \in Posts |-> CASE p = p1 -> 1 [] p = p2 -> 2 [] p = p3 -> 3]

(* A channel with one author. *)
MCAuthor == [p \in Posts |-> a]

Symmetry == Permutations(Requests)
=============================================================================
