--------------------------- MODULE MCReadReporter ---------------------------
(***************************************************************************)
(* Small instances of ReadReporter: a post list of height 8 in a window of *)
(* height 12, a short post p1 and p2, five times as tall as the list.      *)
(***************************************************************************)
EXTENDS ReadReporter

CONSTANTS p1, p2

MCCreateAt == [p \in Posts |-> IF p = p1 THEN 1 ELSE 2]

MCHeight == [p \in Posts |-> IF p = p1 THEN 4 ELSE 40]

(* Out of view, or all that fits is in view. *)
MCSlices == [p \in Posts |-> IF p = p1 THEN {0, 4} ELSE {0, 8}]

(* A wrapper, the post list, a wrapper that clips it. *)
MCAncestors ==
  << [scrolls |-> FALSE, height |-> 40], [scrolls |-> TRUE, height |-> 8],
     [scrolls |-> FALSE, height |-> 12] >>
=============================================================================
