---------------------------- MODULE MCAuthorView ----------------------------
(***************************************************************************)
(* Small instances of AuthorView: two readers and windows of one reader,   *)
(* so that the count is cut and the list has two pages.                    *)
(***************************************************************************)
EXTENDS AuthorView

CONSTANTS r1, r2
=============================================================================
