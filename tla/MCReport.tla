------------------------------- MODULE MCReport -------------------------------
(***************************************************************************)
(* Three file numbers, so that one in use twice before can come back; a    *)
(* log of two lines a file.  Either one runner and a failure, or two that  *)
(* overlap.                                                                *)
(***************************************************************************)
EXTENDS Report, TLC

Symmetric == Permutations(Runners)
=============================================================================
