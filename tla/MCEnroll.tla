------------------------------ MODULE MCEnroll ------------------------------
(* Small instances of Enroll for TLC. *)
EXTENDS Enroll
=============================================================================
