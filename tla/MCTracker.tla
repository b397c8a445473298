------------------------------ MODULE MCTracker ------------------------------
(***************************************************************************)
(* Three keys over two policies: one bans at the second hit inside two     *)
(* seconds, the other at the third inside three.  The table holds two keys *)
(* so that the third makes it evict, and the rings have a slot more than   *)
(* any policy uses, as the code's 32 slots have for every usual maxretry.  *)
(***************************************************************************)
EXTENDS Tracker, TLC

CONSTANTS k1, k2, k3

MCKeys == {k1, k2, k3}
MCMaxRetry == (k1 :> 3) @@ (k2 :> 2) @@ (k3 :> 2)
MCFindTime == (k1 :> 2) @@ (k2 :> 1) @@ (k3 :> 1)
=============================================================================
