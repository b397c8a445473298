----------------------------- MODULE MCFileTailer -----------------------------
(***************************************************************************)
(* Two files under one name, a line of up to three pieces, which may be    *)
(* longer than MAX_LINE, and one of a single piece.                        *)
(***************************************************************************)
EXTENDS FileTailer

MCMaxPieces == <<3, 1>>
BothRotations == {"rename", "truncate"}
=============================================================================
