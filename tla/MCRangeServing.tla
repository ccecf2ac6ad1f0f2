--------------------------- MODULE MCRangeServing ---------------------------
(* An instance of RangeServing for TLC: files of up to three frames of two  *)
(* bytes, the last of which is full or not, and every header over numbers   *)
(* from before the first byte of a frame to past the end of the file.       *)
EXTENDS RangeServing

MCLengths == 0..6
MCNumbers == 0..7
MCCounts == 1..7
=============================================================================
