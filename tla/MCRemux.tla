------------------------------ MODULE MCRemux ------------------------------
(* An instance of Remux for TLC: requests, processes and files are          *)
(* interchangeable.                                                         *)
EXTENDS Remux, TLC

MCSymmetry == Permutations(Requests) \cup Permutations(Ffmpegs) \cup Permutations(Inodes)
=============================================================================
