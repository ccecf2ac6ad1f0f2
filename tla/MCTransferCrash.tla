--------------------------- MODULE MCTransferCrash ---------------------------
(* Instances of TransferCrash for TLC: a shared path, alone or with one in  *)
(* a home.                                                                  *)
EXTENDS TransferCrash, TLC

MCPaths == {"shared/a"}
MCBothPaths == {"shared/a", "~alice/b"}
MCCanonical == [raw \in RawPaths |-> raw]
MCHome == [p \in Paths |-> IF p = "~alice/b" THEN "alice" ELSE None]

MCTwoUsers == {"alice", "root"}
MCOneUser == {"alice"}
MCNoAdmins == {}
MCAdmins == {"root"}

IdSymmetry == Permutations(Ids)
=============================================================================
