----------------------------- MODULE MCTransfer -----------------------------
(* Instances of Transfer for TLC: two users and an admin, a shared path and *)
(* a home path, one of them spelled in two ways.                            *)
EXTENDS Transfer, TLC

MCBothPaths == {"shared/a", "~alice/b"}
MCBothRawPaths == {"/shared/./a", "~alice/b", "shared"}
MCCanonical ==
    [raw \in RawPaths |-> IF raw \in Paths THEN raw
                          ELSE IF raw = "shared" THEN None ELSE "shared/a"]
MCHome == [p \in Paths |-> IF p = "~alice/b" THEN "alice" ELSE None]

MCSharedPaths == {"shared/a"}

MCUsers == {"alice", "bob", "root"}
MCTwoUsers == {"alice", "root"}
MCAdmins == {"root"}

IdSymmetry == Permutations(Ids)
=============================================================================
