----------------------------- MODULE MCDownload -----------------------------
(* Instances of Download for TLC: a path with an empty version, two of one  *)
(* length and a longer one, and another path.                               *)
EXTENDS Download

MCVersion(p, n, s) == [path |-> p, no |-> n, size |-> s]

MCVersions ==
    {MCVersion("a", 0, 0), MCVersion("a", 1, 2), MCVersion("a", 2, 2),
     MCVersion("a", 3, 3), MCVersion("b", 0, 2)}
=============================================================================
